----------------------------- MODULE Blobs_proofs -----------------------------
(***************************************************************************)
(* Theorems about Blobs, for any number of helpers, packs, part sizes,     *)
(* attempts and faults: what is dropped is nobody's any more, and what is  *)
(* missing the remote promised.                                            *)
(***************************************************************************)
EXTENDS Blobs, TLAPS

-----------------------------------------------------------------------------
\* Types.

LEMMA StateGrows ==
  ASSUME NEW m \in Nat, NEW n \in Nat, m <= n
  PROVE  State(m) \subseteq State(n)
<1>1. 0..m \subseteq 0..n
  OBVIOUS
<1> QED
  BY <1>1 DEF State

LEMMA IdleType ==
  ASSUME NEW n \in Nat
  PROVE  Idle \in State(n)
BY BoundAssumption DEF Idle, State, Pcs

LEMMA MovedType ==
  ASSUME NEW n \in Nat, NEW state \in State(n), NEW to \in Pcs
  PROVE  /\ [state EXCEPT !.pc = to] \in State(n) /\ Moved(state, to) \in State(n)
         /\ to \in {"idle", "attempt", "build"} => Discarding(state, to) \in State(n)
<1>1. [state EXCEPT !.pc = to] \in State(n)
  BY DEF State
<1>2. Moved(state, to) \in State(n)
  BY <1>1, IdleType DEF Moved
<1>3. ASSUME to \in {"idle", "attempt", "build"}
      PROVE  Discarding(state, to) \in State(n)
  <2>1. [state EXCEPT !.pc = "discard", !.after = to] \in State(n)
    BY <1>3 DEF State, Pcs
  <2> QED
    BY <1>2, <2>1 DEF Discarding
<1> QED
  BY <1>1, <1>2, <1>3

(* A pack of some bytes is cut into at least one part.                     *)
LEMMA CutType ==
  ASSUME NEW n \in Length
  PROVE  Cut(n) \in Seq(Nat) /\ Cut(n) # <<>>
<1>1. n \in Nat \ {0} /\ PartSize \in Nat
  BY SizeAssumption
<1>2. CASE PartSize = 0
  BY <1>1, <1>2 DEF Cut
<1>3. CASE PartSize # 0
  <2> DEFINE k == (n + PartSize - 1) \div PartSize
  <2>1. k \in Nat /\ k >= 1
    BY <1>1, <1>3
  <2>2. n % PartSize \in Nat
    BY <1>1, <1>3
  <2> HIDE DEF k
  <2>3. Cut(n) = [i \in 1..k |-> IF i * PartSize <= n THEN PartSize ELSE n % PartSize]
    BY <1>3 DEF Cut, k
  <2>4. Cut(n) \in [1..k -> Nat]
    BY <1>1, <2>2, <2>3
  <2>5. Cut(n) \in Seq(Nat)
    BY <2>1, <2>4
  <2>6. 1 \in DOMAIN Cut(n)
    BY <2>1, <2>4
  <2> QED
    BY <2>5, <2>6
<1> QED
  BY <1>2, <1>3

LEMMA BlobsType ==
  ASSUME NEW p \in Pack, NEW sizes \in Seq(Nat)
  PROVE  /\ Blobs(p, sizes) \subseteq Blob /\ BigBlobs(p, sizes) \subseteq Blobs(p, sizes)
         /\ \A b \in Blobs(p, sizes) : b.pack = p
         /\ \A i \in DOMAIN sizes : PartNames(p, sizes)[i] \in Blobs(p, sizes)
         /\ sizes = <<>> => Blobs(p, sizes) = {}
<1>1. DOMAIN sizes = 1..Len(sizes) /\ Len(sizes) \in Nat
  OBVIOUS
<1>2. \A i \in DOMAIN sizes : PartNames(p, sizes)[i] \in Blob /\ PartNames(p, sizes)[i].pack = p
  BY <1>1 DEF PartNames, PartName, Blob, Whole
<1>3. sizes = <<>> => DOMAIN sizes = {}
  BY <1>1
<1> QED
  BY <1>2, <1>3 DEF Blobs, BigBlobs

LEMMA TreeType ==
  ASSUME TypeOK, NEW v \in 0..Len(log)
  PROVE  TreeAt(v) \in SUBSET Blob
<1>1. log \in Seq(Commit) /\ Len(log) \in Nat
  BY DEF TypeOK, HostOK
<1>2. v # 0 => v \in 1..Len(log)
  BY <1>1
<1>3. v # 0 => log[v] \in Commit
  BY <1>1, <1>2
<1> QED
  BY <1>3 DEF TreeAt, Commit

LEMMA HelperType ==
  ASSUME TypeOK, NEW h \in Helper
  PROVE  /\ Len(log) \in Nat /\ tracking \in Nat
         /\ proc \in [Helper -> State(Len(log))] /\ proc[h] \in State(Len(log))
         /\ Tree(h) \in SUBSET Blob /\ PacksIn(Tree(h)) \in SUBSET Pack
         /\ Staged(h) \in SUBSET Pack /\ StagedBlobs(h) \in SUBSET Blob
         /\ \A p \in Staged(h) : stored[p] \in Seq(Nat)
<1>1. Len(log) \in Nat /\ proc \in [Helper -> State(Len(log))] /\ tracking \in Nat
  BY DEF TypeOK, HostOK, GitOK
<1>2. proc[h] \in State(Len(log))
  BY <1>1
<1>3. Tree(h) \in SUBSET Blob
  BY <1>2, TreeType DEF Tree, State
<1>4. PacksIn(Tree(h)) \in SUBSET Pack
  BY <1>3 DEF PacksIn, Blob
<1>5. Staged(h) \in SUBSET Pack
  BY <1>2 DEF Staged, State, StagedPack
<1>6. \A p \in Pack : stored[p] \in Seq(Nat)
  BY DEF TypeOK, HostOK
<1>7. StagedBlobs(h) \in SUBSET Blob
  BY <1>5, <1>6, BlobsType DEF StagedBlobs, BlobsOf
<1> QED
  BY <1>1, <1>2, <1>3, <1>4, <1>5, <1>6, <1>7

LEMMA FreshType ==
  ASSUME Unused # {}
  PROVE  Fresh \in Pack /\ stored[Fresh] = <<>>
BY DEF Unused, Fresh

LEMMA ProcType ==
  ASSUME TypeOK, NEW h \in Helper, Len(log') \in Nat, Len(log) <= Len(log'),
         NEW state \in State(Len(log')), proc' = [proc EXCEPT ![h] = state]
  PROVE  proc' \in [Helper -> State(Len(log'))]
BY HelperType, StateGrows

LEMMA GotoType ==
  ASSUME TypeOK, NEW h \in Helper, Len(log') \in Nat, Len(log) <= Len(log'),
         NEW to \in Pcs, Goto(h, to)
  PROVE  proc' \in [Helper -> State(Len(log'))]
<1>1. Moved(proc[h], to) \in State(Len(log'))
  BY HelperType, StateGrows, MovedType
<1> QED
  BY <1>1, ProcType, HelperType DEF Goto

LEMMA DiscardType ==
  ASSUME TypeOK, NEW h \in Helper, Len(log') \in Nat, Len(log) <= Len(log'),
         NEW to \in {"idle", "attempt", "build"}, DiscardThen(h, to)
  PROVE  proc' \in [Helper -> State(Len(log'))]
<1>1. Discarding(proc[h], to) \in State(Len(log'))
  BY HelperType, StateGrows, MovedType DEF Pcs
<1> QED
  BY <1>1, ProcType, HelperType DEF DiscardThen

-----------------------------------------------------------------------------
\* Who changes what.

\* The steps of a helper that reach the host.
HostStep(h) ==
  \/ \E n \in Length : Stage(h, n) \/ StageFails(h, n)
  \/ Upload(h) \/ \E landed \in BOOLEAN : UploadFails(h, landed)
  \/ \E answer \in {"done", "moved", "failed"} : Land(h, answer)
  \/ \E ok \in BOOLEAN : DeleteUpload(h, ok)

\* ... that store, fetch or drop blobs.
CacheStep(h) ==
  \/ EnsureBlobs(h) \/ DropLoose(h) \/ DropFetchedBlobs(h) \/ DropStored(h)
  \/ \E n \in Length : Stage(h, n) \/ StageFails(h, n)

\* ... that fetch the branch, move the tracking ref or seal commits.
RefStep(h) ==
  \/ \E what \in {"fetch", "push", "repack"} : Begin(h, what)
  \/ Retry(h) \/ Record(h) \/ RecordFails(h) \/ SealLoose(h) \/ SealStored(h)

\* ... that take or leave the fetch lock.
LockStep(h) ==
  LockFetch(h) \/ FetchFails(h) \/ DropFetchedBlobs(h) \/ SealStored(h) \/ DropStored(h)
    \/ Crash(h)

OthersStep == \E n \in OthersLength, base \in {{}, TreeAt(Len(log))} : Others(n, base)

Frame ==
  /\ UNCHANGED hostVars \/ OthersStep \/ \E h \in Helper : HostStep(h)
  /\ UNCHANGED cacheVars \/ \E h \in Helper : CacheStep(h)
  /\ UNCHANGED <<tracking, promised>> \/ \E h \in Helper : RefStep(h)
  /\ UNCHANGED lock \/ \E h \in Helper : LockStep(h)

LEMMA Frames ==
  ASSUME [Next]_vars
  PROVE  Frame
<1>1. ASSUME NEW h \in Helper, NEW what \in {"fetch", "push", "repack"}, Begin(h, what)
      PROVE  Frame
  BY <1>1 DEF Frame, RefStep, Begin, hostVars, cacheVars
<1>2. ASSUME NEW h \in Helper, LockFetch(h) PROVE Frame
  BY <1>2 DEF Frame, LockStep, LockFetch, hostVars, cacheVars
<1>3. ASSUME NEW h \in Helper, EnsureBlobs(h) PROVE Frame
  BY <1>3 DEF Frame, CacheStep, EnsureBlobs, hostVars
<1>4. ASSUME NEW h \in Helper, FetchFails(h) PROVE Frame
  BY <1>4 DEF Frame, LockStep, FetchFails, hostVars, cacheVars
<1>5. ASSUME NEW h \in Helper, NEW p \in Pack, IndexPack(h, p) PROVE Frame
  BY <1>5 DEF Frame, IndexPack, hostVars, cacheVars
<1>6. ASSUME NEW h \in Helper, SealLoose(h) PROVE Frame
  BY <1>6 DEF Frame, RefStep, SealLoose, hostVars, cacheVars
<1>7. ASSUME NEW h \in Helper, DropLoose(h) PROVE Frame
  BY <1>7 DEF Frame, CacheStep, DropLoose, hostVars
<1>8. ASSUME NEW h \in Helper, DropFetchedBlobs(h) PROVE Frame
  BY <1>8 DEF Frame, CacheStep, LockStep, DropFetchedBlobs, hostVars
<1>9. ASSUME NEW h \in Helper, Attempt(h) PROVE Frame
  BY <1>9 DEF Frame, Attempt, hostVars, cacheVars
<1>10. ASSUME NEW h \in Helper, GiveUp(h) PROVE Frame
  BY <1>10 DEF Frame, GiveUp, hostVars, sharedVars, cacheVars
<1>11. ASSUME NEW h \in Helper, BuildFails(h) PROVE Frame
  BY <1>11 DEF Frame, BuildFails, hostVars, sharedVars, cacheVars
<1>12. ASSUME NEW h \in Helper, Reuse(h) PROVE Frame
  BY <1>12 DEF Frame, Reuse, hostVars, sharedVars, cacheVars
<1>13. ASSUME NEW h \in Helper, Rebuild(h) PROVE Frame
  BY <1>13 DEF Frame, Rebuild, hostVars, sharedVars, cacheVars
<1>14. ASSUME NEW h \in Helper, BuildNothing(h) PROVE Frame
  BY <1>14 DEF Frame, BuildNothing, hostVars, sharedVars, cacheVars
<1>15. ASSUME NEW h \in Helper, NEW n \in Length, Stage(h, n) PROVE Frame
  <2>1. HostStep(h) /\ CacheStep(h)
    BY <1>15 DEF HostStep, CacheStep
  <2>2. UNCHANGED <<tracking, promised, lock>>
    BY <1>15 DEF Stage
  <2> QED
    BY <2>1, <2>2 DEF Frame
<1>16. ASSUME NEW h \in Helper, NEW n \in Length, StageFails(h, n) PROVE Frame
  <2>1. HostStep(h) /\ CacheStep(h)
    BY <1>16 DEF HostStep, CacheStep
  <2>2. UNCHANGED <<tracking, promised, lock>>
    BY <1>16 DEF StageFails
  <2> QED
    BY <2>1, <2>2 DEF Frame
<1>17. ASSUME NEW h \in Helper, Upload(h) PROVE Frame
  BY <1>17 DEF Frame, HostStep, Upload, sharedVars, cacheVars
<1>18. ASSUME NEW h \in Helper, NEW landed \in BOOLEAN, UploadFails(h, landed) PROVE Frame
  BY <1>18 DEF Frame, HostStep, UploadFails, sharedVars, cacheVars
<1>19. ASSUME NEW h \in Helper, NEW answer \in {"done", "moved", "failed"}, Land(h, answer)
      PROVE  Frame
  BY <1>19 DEF Frame, HostStep, Land, sharedVars, cacheVars
<1>20. ASSUME NEW h \in Helper, LoseRace(h) PROVE Frame
  BY <1>20 DEF Frame, LoseRace, hostVars, sharedVars, cacheVars
<1>21. ASSUME NEW h \in Helper, PushFails(h) PROVE Frame
  BY <1>21 DEF Frame, PushFails, hostVars, sharedVars, cacheVars
<1>22. ASSUME NEW h \in Helper, Retry(h) PROVE Frame
  BY <1>22 DEF Frame, RefStep, Retry, hostVars, cacheVars
<1>23. ASSUME NEW h \in Helper, Record(h) PROVE Frame
  BY <1>23 DEF Frame, RefStep, Record, hostVars, cacheVars
<1>24. ASSUME NEW h \in Helper, RecordFails(h) PROVE Frame
  BY <1>24 DEF Frame, RefStep, RecordFails, hostVars, cacheVars
<1>25. ASSUME NEW h \in Helper, RecordUnlocked(h) PROVE Frame
  BY <1>25 DEF Frame, RecordUnlocked, hostVars, cacheVars
<1>26. ASSUME NEW h \in Helper, SealStored(h) PROVE Frame
  BY <1>26 DEF Frame, RefStep, LockStep, SealStored, hostVars, cacheVars
<1>27. ASSUME NEW h \in Helper, KeepStored(h) PROVE Frame
  BY <1>27 DEF Frame, KeepStored, hostVars, sharedVars, cacheVars
<1>28. ASSUME NEW h \in Helper, DropStored(h) PROVE Frame
  BY <1>28 DEF Frame, CacheStep, LockStep, DropStored, hostVars
<1>29. ASSUME NEW h \in Helper, NEW ok \in BOOLEAN, DeleteUpload(h, ok) PROVE Frame
  BY <1>29 DEF Frame, HostStep, DeleteUpload, sharedVars, cacheVars
<1>30. ASSUME NEW h \in Helper, Crash(h) PROVE Frame
  BY <1>30 DEF Frame, LockStep, Crash, hostVars, cacheVars
<1>31. ASSUME NEW n \in OthersLength, NEW base \in {{}, TreeAt(Len(log))}, Others(n, base)
      PROVE  Frame
  BY <1>31 DEF Frame, OthersStep, Others, sharedVars, cacheVars
<1>32. ASSUME UNCHANGED vars PROVE Frame
  BY <1>32 DEF Frame, vars, hostVars, sharedVars, cacheVars
<1> QED
  BY <1>1, <1>2, <1>3, <1>4, <1>5, <1>6, <1>7, <1>8, <1>9, <1>10, <1>11, <1>12, <1>13,
       <1>14, <1>15, <1>16, <1>17, <1>18, <1>19, <1>20, <1>21, <1>22, <1>23, <1>24, <1>25,
       <1>26, <1>27, <1>28, <1>29, <1>30, <1>31, <1>32 DEF Next, Helps

-----------------------------------------------------------------------------
\* The host's side: history and packs only grow.

Grown ==
  /\ Len(log') \in Nat /\ Len(log) <= Len(log') /\ DOMAIN log \subseteq DOMAIN log'
  /\ \A v \in DOMAIN log : log'[v] = log[v]
  /\ \A p \in Pack : stored[p] # <<>> => stored'[p] = stored[p]

LEMMA LogType ==
  ASSUME TypeOK
  PROVE  /\ log \in Seq(Commit) /\ Len(log) \in Nat /\ DOMAIN log = 1..Len(log)
         /\ stored \in [Pack -> Seq(Nat)] /\ uploads \subseteq Pack
         /\ \A v \in DOMAIN log : log[v] \in Commit
BY DEF TypeOK, HostOK

LEMMA AppendType ==
  ASSUME TypeOK, NEW commit \in Commit, log' = Append(log, commit)
  PROVE  /\ log' \in Seq(Commit) /\ Len(log') = Len(log) + 1 /\ Len(log') \in Nat
         /\ DOMAIN log' = 1..(Len(log) + 1) /\ DOMAIN log' = DOMAIN log \cup {Len(log')}
         /\ \A v \in DOMAIN log : log'[v] = log[v]
         /\ log'[Len(log')] = commit
<1>1. log \in Seq(Commit) /\ Len(log) \in Nat /\ DOMAIN log = 1..Len(log)
  BY LogType
<1>2. 1..(Len(log) + 1) = 1..Len(log) \cup {Len(log) + 1}
  BY <1>1
<1> QED
  BY <1>1, <1>2

\* What lands is the tree of the helper's base with its pack.
LEMMA LandType ==
  ASSUME TypeOK, NEW h \in Helper, NEW answer \in {"done", "moved", "failed"}, Land(h, answer)
  PROVE  \E base \in {{}, Tree(h)} :
           /\ [tree |-> base \cup StagedBlobs(h), ours |-> TRUE] \in Commit
           /\ log' = Append(log, [tree |-> base \cup StagedBlobs(h), ours |-> TRUE])
<1> DEFINE base == IF proc[h].op = "repack" THEN {} ELSE Tree(h)
<1>1. log' = Append(log, [tree |-> base \cup StagedBlobs(h), ours |-> TRUE])
  BY DEF Land
<1>2. base \in {{}, Tree(h)}
  OBVIOUS
<1>3. base \cup StagedBlobs(h) \in SUBSET Blob
  BY <1>2, HelperType
<1> HIDE DEF base
<1> QED
  BY <1>1, <1>2, <1>3 DEF Commit

LEMMA StageType ==
  ASSUME TypeOK, NEW n \in Length, Unused # {}, stored' = [stored EXCEPT ![Fresh] = Cut(n)]
  PROVE  /\ stored' \in [Pack -> Seq(Nat)] /\ Fresh \in Pack /\ stored[Fresh] = <<>>
         /\ stored'[Fresh] = Cut(n) /\ stored'[Fresh] # <<>>
         /\ \A p \in Pack : p # Fresh => stored'[p] = stored[p]
BY LogType, FreshType, CutType

LEMMA HostStays ==
  ASSUME TypeOK, [Next]_vars
  PROVE  HostOK' /\ Grown
<1>a. log \in Seq(Commit) /\ Len(log) \in Nat /\ DOMAIN log = 1..Len(log)
      /\ stored \in [Pack -> Seq(Nat)] /\ uploads \subseteq Pack
  BY LogType
<1>1. CASE UNCHANGED hostVars
  BY <1>a, <1>1 DEF hostVars, HostOK, Grown
<1>2. ASSUME NEW h \in Helper, NEW n \in Length, Stage(h, n) \/ StageFails(h, n)
      PROVE  HostOK' /\ Grown
  <2>1. /\ Unused # {} /\ stored' = [stored EXCEPT ![Fresh] = Cut(n)]
        /\ UNCHANGED <<log, uploads>>
    BY <1>2 DEF Stage, StageFails
  <2>2. /\ stored' \in [Pack -> Seq(Nat)]
        /\ \A p \in Pack : stored[p] # <<>> => stored'[p] = stored[p]
    BY <2>1, StageType
  <2> QED
    BY <1>a, <2>1, <2>2 DEF HostOK, Grown
<1>3. ASSUME NEW h \in Helper, UNCHANGED <<log, stored>>, uploads' \subseteq uploads \cup Staged(h)
      PROVE  HostOK' /\ Grown
  BY <1>a, <1>3, HelperType DEF HostOK, Grown
<1>4. ASSUME NEW h \in Helper, Upload(h) PROVE HostOK' /\ Grown
  BY <1>3, <1>4 DEF Upload
<1>5. ASSUME NEW h \in Helper, NEW landed \in BOOLEAN, UploadFails(h, landed)
      PROVE  HostOK' /\ Grown
  BY <1>3, <1>5 DEF UploadFails
<1>6. ASSUME NEW h \in Helper, NEW ok \in BOOLEAN, DeleteUpload(h, ok) PROVE HostOK' /\ Grown
  BY <1>3, <1>6 DEF DeleteUpload
<1>7. ASSUME NEW h \in Helper, NEW answer \in {"done", "moved", "failed"}, Land(h, answer)
      PROVE  HostOK' /\ Grown
  <2>1. PICK base \in {{}, Tree(h)} :
           /\ [tree |-> base \cup StagedBlobs(h), ours |-> TRUE] \in Commit
           /\ log' = Append(log, [tree |-> base \cup StagedBlobs(h), ours |-> TRUE])
    BY <1>7, LandType
  <2>2. UNCHANGED <<uploads, stored>>
    BY <1>7 DEF Land
  <2> QED
    BY <1>a, <2>1, <2>2, AppendType DEF HostOK, Grown
<1>8. ASSUME OthersStep PROVE HostOK' /\ Grown
  <2>1. PICK n \in OthersLength, base \in {{}, TreeAt(Len(log))} : Others(n, base)
    BY <1>8 DEF OthersStep
  <2>2. n \in Length /\ Cut(n) \in Seq(Nat)
    BY CutType, SizeAssumption
  <2>3. /\ Unused # {} /\ stored' = [stored EXCEPT ![Fresh] = Cut(n)] /\ UNCHANGED uploads
        /\ log' = Append(log, [tree |-> base \cup Blobs(Fresh, Cut(n)), ours |-> FALSE])
    BY <2>1 DEF Others
  <2>4. base \cup Blobs(Fresh, Cut(n)) \in SUBSET Blob
    BY <1>a, <2>2, <2>3, FreshType, BlobsType, TreeType
  <2>5. [tree |-> base \cup Blobs(Fresh, Cut(n)), ours |-> FALSE] \in Commit
    BY <2>4 DEF Commit
  <2>6. /\ stored' \in [Pack -> Seq(Nat)]
        /\ \A p \in Pack : stored[p] # <<>> => stored'[p] = stored[p]
    BY <2>2, <2>3, StageType
  <2>7. /\ log' \in Seq(Commit) /\ Len(log') \in Nat /\ Len(log) <= Len(log')
        /\ DOMAIN log \subseteq DOMAIN log' /\ \A v \in DOMAIN log : log'[v] = log[v]
    BY <1>a, <2>3, <2>5, AppendType
  <2> QED
    BY <1>a, <2>3, <2>6, <2>7 DEF HostOK, Grown
<1> QED
  BY <1>1, <1>2, <1>4, <1>5, <1>6, <1>7, <1>8, Frames DEF Frame, HostStep

\* Connecting and sealing.
LEMMA ConnectType ==
  ASSUME TypeOK, Connect
  PROVE  tracking' = Len(log) /\ tracking' \in Nat /\ tracking \in 0..tracking'
         /\ promised' \subseteq DOMAIN log /\ promised \subseteq promised'
<1>1. Len(log) \in Nat /\ DOMAIN log = 1..Len(log)
  BY LogType
<1>2. tracking \in 0..Len(log) /\ promised \subseteq DOMAIN log
  BY DEF TypeOK, GitOK
<1>3. Arrives \subseteq 1..Len(log)
  BY <1>1, <1>2 DEF Arrives
<1> QED
  BY <1>1, <1>2, <1>3 DEF Connect

LEMMA SealType ==
  ASSUME TypeOK, NEW to \in 0..Len(log), Seal(to)
  PROVE  promised' \subseteq DOMAIN log /\ promised \subseteq promised'
<1>1. Walked(to) \subseteq DOMAIN log
  BY LogType DEF Walked
<1> QED
  BY <1>1 DEF Seal, TypeOK, GitOK

-----------------------------------------------------------------------------
\* The repository's side, and the helpers'.

(* A helper that uploads or discards has a pack, one that is idle or       *)
(* fetches for itself has none; each pack is staged by one helper.         *)
StagedInv ==
  /\ \A h \in Helper :
       /\ proc[h].staged = Nothing =>
            proc[h].pc \notin {"upload", "discard", "drop stored", "delete upload"}
       /\ proc[h].staged # Nothing =>
            /\ proc[h].pc # "idle" /\ stored[proc[h].staged.pack] # <<>>
            /\ proc[h].pc \in {"lock", "ensure", "index", "drop loose", "drop fetched"} =>
                 proc[h].op = "repack"
  /\ \A g, h \in Helper : Staged(g) \cap Staged(h) # {} => g = h

\* What a helper that heard of its landing will record.
Landed ==
  \A h \in Helper : At(h, "landed") =>
    /\ proc[h].view + 1 \in DOMAIN log
    /\ log[proc[h].view + 1].tree \subseteq Tree(h) \cup StagedBlobs(h)

LEMMA RecordType ==
  ASSUME TypeOK, Landed, NEW h \in Helper, At(h, "landed")
  PROVE  /\ proc[h].view \in Nat /\ proc[h].view + 1 \in 0..Len(log)
         /\ proc[h].view + 1 \in DOMAIN log
<1>1. proc[h].view + 1 \in DOMAIN log /\ DOMAIN log = 1..Len(log) /\ Len(log) \in Nat
  BY LogType DEF Landed
<1>2. proc[h].view \in 0..Len(log)
  BY HelperType DEF State
<1> QED
  BY <1>1, <1>2

LEMMA RefsStay ==
  ASSUME TypeOK, Landed, [Next]_vars
  PROVE  /\ tracking' \in 0..Len(log') /\ promised' \subseteq DOMAIN log'
         /\ tracking <= tracking' /\ promised \subseteq promised'
<1>a. Len(log) \in Nat /\ Len(log') \in Nat /\ Len(log) <= Len(log')
      /\ DOMAIN log \subseteq DOMAIN log'
  BY LogType, HostStays DEF Grown
<1>b. tracking \in 0..Len(log) /\ promised \subseteq DOMAIN log
  BY DEF TypeOK, GitOK
<1> SUFFICES /\ tracking' \in 0..Len(log) /\ promised' \subseteq DOMAIN log
             /\ tracking <= tracking' /\ promised \subseteq promised'
  BY <1>a
<1>1. CASE UNCHANGED <<tracking, promised>>
  BY <1>b, <1>1
<1>2. CASE Connect
  BY <1>a, <1>2, ConnectType
<1>3. ASSUME NEW h \in Helper, NEW what \in {"fetch", "push", "repack"}, Begin(h, what)
      PROVE  Connect
  BY <1>3 DEF Begin
<1>4. ASSUME NEW h \in Helper, Retry(h) PROVE Connect
  BY <1>4 DEF Retry
<1>5. ASSUME NEW h \in Helper, SealLoose(h) \/ SealStored(h)
      PROVE  UNCHANGED tracking /\ (UNCHANGED promised \/ Seal(tracking))
  BY <1>5 DEF SealLoose, SealStored
<1>6. ASSUME NEW h \in Helper, Record(h) \/ RecordFails(h)
      PROVE  /\ tracking' \in 0..Len(log) /\ tracking <= tracking'
             /\ UNCHANGED promised \/ Seal(tracking')
  <2>1. /\ At(h, "landed")
        /\ tracking' \in {tracking,
              IF tracking = proc[h].view THEN proc[h].view + 1 ELSE tracking}
    BY <1>6 DEF Record, RecordFails
  <2>2. UNCHANGED promised \/ Seal(tracking')
    BY <1>6 DEF Record, RecordFails
  <2> QED
    BY <1>a, <1>b, <2>1, <2>2, RecordType
<1> QED
  BY <1>a, <1>b, <1>1, <1>2, <1>3, <1>4, <1>5, <1>6, SealType, Frames DEF Frame, RefStep

LEMMA CacheStays ==
  ASSUME TypeOK, [Next]_vars
  PROVE  loose' \subseteq Blob /\ packed' \subseteq Blob /\ fetched' \subseteq SUBSET Blob
<1>a. loose \subseteq Blob /\ packed \subseteq Blob /\ fetched \subseteq SUBSET Blob
  BY DEF TypeOK, GitOK
<1>1. CASE UNCHANGED cacheVars
  BY <1>a, <1>1 DEF cacheVars
<1>2. ASSUME NEW h \in Helper, EnsureBlobs(h)
      PROVE  loose' \subseteq Blob /\ packed' \subseteq Blob /\ fetched' \subseteq SUBSET Blob
  <2>1. Wanted(h) \subseteq Blob
    BY HelperType DEF Wanted, Find
  <2>2. fetched' = fetched \/ fetched' = fetched \cup {Wanted(h) \ Here}
    BY <1>2 DEF EnsureBlobs
  <2> QED
    BY <1>a, <1>2, <2>1, <2>2 DEF EnsureBlobs
<1>3. ASSUME NEW h \in Helper, DropLoose(h) \/ DropFetchedBlobs(h) \/ DropStored(h)
      PROVE  loose' \subseteq Blob /\ packed' \subseteq Blob /\ fetched' \subseteq SUBSET Blob
  BY <1>a, <1>3 DEF DropLoose, DropFetchedBlobs, DropStored
<1>4. ASSUME NEW h \in Helper, NEW n \in Length, Stage(h, n) \/ StageFails(h, n)
      PROVE  loose' \subseteq Blob /\ packed' \subseteq Blob /\ fetched' \subseteq SUBSET Blob
  <2>1. Unused # {} /\ Fresh \in Pack /\ Cut(n) \in Seq(Nat)
    BY <1>4, FreshType, CutType DEF Stage, StageFails
  <2>2. /\ Blobs(Fresh, Cut(n)) \subseteq Blob /\ BigBlobs(Fresh, Cut(n)) \subseteq Blob
        /\ \A i \in DOMAIN Cut(n) : PartNames(Fresh, Cut(n))[i] \in Blob
    BY <2>1, BlobsType
  <2>3. CASE Stage(h, n)
    BY <1>a, <2>2, <2>3 DEF Stage
  <2>4. CASE StageFails(h, n)
    <3>1. PICK k \in DOMAIN Cut(n) :
            LET kept == {PartNames(Fresh, Cut(n))[i] : i \in 1..(k - 1)} IN
            /\ loose' = loose \cup (kept \ BigBlobs(Fresh, Cut(n)))
            /\ packed' = packed \cup (kept \cap BigBlobs(Fresh, Cut(n)))
            /\ UNCHANGED fetched
      BY <2>4 DEF StageFails
    <3>2. 1..(k - 1) \subseteq DOMAIN Cut(n)
      BY <2>1
    <3> QED
      BY <1>a, <2>2, <3>1, <3>2
  <2> QED
    BY <1>4, <2>3, <2>4
<1> QED
  BY <1>1, <1>2, <1>3, <1>4, Frames DEF Frame, CacheStep

LEMMA ProcStays ==
  ASSUME TypeOK, StagedInv, [Next]_vars
  PROVE  proc' \in [Helper -> State(Len(log'))]
<1>a. Len(log) \in Nat /\ Len(log') \in Nat /\ Len(log) <= Len(log')
  BY LogType, HostStays DEF Grown
<1>1. ASSUME NEW h \in Helper, NEW what \in {"fetch", "push", "repack"}, Begin(h, what)
      PROVE  proc' \in [Helper -> State(Len(log'))]
  <2> DEFINE state == [Idle EXCEPT !.pc = IF what = "fetch" THEN "lock" ELSE "attempt",
                                   !.op = what, !.view = Len(log), !.attempt = 1]
  <2>1. Idle \in State(Len(log')) /\ 1 \in 0..PushAttempts /\ Len(log) \in 0..Len(log')
    BY <1>a, IdleType, BoundAssumption
  <2>2. state \in State(Len(log'))
    BY <2>1 DEF Idle, State, Pcs
  <2> HIDE DEF state
  <2>3. proc' = [proc EXCEPT ![h] = state]
    BY <1>1 DEF Begin, state
  <2> QED
    BY <1>a, <2>2, <2>3, ProcType
<1>2. ASSUME NEW h \in Helper, LockFetch(h) PROVE proc' \in [Helper -> State(Len(log'))]
  <2> DEFINE state == [proc[h] EXCEPT !.pc = "ensure", !.todo = PacksIn(Tree(h)) \ have]
  <2>1. proc[h] \in State(Len(log'))
    BY <1>a, HelperType, StateGrows
  <2>2. state \in State(Len(log'))
    BY <2>1, HelperType DEF State, Pcs
  <2> HIDE DEF state
  <2>3. proc' = [proc EXCEPT ![h] = state]
    BY <1>2 DEF LockFetch, state
  <2> QED
    BY <1>a, <2>2, <2>3, ProcType
<1>3. ASSUME NEW h \in Helper, EnsureBlobs(h) PROVE proc' \in [Helper -> State(Len(log'))]
  BY <1>3, <1>a, GotoType DEF EnsureBlobs, Pcs
<1>4. ASSUME NEW h \in Helper, FetchFails(h) PROVE proc' \in [Helper -> State(Len(log'))]
  BY <1>4, <1>a, GotoType DEF FetchFails, Pcs
<1>5. ASSUME NEW h \in Helper, NEW p \in Pack, IndexPack(h, p)
      PROVE  proc' \in [Helper -> State(Len(log'))]
  <2> DEFINE state == [proc[h] EXCEPT !.todo = @ \ {p}]
  <2>1. proc[h] \in State(Len(log'))
    BY <1>a, HelperType, StateGrows
  <2>2. state \in State(Len(log'))
    BY <2>1 DEF State
  <2> HIDE DEF state
  <2>3. proc' = [proc EXCEPT ![h] = state]
    BY <1>5 DEF IndexPack, state
  <2> QED
    BY <1>a, <2>2, <2>3, ProcType
<1>6. ASSUME NEW h \in Helper, SealLoose(h) PROVE proc' \in [Helper -> State(Len(log'))]
  BY <1>6, <1>a, GotoType DEF SealLoose, Pcs
<1>7. ASSUME NEW h \in Helper, DropLoose(h) PROVE proc' \in [Helper -> State(Len(log'))]
  BY <1>7, <1>a, GotoType DEF DropLoose, Pcs
<1>8. ASSUME NEW h \in Helper, DropFetchedBlobs(h)
      PROVE  proc' \in [Helper -> State(Len(log'))]
  BY <1>8, <1>a, GotoType DEF DropFetchedBlobs, Pcs
<1>9. ASSUME NEW h \in Helper, Attempt(h) PROVE proc' \in [Helper -> State(Len(log'))]
  BY <1>9, <1>a, GotoType, DiscardType DEF Attempt, Pcs
<1>10. ASSUME NEW h \in Helper, GiveUp(h) PROVE proc' \in [Helper -> State(Len(log'))]
  BY <1>10, <1>a, DiscardType DEF GiveUp
<1>11. ASSUME NEW h \in Helper, BuildFails(h) PROVE proc' \in [Helper -> State(Len(log'))]
  BY <1>11, <1>a, GotoType DEF BuildFails, Pcs
<1>12. ASSUME NEW h \in Helper, Reuse(h) PROVE proc' \in [Helper -> State(Len(log'))]
  BY <1>12, <1>a, GotoType DEF Reuse, Pcs
<1>13. ASSUME NEW h \in Helper, Rebuild(h) PROVE proc' \in [Helper -> State(Len(log'))]
  BY <1>13, <1>a, DiscardType DEF Rebuild
<1>14. ASSUME NEW h \in Helper, BuildNothing(h) PROVE proc' \in [Helper -> State(Len(log'))]
  BY <1>14, <1>a, GotoType DEF BuildNothing, Pcs
<1>15. ASSUME NEW h \in Helper, NEW n \in Length, Stage(h, n)
      PROVE  proc' \in [Helper -> State(Len(log'))]
  <2> DEFINE state == [proc[h] EXCEPT !.pc = IF Batches(Cut(n)) = <<>> THEN "push" ELSE "upload",
                                      !.staged = [pack |-> Fresh, bases |-> PacksIn(Tree(h)),
                                                  sent |-> 0]]
  <2>1. proc[h] \in State(Len(log'))
    BY <1>a, HelperType, StateGrows
  <2>2. state \in State(Len(log'))
    <3>1. [pack |-> Fresh, bases |-> PacksIn(Tree(h)), sent |-> 0] \in StagedPack
      BY <1>15, FreshType, HelperType DEF Stage, StagedPack
    <3> QED
      BY <2>1, <3>1 DEF State, Pcs
  <2> HIDE DEF state
  <2>3. proc' = [proc EXCEPT ![h] = state]
    BY <1>15 DEF Stage, state
  <2> QED
    BY <1>a, <2>2, <2>3, ProcType
<1>16. ASSUME NEW h \in Helper, NEW n \in Length, StageFails(h, n)
      PROVE  proc' \in [Helper -> State(Len(log'))]
  BY <1>16, <1>a, GotoType DEF StageFails, Pcs
<1>17. ASSUME NEW h \in Helper, Upload(h) PROVE proc' \in [Helper -> State(Len(log'))]
  <2> DEFINE state == [proc[h] EXCEPT !.staged.sent = @ + 1,
                    !.pc = IF proc[h].staged.sent + 1 = Len(Batches(stored[proc[h].staged.pack]))
                           THEN "push" ELSE "upload"]
  <2>1. proc[h] \in State(Len(log'))
    BY <1>a, HelperType, StateGrows
  <2>2. state \in State(Len(log'))
    <3>1. proc[h].staged \in StagedPack
      BY <2>1, <1>17 DEF Upload, At, StagedInv, State
    <3>2. [proc[h].staged EXCEPT !.sent = @ + 1] \in StagedPack
      BY <3>1 DEF StagedPack
    <3>3. state.pc \in Pcs /\ state = [proc[h] EXCEPT
             !.staged = [proc[h].staged EXCEPT !.sent = @ + 1], !.pc = state.pc]
      BY <2>1 DEF State, Pcs
    <3> QED
      BY <2>1, <3>2, <3>3 DEF State
  <2> HIDE DEF state
  <2>3. proc' = [proc EXCEPT ![h] = state]
    BY <1>17 DEF Upload, state
  <2> QED
    BY <1>a, <2>2, <2>3, ProcType
<1>18. ASSUME NEW h \in Helper, NEW landed \in BOOLEAN, UploadFails(h, landed)
      PROVE  proc' \in [Helper -> State(Len(log'))]
  BY <1>18, <1>a, DiscardType DEF UploadFails
<1>19. ASSUME NEW h \in Helper, NEW answer \in {"done", "moved", "failed"}, Land(h, answer)
      PROVE  proc' \in [Helper -> State(Len(log'))]
  BY <1>19, <1>a, GotoType, DiscardType DEF Land, Pcs
<1>20. ASSUME NEW h \in Helper, LoseRace(h) PROVE proc' \in [Helper -> State(Len(log'))]
  BY <1>20, <1>a, GotoType DEF LoseRace, Pcs
<1>21. ASSUME NEW h \in Helper, PushFails(h) PROVE proc' \in [Helper -> State(Len(log'))]
  BY <1>21, <1>a, DiscardType DEF PushFails
<1>22. ASSUME NEW h \in Helper, Retry(h) PROVE proc' \in [Helper -> State(Len(log'))]
  <2> DEFINE seen == [proc[h] EXCEPT !.view = Len(log)]
             state == IF seen.attempt < PushAttempts
                      THEN [seen EXCEPT !.attempt = @ + 1, !.pc = "attempt"]
                      ELSE Discarding(seen, "idle")
  <2>1. proc[h] \in State(Len(log')) /\ Len(log) \in 0..Len(log')
    BY <1>a, HelperType, StateGrows
  <2>2. seen \in State(Len(log'))
    BY <2>1 DEF State
  <2>3. Discarding(seen, "idle") \in State(Len(log'))
    BY <1>a, <2>2, MovedType DEF Pcs
  <2>4. seen.attempt < PushAttempts => seen.attempt + 1 \in 0..PushAttempts
    BY <2>2, BoundAssumption DEF State
  <2> HIDE DEF seen
  <2>5. state \in State(Len(log'))
    <3>1. CASE seen.attempt < PushAttempts
      BY <2>2, <2>4, <3>1 DEF State, Pcs
    <3>2. CASE ~(seen.attempt < PushAttempts)
      BY <2>3, <3>2
    <3> QED
      BY <3>1, <3>2
  <2> HIDE DEF state
  <2>6. proc' = [proc EXCEPT ![h] = state]
    BY <1>22 DEF Retry, state, seen
  <2> QED
    BY <1>a, <2>5, <2>6, ProcType
<1>23. ASSUME NEW h \in Helper, Record(h) PROVE proc' \in [Helper -> State(Len(log'))]
  BY <1>23, <1>a, DiscardType DEF Record
<1>24. ASSUME NEW h \in Helper, RecordFails(h) PROVE proc' \in [Helper -> State(Len(log'))]
  BY <1>24, <1>a, DiscardType DEF RecordFails
<1>25. ASSUME NEW h \in Helper, RecordUnlocked(h)
      PROVE  proc' \in [Helper -> State(Len(log'))]
  BY <1>25, <1>a, GotoType DEF RecordUnlocked, Pcs
<1>26. ASSUME NEW h \in Helper, SealStored(h) PROVE proc' \in [Helper -> State(Len(log'))]
  BY <1>26, <1>a, GotoType DEF SealStored, Pcs
<1>27. ASSUME NEW h \in Helper, KeepStored(h) PROVE proc' \in [Helper -> State(Len(log'))]
  BY <1>27, <1>a, GotoType DEF KeepStored, Pcs
<1>28. ASSUME NEW h \in Helper, DropStored(h) PROVE proc' \in [Helper -> State(Len(log'))]
  BY <1>28, <1>a, GotoType DEF DropStored, Pcs
<1>29. ASSUME NEW h \in Helper, NEW ok \in BOOLEAN, DeleteUpload(h, ok)
      PROVE  proc' \in [Helper -> State(Len(log'))]
  <2> DEFINE done == [proc[h] EXCEPT !.staged = Nothing, !.after = "idle"]
  <2>1. proc[h] \in State(Len(log'))
    BY <1>a, HelperType, StateGrows
  <2>2. done \in State(Len(log')) /\ proc[h].after \in Pcs
    BY <2>1 DEF State, Pcs
  <2> HIDE DEF done
  <2>3. Moved(done, proc[h].after) \in State(Len(log'))
    BY <1>a, <2>2, MovedType
  <2>4. proc' = [proc EXCEPT ![h] = Moved(done, proc[h].after)]
    BY <1>29 DEF DeleteUpload, done
  <2> QED
    BY <1>a, <2>3, <2>4, ProcType
<1>30. ASSUME NEW h \in Helper, Crash(h) PROVE proc' \in [Helper -> State(Len(log'))]
  BY <1>30, <1>a, GotoType DEF Crash, Pcs
<1>31. ASSUME NEW n \in OthersLength, NEW base \in {{}, TreeAt(Len(log))}, Others(n, base)
      PROVE  proc' \in [Helper -> State(Len(log'))]
  <2>1. State(Len(log)) \subseteq State(Len(log'))
    BY <1>a, StateGrows
  <2>2. UNCHANGED proc
    BY <1>31 DEF Others
  <2> QED
    BY <2>1, <2>2, HelperType DEF TypeOK
<1>32. ASSUME UNCHANGED vars PROVE proc' \in [Helper -> State(Len(log'))]
  BY <1>32 DEF vars, TypeOK, hostVars
<1> QED
  BY <1>1, <1>2, <1>3, <1>4, <1>5, <1>6, <1>7, <1>8, <1>9, <1>10, <1>11, <1>12, <1>13,
       <1>14, <1>15, <1>16, <1>17, <1>18, <1>19, <1>20, <1>21, <1>22, <1>23, <1>24, <1>25,
       <1>26, <1>27, <1>28, <1>29, <1>30, <1>31, <1>32 DEF Next, Helps

LEMMA FaultType ==
  ASSUME TypeOK, NEW S \in SUBSET Pack, NEW to,
         Fine \/ UNCHANGED faultVars \/ Fault(S) \/ SealFails(to, S)
  PROVE  faults' \in 0..MaxFaults /\ spoiled' \subseteq Pack
BY BoundAssumption DEF TypeOK, Fine, Fault, SealFails, faultVars

LEMMA RestStays ==
  ASSUME TypeOK, [Next]_vars
  PROVE  /\ have' \subseteq Pack /\ lock' \in Helper \cup {Nobody}
         /\ faults' \in 0..MaxFaults /\ spoiled' \subseteq Pack
<1> DEFINE Rest == /\ have' \subseteq Pack /\ lock' \in Helper \cup {Nobody}
                   /\ faults' \in 0..MaxFaults /\ spoiled' \subseteq Pack
<1>a. have \subseteq Pack /\ lock \in Helper \cup {Nobody} /\ {} \in SUBSET Pack
  BY DEF TypeOK
<1>b. PacksIn(UNION fetched) \subseteq Pack /\ PacksIn(loose) \subseteq Pack
  BY DEF PacksIn, TypeOK, GitOK, Blob
<1> SUFFICES Rest
  OBVIOUS
<1>1. ASSUME NEW h \in Helper, NEW what \in {"fetch", "push", "repack"}, Begin(h, what)
      PROVE  Rest
  <2>1. UNCHANGED faultVars
    BY <1>1 DEF Begin
  <2>2. have' \subseteq Pack /\ lock' \in Helper \cup {Nobody}
    BY <1>1, <1>a, HelperType DEF Begin, hostVars, cacheVars
  <2> QED
    BY <1>a, <2>1, <2>2, FaultType
<1>2. ASSUME NEW h \in Helper, LockFetch(h) PROVE Rest
  <2>1. UNCHANGED faultVars
    BY <1>2 DEF LockFetch
  <2>2. have' \subseteq Pack /\ lock' \in Helper \cup {Nobody}
    BY <1>2, <1>a, HelperType DEF LockFetch, hostVars, cacheVars
  <2> QED
    BY <1>a, <2>1, <2>2, FaultType
<1>3. ASSUME NEW h \in Helper, EnsureBlobs(h) PROVE Rest
  <2>1. UNCHANGED faultVars
    BY <1>3 DEF EnsureBlobs
  <2>2. have' \subseteq Pack /\ lock' \in Helper \cup {Nobody}
    BY <1>3, <1>a, HelperType DEF EnsureBlobs, hostVars
  <2> QED
    BY <1>a, <2>1, <2>2, FaultType
<1>4. ASSUME NEW h \in Helper, FetchFails(h) PROVE Rest
  <2> DEFINE S == Staged(h) \cup (IF At(h, "index") THEN PacksIn(Tree(h)) ELSE {})
  <2>1. S \in SUBSET Pack
    BY HelperType
  <2>2. Fine \/ Fault(S) \/ SealFails(tracking, S) \/ SealFails(tracking', S)
    BY <1>4 DEF FetchFails
  <2> HIDE DEF S
  <2>3. have' \subseteq Pack /\ lock' \in Helper \cup {Nobody}
    BY <1>4, <1>a, HelperType DEF FetchFails, hostVars, cacheVars
  <2> QED
    BY <2>1, <2>2, <2>3, FaultType
<1>5. ASSUME NEW h \in Helper, NEW p \in Pack, IndexPack(h, p) PROVE Rest
  <2>1. UNCHANGED faultVars
    BY <1>5 DEF IndexPack
  <2>2. have' \subseteq Pack /\ lock' \in Helper \cup {Nobody}
    BY <1>5, <1>a, HelperType DEF IndexPack, hostVars, cacheVars
  <2> QED
    BY <1>a, <2>1, <2>2, FaultType
<1>6. ASSUME NEW h \in Helper, SealLoose(h) PROVE Rest
  <2> DEFINE S == PacksIn(loose \cap Tree(h))
  <2>1. S \in SUBSET Pack
    BY <1>b DEF PacksIn
  <2>2. Fine \/ Fault(S) \/ SealFails(tracking, S) \/ SealFails(tracking', S)
    BY <1>6 DEF SealLoose
  <2> HIDE DEF S
  <2>3. have' \subseteq Pack /\ lock' \in Helper \cup {Nobody}
    BY <1>6, <1>a, HelperType DEF SealLoose, hostVars, cacheVars
  <2> QED
    BY <2>1, <2>2, <2>3, FaultType
<1>7. ASSUME NEW h \in Helper, DropLoose(h) PROVE Rest
  <2>1. UNCHANGED faultVars
    BY <1>7 DEF DropLoose
  <2>2. have' \subseteq Pack /\ lock' \in Helper \cup {Nobody}
    BY <1>7, <1>a, HelperType DEF DropLoose, hostVars
  <2> QED
    BY <1>a, <2>1, <2>2, FaultType
<1>8. ASSUME NEW h \in Helper, DropFetchedBlobs(h) PROVE Rest
  <2> DEFINE S == PacksIn(UNION fetched)
  <2>1. S \in SUBSET Pack
    BY <1>b
  <2>2. Fine \/ Fault(S) \/ SealFails(tracking, S) \/ SealFails(tracking', S)
    BY <1>8 DEF DropFetchedBlobs
  <2> HIDE DEF S
  <2>3. have' \subseteq Pack /\ lock' \in Helper \cup {Nobody}
    BY <1>8, <1>a, HelperType DEF DropFetchedBlobs, hostVars
  <2> QED
    BY <2>1, <2>2, <2>3, FaultType
<1>9. ASSUME NEW h \in Helper, Attempt(h) PROVE Rest
  <2>1. UNCHANGED faultVars
    BY <1>9 DEF Attempt
  <2>2. have' \subseteq Pack /\ lock' \in Helper \cup {Nobody}
    BY <1>9, <1>a, HelperType DEF Attempt, hostVars, cacheVars
  <2> QED
    BY <1>a, <2>1, <2>2, FaultType
<1>10. ASSUME NEW h \in Helper, GiveUp(h) PROVE Rest
  <2>1. UNCHANGED faultVars
    BY <1>10 DEF GiveUp
  <2>2. have' \subseteq Pack /\ lock' \in Helper \cup {Nobody}
    BY <1>10, <1>a, HelperType DEF GiveUp, hostVars, sharedVars, cacheVars
  <2> QED
    BY <1>a, <2>1, <2>2, FaultType
<1>11. ASSUME NEW h \in Helper, BuildFails(h) PROVE Rest
  <2> DEFINE S == Staged(h)
  <2>1. S \in SUBSET Pack
    BY HelperType
  <2>2. Fine \/ Fault(S) \/ SealFails(tracking, S) \/ SealFails(tracking', S)
    BY <1>11 DEF BuildFails
  <2> HIDE DEF S
  <2>3. have' \subseteq Pack /\ lock' \in Helper \cup {Nobody}
    BY <1>11, <1>a, HelperType DEF BuildFails, hostVars, sharedVars, cacheVars
  <2> QED
    BY <2>1, <2>2, <2>3, FaultType
<1>12. ASSUME NEW h \in Helper, Reuse(h) PROVE Rest
  <2>1. UNCHANGED faultVars
    BY <1>12 DEF Reuse
  <2>2. have' \subseteq Pack /\ lock' \in Helper \cup {Nobody}
    BY <1>12, <1>a, HelperType DEF Reuse, hostVars, sharedVars, cacheVars
  <2> QED
    BY <1>a, <2>1, <2>2, FaultType
<1>13. ASSUME NEW h \in Helper, Rebuild(h) PROVE Rest
  <2>1. UNCHANGED faultVars
    BY <1>13 DEF Rebuild
  <2>2. have' \subseteq Pack /\ lock' \in Helper \cup {Nobody}
    BY <1>13, <1>a, HelperType DEF Rebuild, hostVars, sharedVars, cacheVars
  <2> QED
    BY <1>a, <2>1, <2>2, FaultType
<1>14. ASSUME NEW h \in Helper, BuildNothing(h) PROVE Rest
  <2>1. UNCHANGED faultVars
    BY <1>14 DEF BuildNothing
  <2>2. have' \subseteq Pack /\ lock' \in Helper \cup {Nobody}
    BY <1>14, <1>a, HelperType DEF BuildNothing, hostVars, sharedVars, cacheVars
  <2> QED
    BY <1>a, <2>1, <2>2, FaultType
<1>15. ASSUME NEW h \in Helper, NEW n \in Length, Stage(h, n) PROVE Rest
  <2>1. UNCHANGED faultVars
    BY <1>15 DEF Stage
  <2>2. have' \subseteq Pack /\ lock' \in Helper \cup {Nobody}
    BY <1>15, <1>a, HelperType DEF Stage
  <2> QED
    BY <1>a, <2>1, <2>2, FaultType
<1>16. ASSUME NEW h \in Helper, NEW n \in Length, StageFails(h, n) PROVE Rest
  <2> DEFINE S == {Fresh}
  <2>1. S \in SUBSET Pack
    BY <1>16, FreshType DEF StageFails
  <2>2. Fine \/ Fault(S) \/ SealFails(tracking, S) \/ SealFails(tracking', S)
    BY <1>16 DEF StageFails
  <2> HIDE DEF S
  <2>3. have' \subseteq Pack /\ lock' \in Helper \cup {Nobody}
    BY <1>16, <1>a, HelperType DEF StageFails
  <2> QED
    BY <2>1, <2>2, <2>3, FaultType
<1>17. ASSUME NEW h \in Helper, Upload(h) PROVE Rest
  <2>1. UNCHANGED faultVars
    BY <1>17 DEF Upload
  <2>2. have' \subseteq Pack /\ lock' \in Helper \cup {Nobody}
    BY <1>17, <1>a, HelperType DEF Upload, sharedVars, cacheVars
  <2> QED
    BY <1>a, <2>1, <2>2, FaultType
<1>18. ASSUME NEW h \in Helper, NEW landed \in BOOLEAN, UploadFails(h, landed) PROVE Rest
  <2> DEFINE S == IF landed /\ proc[h].staged.sent = 0 THEN Staged(h) ELSE {}
  <2>1. S \in SUBSET Pack
    BY HelperType
  <2>2. Fine \/ Fault(S) \/ SealFails(tracking, S) \/ SealFails(tracking', S)
    BY <1>18 DEF UploadFails
  <2> HIDE DEF S
  <2>3. have' \subseteq Pack /\ lock' \in Helper \cup {Nobody}
    BY <1>18, <1>a, HelperType DEF UploadFails, sharedVars, cacheVars
  <2> QED
    BY <2>1, <2>2, <2>3, FaultType
<1>19. ASSUME NEW h \in Helper, NEW answer \in {"done", "moved", "failed"}, Land(h, answer)
      PROVE  Rest
  <2> DEFINE S == {}
  <2>1. S \in SUBSET Pack
    BY HelperType
  <2>2. Fine \/ Fault(S) \/ SealFails(tracking, S) \/ SealFails(tracking', S)
    BY <1>19 DEF Land
  <2> HIDE DEF S
  <2>3. have' \subseteq Pack /\ lock' \in Helper \cup {Nobody}
    BY <1>19, <1>a, HelperType DEF Land, sharedVars, cacheVars
  <2> QED
    BY <2>1, <2>2, <2>3, FaultType
<1>20. ASSUME NEW h \in Helper, LoseRace(h) PROVE Rest
  <2>1. UNCHANGED faultVars
    BY <1>20 DEF LoseRace
  <2>2. have' \subseteq Pack /\ lock' \in Helper \cup {Nobody}
    BY <1>20, <1>a, HelperType DEF LoseRace, hostVars, sharedVars, cacheVars
  <2> QED
    BY <1>a, <2>1, <2>2, FaultType
<1>21. ASSUME NEW h \in Helper, PushFails(h) PROVE Rest
  <2> DEFINE S == {}
  <2>1. S \in SUBSET Pack
    BY HelperType
  <2>2. Fine \/ Fault(S) \/ SealFails(tracking, S) \/ SealFails(tracking', S)
    BY <1>21 DEF PushFails
  <2> HIDE DEF S
  <2>3. have' \subseteq Pack /\ lock' \in Helper \cup {Nobody}
    BY <1>21, <1>a, HelperType DEF PushFails, hostVars, sharedVars, cacheVars
  <2> QED
    BY <2>1, <2>2, <2>3, FaultType
<1>22. ASSUME NEW h \in Helper, Retry(h) PROVE Rest
  <2>1. UNCHANGED faultVars
    BY <1>22 DEF Retry
  <2>2. have' \subseteq Pack /\ lock' \in Helper \cup {Nobody}
    BY <1>22, <1>a, HelperType DEF Retry, hostVars, cacheVars
  <2> QED
    BY <1>a, <2>1, <2>2, FaultType
<1>23. ASSUME NEW h \in Helper, Record(h) PROVE Rest
  <2> DEFINE S == {}
  <2>1. S \in SUBSET Pack
    BY HelperType
  <2>2. Fine \/ Fault(S) \/ SealFails(tracking, S) \/ SealFails(tracking', S)
    BY <1>23 DEF Record
  <2> HIDE DEF S
  <2>3. have' \subseteq Pack /\ lock' \in Helper \cup {Nobody}
    BY <1>23, <1>a, HelperType DEF Record, hostVars, cacheVars
  <2> QED
    BY <2>1, <2>2, <2>3, FaultType
<1>24. ASSUME NEW h \in Helper, RecordFails(h) PROVE Rest
  <2> DEFINE S == {}
  <2>1. S \in SUBSET Pack
    BY HelperType
  <2>2. Fine \/ Fault(S) \/ SealFails(tracking, S) \/ SealFails(tracking', S)
    BY <1>24 DEF RecordFails
  <2> HIDE DEF S
  <2>3. have' \subseteq Pack /\ lock' \in Helper \cup {Nobody}
    BY <1>24, <1>a, HelperType DEF RecordFails, hostVars, cacheVars
  <2> QED
    BY <2>1, <2>2, <2>3, FaultType
<1>25. ASSUME NEW h \in Helper, RecordUnlocked(h) PROVE Rest
  <2> DEFINE S == Staged(h)
  <2>1. S \in SUBSET Pack
    BY HelperType
  <2>2. Fine \/ Fault(S) \/ SealFails(tracking, S) \/ SealFails(tracking', S)
    BY <1>25 DEF RecordUnlocked
  <2> HIDE DEF S
  <2>3. have' \subseteq Pack /\ lock' \in Helper \cup {Nobody}
    BY <1>25, <1>a, HelperType DEF RecordUnlocked, hostVars, cacheVars
  <2> QED
    BY <2>1, <2>2, <2>3, FaultType
<1>26. ASSUME NEW h \in Helper, SealStored(h) PROVE Rest
  <2>1. UNCHANGED faultVars
    BY <1>26 DEF SealStored
  <2>2. have' \subseteq Pack /\ lock' \in Helper \cup {Nobody}
    BY <1>26, <1>a, HelperType DEF SealStored, hostVars, cacheVars
  <2> QED
    BY <1>a, <2>1, <2>2, FaultType
<1>27. ASSUME NEW h \in Helper, KeepStored(h) PROVE Rest
  <2> DEFINE S == Staged(h)
  <2>1. S \in SUBSET Pack
    BY HelperType
  <2>2. Fine \/ Fault(S) \/ SealFails(tracking, S) \/ SealFails(tracking', S)
    BY <1>27 DEF KeepStored
  <2> HIDE DEF S
  <2>3. have' \subseteq Pack /\ lock' \in Helper \cup {Nobody}
    BY <1>27, <1>a, HelperType DEF KeepStored, hostVars, sharedVars, cacheVars
  <2> QED
    BY <2>1, <2>2, <2>3, FaultType
<1>28. ASSUME NEW h \in Helper, DropStored(h) PROVE Rest
  <2> DEFINE S == Staged(h)
  <2>1. S \in SUBSET Pack
    BY HelperType
  <2>2. Fine \/ Fault(S) \/ SealFails(tracking, S) \/ SealFails(tracking', S)
    BY <1>28 DEF DropStored
  <2> HIDE DEF S
  <2>3. have' \subseteq Pack /\ lock' \in Helper \cup {Nobody}
    BY <1>28, <1>a, HelperType DEF DropStored, hostVars
  <2> QED
    BY <2>1, <2>2, <2>3, FaultType
<1>29. ASSUME NEW h \in Helper, NEW ok \in BOOLEAN, DeleteUpload(h, ok) PROVE Rest
  <2> DEFINE S == Staged(h)
  <2>1. S \in SUBSET Pack
    BY HelperType
  <2>2. Fine \/ Fault(S) \/ SealFails(tracking, S) \/ SealFails(tracking', S)
    BY <1>29 DEF DeleteUpload
  <2> HIDE DEF S
  <2>3. have' \subseteq Pack /\ lock' \in Helper \cup {Nobody}
    BY <1>29, <1>a, HelperType DEF DeleteUpload, sharedVars, cacheVars
  <2> QED
    BY <2>1, <2>2, <2>3, FaultType
<1>30. ASSUME NEW h \in Helper, Crash(h) PROVE Rest
  <2> DEFINE S == Staged(h) \cup (IF lock = h THEN PacksIn(Tree(h)) ELSE {})
  <2>1. S \in SUBSET Pack
    BY HelperType
  <2>2. Fine \/ Fault(S) \/ SealFails(tracking, S) \/ SealFails(tracking', S)
    BY <1>30 DEF Crash
  <2> HIDE DEF S
  <2>3. have' \subseteq Pack /\ lock' \in Helper \cup {Nobody}
    BY <1>30, <1>a, HelperType DEF Crash, hostVars, cacheVars
  <2> QED
    BY <2>1, <2>2, <2>3, FaultType
<1>31. ASSUME NEW n \in OthersLength, NEW base \in {{}, TreeAt(Len(log))}, Others(n, base)
      PROVE  Rest
  <2>1. UNCHANGED faultVars
    BY <1>31 DEF Others
  <2>2. have' \subseteq Pack /\ lock' \in Helper \cup {Nobody}
    BY <1>31, <1>a, HelperType DEF Others, sharedVars, cacheVars
  <2> QED
    BY <1>a, <2>1, <2>2, FaultType
<1>32. ASSUME UNCHANGED vars PROVE Rest
  BY <1>32, <1>a DEF vars, sharedVars, faultVars, TypeOK
<1> QED
  BY <1>1, <1>2, <1>3, <1>4, <1>5, <1>6, <1>7, <1>8, <1>9, <1>10, <1>11, <1>12, <1>13,
       <1>14, <1>15, <1>16, <1>17, <1>18, <1>19, <1>20, <1>21, <1>22, <1>23, <1>24, <1>25,
       <1>26, <1>27, <1>28, <1>29, <1>30, <1>31, <1>32 DEF Next, Helps

LEMMA TypeStays ==
  ASSUME TypeOK, StagedInv, Landed, [Next]_vars
  PROVE  TypeOK'
BY HostStays, RefsStay, CacheStays, ProcStays, RestStays DEF TypeOK, GitOK

-----------------------------------------------------------------------------
\* What a helper holds.

\* A step after which h is in `state` and holds the same pack as before, or none.
LEMMA HoldsOn ==
  ASSUME TypeOK, StagedInv, [Next]_vars, NEW h \in Helper, NEW state,
         proc' = [proc EXCEPT ![h] = state],
         state.staged = Nothing =>
           state.pc \notin {"upload", "discard", "drop stored", "delete upload"},
         state.staged # Nothing =>
           /\ proc[h].staged # Nothing /\ state.staged.pack = proc[h].staged.pack
           /\ state.pc # "idle"
           /\ state.pc \in {"lock", "ensure", "index", "drop loose", "drop fetched"} =>
                state.op = "repack"
  PROVE  StagedInv'
<1>1. \A p \in Pack : stored[p] # <<>> => stored'[p] = stored[p]
  BY HostStays DEF Grown
<1>2. \A g \in Helper : proc[g].staged # Nothing => proc[g].staged.pack \in Pack
  BY HelperType DEF Staged
<1>3. proc'[h] = state /\ \A g \in Helper \ {h} : proc'[g] = proc[g]
  BY HelperType
<1>4. \A g \in Helper : Staged(g)' \subseteq Staged(g)
  BY <1>3 DEF Staged
<1>5. \A g \in Helper : proc'[g].staged # Nothing => stored'[proc'[g].staged.pack] # <<>>
  <2>1. \A g \in Helper : proc[g].staged # Nothing => stored[proc[g].staged.pack] # <<>>
    BY DEF StagedInv
  <2>2. \A g \in Helper : proc[g].staged # Nothing => stored'[proc[g].staged.pack] # <<>>
    BY <1>1, <1>2, <2>1
  <2>3. state.staged # Nothing => stored'[state.staged.pack] # <<>>
    BY <2>2
  <2> QED
    BY <1>3, <2>2, <2>3
<1>6. \A f, g \in Helper : Staged(f)' \cap Staged(g)' # {} => f = g
  <2>1. \A f, g \in Helper : Staged(f)' \cap Staged(g)' # {} => Staged(f) \cap Staged(g) # {}
    BY <1>4
  <2> QED
    BY <2>1 DEF StagedInv
<1>7. \A g \in Helper \ {h} :
        /\ proc'[g].staged = Nothing =>
             proc'[g].pc \notin {"upload", "discard", "drop stored", "delete upload"}
        /\ proc'[g].staged # Nothing =>
             /\ proc'[g].pc # "idle"
             /\ proc'[g].pc \in {"lock", "ensure", "index", "drop loose", "drop fetched"} =>
                  proc'[g].op = "repack"
  BY <1>3 DEF StagedInv
<1> QED
  BY <1>3, <1>5, <1>6, <1>7 DEF StagedInv

LEMMA GotoHolds ==
  ASSUME TypeOK, StagedInv, [Next]_vars, NEW h \in Helper, NEW to \in Pcs, Goto(h, to),
         proc[h].staged = Nothing =>
           to \notin {"upload", "discard", "drop stored", "delete upload"},
         to \in {"lock", "ensure", "index", "drop loose", "drop fetched"} =>
           proc[h].op = "repack" \/ proc[h].staged = Nothing
  PROVE  StagedInv'
<1>1. proc[h] \in State(Len(log))
  BY HelperType
<1> DEFINE state == Moved(proc[h], to)
<1>2. state.staged = Nothing \/ state.staged = proc[h].staged
  BY <1>1 DEF Moved, Idle, State
<1>3. /\ state.pc = to /\ (to = "idle" => state.staged = Nothing)
      /\ to # "idle" => state.op = proc[h].op /\ state.staged = proc[h].staged
  BY <1>1 DEF Moved, Idle, State
<1>4. proc' = [proc EXCEPT ![h] = state]
  BY DEF Goto
<1> HIDE DEF state
<1> QED
  BY <1>2, <1>3, <1>4, HoldsOn

LEMMA DiscardHolds ==
  ASSUME TypeOK, StagedInv, [Next]_vars, NEW h \in Helper,
         NEW to \in {"idle", "attempt", "build"}, DiscardThen(h, to)
  PROVE  StagedInv'
<1>1. CASE proc[h].staged = Nothing
  <2>1. Goto(h, to)
    BY <1>1 DEF DiscardThen, Discarding, Goto
  <2> QED
    BY <1>1, <2>1, GotoHolds DEF Pcs
<1>2. CASE proc[h].staged # Nothing
  <2> DEFINE state == [proc[h] EXCEPT !.pc = "discard", !.after = to]
  <2>1. state.pc = "discard" /\ state.staged = proc[h].staged
    BY HelperType DEF State
  <2>2. proc' = [proc EXCEPT ![h] = state]
    BY <1>2 DEF DiscardThen, Discarding
  <2> HIDE DEF state
  <2> QED
    BY <1>2, <2>1, <2>2, HoldsOn
<1> QED
  BY <1>1, <1>2

LEMMA StagedStays ==
  ASSUME TypeOK, StagedInv, [Next]_vars
  PROVE  StagedInv'
<1>a. \A h \in Helper :
        /\ proc[h] \in State(Len(log))
        /\ proc[h].staged # Nothing => Staged(h) = {proc[h].staged.pack}
        /\ proc[h].staged = Nothing => Staged(h) = {}
  BY HelperType DEF Staged
<1>1. ASSUME NEW h \in Helper, NEW what \in {"fetch", "push", "repack"}, Begin(h, what)
      PROVE  StagedInv'
  <2> DEFINE state == [Idle EXCEPT !.pc = IF what = "fetch" THEN "lock" ELSE "attempt",
                                   !.op = what, !.view = Len(log), !.attempt = 1]
  <2>1. state.staged = Nothing /\ state.pc \in {"lock", "attempt"}
    BY DEF Idle
  <2>2. proc' = [proc EXCEPT ![h] = state]
    BY <1>1 DEF Begin, state
  <2> HIDE DEF state
  <2>3. proc[h].pc = "idle"
    BY <1>1, <1>a DEF Begin, At, StagedInv
  <2> QED
    BY <2>1, <2>2, <2>3, HoldsOn
<1>2. ASSUME NEW h \in Helper, LockFetch(h) PROVE StagedInv'
  <2> DEFINE state == [proc[h] EXCEPT !.pc = "ensure", !.todo = PacksIn(Tree(h)) \ have]
  <2>1. state.staged = proc[h].staged /\ state.pc = "ensure" /\ state.op = proc[h].op
    BY <1>a DEF State
  <2>2. proc' = [proc EXCEPT ![h] = state]
    BY <1>2 DEF LockFetch, state
  <2> HIDE DEF state
  <2>3. proc[h].pc \in {"lock", "index"} /\ (proc[h].staged # Nothing => proc[h].op = "repack")
    BY <1>2, <1>a DEF LockFetch, At, StagedInv
  <2> QED
    BY <2>1, <2>2, <2>3, HoldsOn
<1>3. ASSUME NEW h \in Helper, EnsureBlobs(h) PROVE StagedInv'
  BY <1>3, <1>a, GotoHolds DEF EnsureBlobs, At, Pcs, StagedInv
<1>4. ASSUME NEW h \in Helper, FetchFails(h) PROVE StagedInv'
  BY <1>4, <1>a, GotoHolds DEF FetchFails, At, Pcs, StagedInv
<1>5. ASSUME NEW h \in Helper, NEW p \in Pack, IndexPack(h, p) PROVE StagedInv'
  <2> DEFINE state == [proc[h] EXCEPT !.todo = @ \ {p}]
  <2>1. state.staged = proc[h].staged /\ state.pc = proc[h].pc /\ state.op = proc[h].op
    BY <1>a DEF State
  <2>2. proc' = [proc EXCEPT ![h] = state]
    BY <1>5 DEF IndexPack, state
  <2> HIDE DEF state
  <2>3. proc[h].pc \in {"lock", "index"} /\ (proc[h].staged # Nothing => proc[h].op = "repack")
    BY <1>5, <1>a DEF IndexPack, At, StagedInv
  <2> QED
    BY <2>1, <2>2, <2>3, HoldsOn
<1>6. ASSUME NEW h \in Helper, SealLoose(h) PROVE StagedInv'
  BY <1>6, <1>a, GotoHolds DEF SealLoose, At, Pcs, StagedInv
<1>7. ASSUME NEW h \in Helper, DropLoose(h) PROVE StagedInv'
  BY <1>7, <1>a, GotoHolds DEF DropLoose, At, Pcs, StagedInv
<1>8. ASSUME NEW h \in Helper, DropFetchedBlobs(h) PROVE StagedInv'
  BY <1>8, <1>a, GotoHolds DEF DropFetchedBlobs, At, Pcs, StagedInv
<1>9. ASSUME NEW h \in Helper, Attempt(h) PROVE StagedInv'
  BY <1>9, <1>a, GotoHolds, DiscardHolds DEF Attempt, Pcs
<1>10. ASSUME NEW h \in Helper, GiveUp(h) PROVE StagedInv'
  BY <1>10, DiscardHolds DEF GiveUp
<1>11. ASSUME NEW h \in Helper, BuildFails(h) PROVE StagedInv'
  BY <1>11, <1>a, GotoHolds DEF BuildFails, At, Pcs, StagedInv
<1>12. ASSUME NEW h \in Helper, Reuse(h) PROVE StagedInv'
  BY <1>12, <1>a, GotoHolds DEF Reuse, At, Pcs, StagedInv
<1>13. ASSUME NEW h \in Helper, Rebuild(h) PROVE StagedInv'
  BY <1>13, DiscardHolds DEF Rebuild
<1>14. ASSUME NEW h \in Helper, BuildNothing(h) PROVE StagedInv'
  BY <1>14, <1>a, GotoHolds DEF BuildNothing, At, Pcs, StagedInv
<1>15. ASSUME NEW h \in Helper, NEW n \in Length, Stage(h, n) PROVE StagedInv'
  <2> DEFINE new == [pack |-> Fresh, bases |-> PacksIn(Tree(h)), sent |-> 0]
  <2>1. PICK to \in {"push", "upload"} :
          proc' = [proc EXCEPT ![h] = [proc[h] EXCEPT !.pc = to, !.staged = new]]
    BY <1>15 DEF Stage
  <2>2. /\ Fresh \in Pack /\ stored[Fresh] = <<>> /\ stored'[Fresh] # <<>>
        /\ \A p \in Pack : stored[p] # <<>> => stored'[p] = stored[p]
    BY <1>15, StageType, HostStays DEF Stage, Grown
  <2>3. new \in StagedPack /\ new # Nothing /\ new.pack = Fresh
    BY <2>2, HelperAssumption, HelperType DEF StagedPack
  <2> HIDE DEF new
  <2>4. /\ proc'[h].staged = new /\ proc'[h].pc = to
        /\ \A g \in Helper \ {h} : proc'[g] = proc[g]
    BY <1>a, <2>1, HelperType DEF State
  <2>5. \A g \in Helper \ {h} : Staged(g)' = Staged(g) /\ Fresh \notin Staged(g)
    <3>1. \A g \in Helper \ {h} : Staged(g)' = Staged(g)
      BY <2>4 DEF Staged
    <3>2. \A g \in Helper : proc[g].staged # Nothing => stored[proc[g].staged.pack] # <<>>
      BY DEF StagedInv
    <3>3. \A g \in Helper : Fresh \notin Staged(g)
      BY <1>a, <2>2, <3>2
    <3> QED
      BY <3>1, <3>3
  <2>6. Staged(h)' = {Fresh}
    BY <2>3, <2>4 DEF Staged
  <2>7. ASSUME NEW f \in Helper, NEW g \in Helper, f # g
        PROVE  Staged(f)' \cap Staged(g)' = {}
    <3>1. CASE f = h \/ g = h
      BY <2>5, <2>6, <2>7, <3>1
    <3>2. CASE f # h /\ g # h
      BY <2>5, <2>7, <3>2 DEF StagedInv
    <3> QED
      BY <3>1, <3>2
  <2>8. \A g \in Helper \ {h} :
          proc[g].staged # Nothing => stored'[proc[g].staged.pack] # <<>>
    BY <1>a, <2>2, HelperType DEF StagedInv
  <2>9. \A f, g \in Helper : Staged(f)' \cap Staged(g)' # {} => f = g
    BY <2>7
  <2>10. \A g \in Helper :
           proc'[g].staged # Nothing => stored'[proc'[g].staged.pack] # <<>>
    BY <2>2, <2>3, <2>4, <2>8
  <2>11. \A g \in Helper :
           /\ proc'[g].staged = Nothing =>
                proc'[g].pc \notin {"upload", "discard", "drop stored", "delete upload"}
           /\ proc'[g].staged # Nothing =>
                /\ proc'[g].pc # "idle"
                /\ proc'[g].pc \in {"lock", "ensure", "index", "drop loose", "drop fetched"} =>
                     proc'[g].op = "repack"
    BY <2>3, <2>4 DEF StagedInv
  <2> QED
    BY <2>9, <2>10, <2>11 DEF StagedInv
<1>16. ASSUME NEW h \in Helper, NEW n \in Length, StageFails(h, n) PROVE StagedInv'
  BY <1>16, <1>a, GotoHolds DEF StageFails, At, Pcs, StagedInv
<1>17. ASSUME NEW h \in Helper, Upload(h) PROVE StagedInv'
  <2>1. PICK to \in {"push", "upload"} :
          proc' = [proc EXCEPT ![h] = [proc[h] EXCEPT !.staged.sent = @ + 1, !.pc = to]]
    BY <1>17 DEF Upload
  <2> DEFINE state == [proc[h] EXCEPT !.staged.sent = @ + 1, !.pc = to]
  <2>2. proc[h].staged \in StagedPack
    BY <1>17, <1>a DEF Upload, At, StagedInv, State
  <2>3. state.staged = [proc[h].staged EXCEPT !.sent = @ + 1] /\ state.pc = to
    BY <1>a DEF State
  <2>4. state.staged.pack = proc[h].staged.pack /\ state.staged # Nothing
    BY <2>2, <2>3, HelperAssumption DEF StagedPack
  <2>5. proc' = [proc EXCEPT ![h] = state]
    BY <2>1
  <2> HIDE DEF state
  <2> QED
    BY <2>2, <2>3, <2>4, <2>5, HelperAssumption, HoldsOn
<1>18. ASSUME NEW h \in Helper, NEW landed \in BOOLEAN, UploadFails(h, landed)
      PROVE  StagedInv'
  BY <1>18, DiscardHolds DEF UploadFails
<1>19. ASSUME NEW h \in Helper, NEW answer \in {"done", "moved", "failed"}, Land(h, answer)
      PROVE  StagedInv'
  BY <1>19, <1>a, GotoHolds, DiscardHolds DEF Land, Pcs
<1>20. ASSUME NEW h \in Helper, LoseRace(h) PROVE StagedInv'
  BY <1>20, <1>a, GotoHolds DEF LoseRace, At, Pcs, StagedInv
<1>21. ASSUME NEW h \in Helper, PushFails(h) PROVE StagedInv'
  BY <1>21, DiscardHolds DEF PushFails
<1>22. ASSUME NEW h \in Helper, Retry(h) PROVE StagedInv'
  <2> DEFINE seen == [proc[h] EXCEPT !.view = Len(log)]
             state == IF seen.attempt < PushAttempts
                      THEN [seen EXCEPT !.attempt = @ + 1, !.pc = "attempt"]
                      ELSE Discarding(seen, "idle")
  <2>1. seen.staged = proc[h].staged /\ seen.op = proc[h].op
    BY <1>a DEF State
  <2>2. /\ state.staged \in {Nothing, proc[h].staged} /\ state.pc \in {"attempt", "idle", "discard"}
        /\ state.pc = "idle" => state.staged = Nothing
        /\ state.pc = "discard" => proc[h].staged # Nothing /\ state.staged # Nothing
    BY <1>a, <2>1 DEF State, Discarding, Moved, Idle
  <2>3. proc' = [proc EXCEPT ![h] = state]
    BY <1>22 DEF Retry
  <2> HIDE DEF seen, state
  <2> QED
    BY <2>2, <2>3, HoldsOn
<1>23. ASSUME NEW h \in Helper, Record(h) PROVE StagedInv'
  BY <1>23, DiscardHolds DEF Record
<1>24. ASSUME NEW h \in Helper, RecordFails(h) PROVE StagedInv'
  BY <1>24, DiscardHolds DEF RecordFails
<1>25. ASSUME NEW h \in Helper, RecordUnlocked(h) PROVE StagedInv'
  BY <1>25, <1>a, GotoHolds DEF RecordUnlocked, At, Pcs, StagedInv
<1>26. ASSUME NEW h \in Helper, SealStored(h) PROVE StagedInv'
  BY <1>26, <1>a, GotoHolds DEF SealStored, At, Pcs, StagedInv
<1>27. ASSUME NEW h \in Helper, KeepStored(h) PROVE StagedInv'
  BY <1>27, <1>a, GotoHolds DEF KeepStored, At, Pcs, StagedInv
<1>28. ASSUME NEW h \in Helper, DropStored(h) PROVE StagedInv'
  BY <1>28, <1>a, GotoHolds DEF DropStored, At, Pcs, StagedInv
<1>29. ASSUME NEW h \in Helper, NEW ok \in BOOLEAN, DeleteUpload(h, ok) PROVE StagedInv'
  <2> DEFINE done == [proc[h] EXCEPT !.staged = Nothing, !.after = "idle"]
             state == Moved(done, proc[h].after)
  <2>1. done.staged = Nothing /\ proc[h].after \in {"idle", "attempt", "build"}
    BY <1>a DEF State
  <2>2. state.staged = Nothing /\ state.pc \in {"idle", "attempt", "build"}
    BY <1>a, <2>1 DEF Moved, Idle, State
  <2>3. proc' = [proc EXCEPT ![h] = state]
    BY <1>29 DEF DeleteUpload
  <2> HIDE DEF done, state
  <2> QED
    BY <2>2, <2>3, HoldsOn
<1>30. ASSUME NEW h \in Helper, Crash(h) PROVE StagedInv'
  BY <1>30, <1>a, GotoHolds DEF Crash, At, Pcs, StagedInv
<1>31. ASSUME NEW n \in OthersLength, NEW base \in {{}, TreeAt(Len(log))}, Others(n, base)
      PROVE  StagedInv'
  <2>1. UNCHANGED proc
    BY <1>31 DEF Others
  <2>2. \A p \in Pack : stored[p] # <<>> => stored'[p] = stored[p]
    BY HostStays DEF Grown
  <2>3. \A g \in Helper : proc[g].staged # Nothing => stored'[proc[g].staged.pack] # <<>>
    BY <1>a, <2>2, HelperType DEF StagedInv
  <2> QED
    BY <2>1, <2>3 DEF StagedInv, Staged
<1>32. ASSUME UNCHANGED vars PROVE StagedInv'
  BY <1>32 DEF vars, hostVars, StagedInv, Staged
<1> QED
  BY <1>1, <1>2, <1>3, <1>4, <1>5, <1>6, <1>7, <1>8, <1>9, <1>10, <1>11, <1>12, <1>13,
       <1>14, <1>15, <1>16, <1>17, <1>18, <1>19, <1>20, <1>21, <1>22, <1>23, <1>24, <1>25,
       <1>26, <1>27, <1>28, <1>29, <1>30, <1>31, <1>32 DEF Next, Helps

-----------------------------------------------------------------------------
\* Where a step takes its helper.

\* h goes to `to`; it forgets what it held if it goes idle.
Went(h, to) ==
  /\ \A g \in Helper \ {h} : proc'[g] = proc[g]
  /\ proc'[h].pc = to
  /\ to = "idle" => proc'[h].view = 0 /\ proc'[h].staged = Nothing /\ proc'[h].todo = {}
  /\ to # "idle" => /\ proc'[h].view = proc[h].view /\ proc'[h].staged = proc[h].staged
                    /\ proc'[h].todo = proc[h].todo

LEMMA GotoWent ==
  ASSUME TypeOK, NEW h \in Helper, NEW to \in Pcs, Goto(h, to)
  PROVE  Went(h, to)
<1>1. proc[h] \in State(Len(log)) /\ proc \in [Helper -> State(Len(log))]
  BY HelperType
<1>2. proc'[h] = Moved(proc[h], to) /\ \A g \in Helper \ {h} : proc'[g] = proc[g]
  BY <1>1 DEF Goto
<1> QED
  BY <1>1, <1>2 DEF Went, Moved, Idle, State

LEMMA DiscardWent ==
  ASSUME TypeOK, NEW h \in Helper, NEW to \in {"idle", "attempt", "build"}, DiscardThen(h, to)
  PROVE  \/ proc[h].staged = Nothing /\ Went(h, to)
         \/ proc[h].staged # Nothing /\ Went(h, "discard")
<1>1. CASE proc[h].staged = Nothing
  <2>1. Goto(h, to)
    BY <1>1 DEF DiscardThen, Discarding, Goto
  <2> QED
    BY <1>1, <2>1, GotoWent DEF Pcs
<1>2. CASE proc[h].staged # Nothing
  <2>1. proc[h] \in State(Len(log)) /\ proc \in [Helper -> State(Len(log))]
    BY HelperType
  <2>2. proc' = [proc EXCEPT ![h] = [proc[h] EXCEPT !.pc = "discard", !.after = to]]
    BY <1>2 DEF DiscardThen, Discarding
  <2> QED
    BY <1>2, <2>1, <2>2 DEF Went, State
<1> QED
  BY <1>1, <1>2

\* The pack h held is let go, or its blobs are left behind.
LetsGo(h) ==
  /\ proc'[h].staged = Nothing
  /\ Staged(h) \subseteq spoiled' \/ \E ok \in BOOLEAN : DeleteUpload(h, ok)

Moves(h) ==
  /\ \A g \in Helper \ {h} : proc'[g] = proc[g]
  /\ proc'[h].view \in {0, proc[h].view} \/ (Connect /\ proc'[h].view = Len(log))
  /\ \/ proc'[h].staged = proc[h].staged \/ LetsGo(h)
     \/ \E n \in Length : Stage(h, n)
     \/ Upload(h)
  /\ proc'[h].pc = "landed" =>
       /\ \E answer \in {"done", "moved", "failed"} : Land(h, answer)
       /\ proc'[h].view = proc[h].view /\ proc'[h].staged = proc[h].staged
  /\ proc'[h].pc \in {"ensure", "index", "drop loose", "drop fetched", "drop stored"} =>
       proc'[h].view = proc[h].view /\ proc'[h].staged = proc[h].staged
  /\ proc'[h].pc = "upload" => Upload(h) \/ \E n \in Length : Stage(h, n)
  /\ proc'[h].pc = "ensure" => LockFetch(h)
  /\ proc'[h].pc = "index" => EnsureBlobs(h) \/ \E p \in Pack : IndexPack(h, p)
  /\ proc'[h].pc = "drop loose" => SealLoose(h)
  /\ proc'[h].pc = "drop fetched" => SealLoose(h) \/ DropLoose(h)
  /\ proc'[h].pc = "drop stored" => SealStored(h)
  /\ proc'[h].pc = "delete upload" => DropStored(h) \/ KeepStored(h) \/ RecordUnlocked(h)
  /\ proc'[h].pc \notin {"discard", "drop stored", "delete upload"} =>
       \/ proc[h].pc \notin {"discard", "drop stored", "delete upload"}
       \/ proc'[h].staged = Nothing

LEMMA StepMoves ==
  ASSUME TypeOK, StagedInv, NEW h \in Helper, Helps(h)
  PROVE  Moves(h)
<1>a. proc[h] \in State(Len(log)) /\ proc \in [Helper -> State(Len(log))]
      /\ (proc[h].staged = Nothing <=> Staged(h) = {})
  BY HelperType DEF Staged
<1>b. proc[h].staged = Nothing =>
        proc[h].pc \notin {"upload", "discard", "drop stored", "delete upload"}
  BY DEF StagedInv
<1>1. ASSUME NEW what \in {"fetch", "push", "repack"}, Begin(h, what) PROVE Moves(h)
  <2> DEFINE state == [Idle EXCEPT !.pc = IF what = "fetch" THEN "lock" ELSE "attempt",
                                   !.op = what, !.view = Len(log), !.attempt = 1]
  <2>1. /\ state.staged = Nothing /\ state.pc \in {"lock", "attempt"} /\ state.view = Len(log)
        /\ proc[h].pc = "idle" /\ Connect
    BY <1>1, <1>a DEF Begin, At, State, Idle
  <2>2. proc'[h] = state /\ \A g \in Helper \ {h} : proc'[g] = proc[g]
    BY <1>1, <1>a DEF Begin
  <2> HIDE DEF state
  <2>3. Staged(h) = {}
    BY <1>a, <2>1 DEF StagedInv
  <2> QED
    BY <2>1, <2>2, <2>3 DEF Moves, LetsGo
<1>2. ASSUME LockFetch(h) PROVE Moves(h)
  <2> DEFINE state == [proc[h] EXCEPT !.pc = "ensure", !.todo = PacksIn(Tree(h)) \ have]
  <2>1. /\ state.staged = proc[h].staged /\ state.pc = "ensure" /\ state.view = proc[h].view
        /\ proc[h].pc = "lock"
    BY <1>2, <1>a DEF LockFetch, At, State, Idle
  <2>2. proc'[h] = state /\ \A g \in Helper \ {h} : proc'[g] = proc[g]
    BY <1>2, <1>a DEF LockFetch
  <2> HIDE DEF state
  <2> QED
    BY <1>2, <2>1, <2>2 DEF Moves
<1>3. ASSUME EnsureBlobs(h) PROVE Moves(h)
  <2>1. Went(h, "index") /\ proc[h].pc = "ensure"
    BY <1>3, GotoWent DEF EnsureBlobs, At, Pcs
  <2> QED
    BY <1>3, <2>1 DEF Moves, Went
<1>4. ASSUME FetchFails(h) PROVE Moves(h)
  <2>1. Went(h, "idle")
    BY <1>4, GotoWent DEF FetchFails, Pcs
  <2>2. Staged(h) \subseteq spoiled'
    BY <1>4 DEF FetchFails, Fault
  <2> QED
    BY <2>1, <2>2 DEF Moves, Went, LetsGo
<1>5. ASSUME NEW p \in Pack, IndexPack(h, p) PROVE Moves(h)
  <2> DEFINE state == [proc[h] EXCEPT !.todo = @ \ {p}]
  <2>1. /\ state.staged = proc[h].staged /\ state.pc = "index" /\ state.view = proc[h].view
        /\ proc[h].pc = "index"
    BY <1>5, <1>a DEF IndexPack, At, State, Idle
  <2>2. proc'[h] = state /\ \A g \in Helper \ {h} : proc'[g] = proc[g]
    BY <1>5, <1>a DEF IndexPack
  <2> HIDE DEF state
  <2> QED
    BY <1>5, <2>1, <2>2 DEF Moves
<1>6. ASSUME SealLoose(h) PROVE Moves(h)
  <2>1. (Went(h, "drop loose") \/ Went(h, "drop fetched")) /\ proc[h].pc = "index"
    BY <1>6, GotoWent DEF SealLoose, At, Pcs
  <2> QED
    BY <1>6, <2>1 DEF Moves, Went
<1>7. ASSUME DropLoose(h) PROVE Moves(h)
  <2>1. Went(h, "drop fetched") /\ proc[h].pc = "drop loose"
    BY <1>7, GotoWent DEF DropLoose, At, Pcs
  <2> QED
    BY <1>7, <2>1 DEF Moves, Went
<1>8. ASSUME DropFetchedBlobs(h) PROVE Moves(h)
  <2>1. /\ proc[h].pc = "drop fetched" /\ (proc[h].op = "repack" => Went(h, "build"))
        /\ proc[h].op # "repack" => Went(h, "idle")
    BY <1>8, GotoWent DEF DropFetchedBlobs, At, Pcs
  <2>2. proc[h].op # "repack" => Staged(h) = {}
    BY <1>a, <2>1 DEF StagedInv
  <2> QED
    BY <2>1, <2>2 DEF Moves, Went, LetsGo
<1>9. ASSUME Attempt(h) PROVE Moves(h)
  <2>1. /\ proc[h].pc = "attempt"
        /\ \/ DiscardThen(h, "idle") \/ DiscardThen(h, "attempt")
           \/ Goto(h, "lock") \/ Goto(h, "build")
    BY <1>9 DEF Attempt, At
  <2>2. \/ Staged(h) = {} /\ (Went(h, "idle") \/ Went(h, "attempt"))
        \/ Went(h, "discard") \/ Went(h, "lock") \/ Went(h, "build")
    BY <1>a, <2>1, DiscardWent, GotoWent DEF Pcs
  <2> QED
    BY <2>1, <2>2 DEF Moves, Went, LetsGo
<1>10. ASSUME GiveUp(h) PROVE Moves(h)
  <2>1. DiscardThen(h, "idle") /\ (proc[h].pc = "attempt" \/ proc[h].pc = "retry")
    BY <1>10 DEF GiveUp, At
  <2>2. \/ Staged(h) = {} /\ (Went(h, "idle") \/ Went(h, "attempt") \/ Went(h, "build"))
        \/ Went(h, "discard")
    BY <1>a, <2>1, DiscardWent
  <2> QED
    BY <2>1, <2>2 DEF Moves, Went, LetsGo
<1>11. ASSUME BuildFails(h) PROVE Moves(h)
  <2>1. Went(h, "idle")
    BY <1>11, GotoWent DEF BuildFails, Pcs
  <2>2. Staged(h) \subseteq spoiled'
    BY <1>11 DEF BuildFails, Fault
  <2> QED
    BY <2>1, <2>2 DEF Moves, Went, LetsGo
<1>12. ASSUME Reuse(h) PROVE Moves(h)
  <2>1. Went(h, "push") /\ proc[h].pc = "build"
    BY <1>12, GotoWent DEF Reuse, At, Pcs
  <2> QED
    BY <1>12, <2>1 DEF Moves, Went
<1>13. ASSUME Rebuild(h) PROVE Moves(h)
  <2>1. DiscardThen(h, "build") /\ proc[h].pc = "build"
    BY <1>13 DEF Rebuild, At
  <2>2. \/ Staged(h) = {} /\ (Went(h, "idle") \/ Went(h, "attempt") \/ Went(h, "build"))
        \/ Went(h, "discard")
    BY <1>a, <2>1, DiscardWent
  <2> QED
    BY <2>1, <2>2 DEF Moves, Went, LetsGo
<1>14. ASSUME BuildNothing(h) PROVE Moves(h)
  <2>1. Went(h, "push") /\ proc[h].pc = "build"
    BY <1>14, GotoWent DEF BuildNothing, At, Pcs
  <2> QED
    BY <1>14, <2>1 DEF Moves, Went
<1>15. ASSUME NEW n \in Length, Stage(h, n) PROVE Moves(h)
  <2>1. PICK to \in {"push", "upload"} :
          proc' = [proc EXCEPT ![h] = [proc[h] EXCEPT
            !.pc = to, !.staged = [pack |-> Fresh, bases |-> PacksIn(Tree(h)), sent |-> 0]]]
    BY <1>15 DEF Stage
  <2>2. /\ proc'[h].pc = to /\ proc'[h].view = proc[h].view
        /\ \A g \in Helper \ {h} : proc'[g] = proc[g]
    BY <1>a, <2>1 DEF State
  <2>3. proc[h].pc = "build"
    BY <1>15 DEF Stage, At
  <2> QED
    BY <1>15, <2>2, <2>3 DEF Moves
<1>16. ASSUME NEW n \in Length, StageFails(h, n) PROVE Moves(h)
  <2>1. Went(h, "idle")
    BY <1>16, GotoWent DEF StageFails, Pcs
  <2>2. Staged(h) \subseteq spoiled'
    BY <1>16 DEF StageFails
  <2> QED
    BY <2>1, <2>2 DEF Moves, Went, LetsGo
<1>17. ASSUME Upload(h) PROVE Moves(h)
  <2>1. PICK to \in {"push", "upload"} :
          proc' = [proc EXCEPT ![h] = [proc[h] EXCEPT !.staged.sent = @ + 1, !.pc = to]]
    BY <1>17 DEF Upload
  <2>2. /\ proc'[h].pc = to /\ proc'[h].view = proc[h].view
        /\ \A g \in Helper \ {h} : proc'[g] = proc[g]
    BY <1>a, <2>1 DEF State
  <2>3. proc[h].pc = "upload"
    BY <1>17 DEF Upload, At
  <2> QED
    BY <1>17, <2>2, <2>3 DEF Moves
<1>18. ASSUME NEW landed \in BOOLEAN, UploadFails(h, landed) PROVE Moves(h)
  <2>1. DiscardThen(h, "idle") /\ proc[h].pc = "upload"
    BY <1>18 DEF UploadFails, At
  <2>2. \/ Staged(h) = {} /\ (Went(h, "idle") \/ Went(h, "attempt") \/ Went(h, "build"))
        \/ Went(h, "discard")
    BY <1>a, <2>1, DiscardWent
  <2> QED
    BY <2>1, <2>2 DEF Moves, Went, LetsGo
<1>19. ASSUME NEW answer \in {"done", "moved", "failed"}, Land(h, answer) PROVE Moves(h)
  <2>1. /\ proc[h].pc = "push"
        /\ \/ DiscardThen(h, "idle") \/ Goto(h, "landed") \/ Goto(h, "retry")
    BY <1>19 DEF Land, At
  <2>2. \/ Staged(h) = {} /\ Went(h, "idle")
        \/ Went(h, "discard") \/ Went(h, "landed") \/ Went(h, "retry")
    BY <1>a, <2>1, DiscardWent, GotoWent DEF Pcs
  <2> QED
    BY <1>19, <2>1, <2>2 DEF Moves, Went, LetsGo
<1>20. ASSUME LoseRace(h) PROVE Moves(h)
  <2>1. Went(h, "retry") /\ proc[h].pc = "push"
    BY <1>20, GotoWent DEF LoseRace, At, Pcs
  <2> QED
    BY <1>20, <2>1 DEF Moves, Went
<1>21. ASSUME PushFails(h) PROVE Moves(h)
  <2>1. DiscardThen(h, "idle") /\ proc[h].pc = "push"
    BY <1>21 DEF PushFails, At
  <2>2. \/ Staged(h) = {} /\ (Went(h, "idle") \/ Went(h, "attempt") \/ Went(h, "build"))
        \/ Went(h, "discard")
    BY <1>a, <2>1, DiscardWent
  <2> QED
    BY <2>1, <2>2 DEF Moves, Went, LetsGo
<1>22. ASSUME Retry(h) PROVE Moves(h)
  <2> DEFINE seen == [proc[h] EXCEPT !.view = Len(log)]
             state == IF seen.attempt < PushAttempts
                      THEN [seen EXCEPT !.attempt = @ + 1, !.pc = "attempt"]
                      ELSE Discarding(seen, "idle")
  <2>1. seen.staged = proc[h].staged /\ seen.view = Len(log)
    BY <1>a DEF State
  <2>2. /\ state.pc \in {"attempt", "idle", "discard"}
        /\ state.view \in {0, Len(log)}
        /\ state.staged = proc[h].staged
    BY <1>a, <2>1 DEF State, Discarding, Moved, Idle
  <2>3. proc'[h] = state /\ (\A g \in Helper \ {h} : proc'[g] = proc[g]) /\ Connect
        /\ proc[h].pc = "retry"
    BY <1>22, <1>a DEF Retry, At
  <2> HIDE DEF seen, state
  <2> QED
    BY <2>2, <2>3 DEF Moves
<1>23. ASSUME Record(h) PROVE Moves(h)
  <2>1. DiscardThen(h, "idle") /\ proc[h].pc = "landed"
    BY <1>23 DEF Record, At
  <2>2. \/ Staged(h) = {} /\ (Went(h, "idle") \/ Went(h, "attempt") \/ Went(h, "build"))
        \/ Went(h, "discard")
    BY <1>a, <2>1, DiscardWent
  <2> QED
    BY <2>1, <2>2 DEF Moves, Went, LetsGo
<1>24. ASSUME RecordFails(h) PROVE Moves(h)
  <2>1. DiscardThen(h, "idle") /\ proc[h].pc = "landed"
    BY <1>24 DEF RecordFails, At
  <2>2. \/ Staged(h) = {} /\ (Went(h, "idle") \/ Went(h, "attempt") \/ Went(h, "build"))
        \/ Went(h, "discard")
    BY <1>a, <2>1, DiscardWent
  <2> QED
    BY <2>1, <2>2 DEF Moves, Went, LetsGo
<1>25. ASSUME RecordUnlocked(h) PROVE Moves(h)
  <2>1. /\ proc[h].pc = "landed" /\ (Staged(h) = {} => Went(h, "idle"))
        /\ Staged(h) # {} => Went(h, "delete upload")
    BY <1>25, GotoWent DEF RecordUnlocked, At, Pcs
  <2> QED
    BY <1>25, <2>1 DEF Moves, Went, LetsGo
<1>26. ASSUME SealStored(h) PROVE Moves(h)
  <2>1. Went(h, "drop stored") /\ proc[h].pc = "discard"
    BY <1>26, GotoWent DEF SealStored, At, Pcs
  <2> QED
    BY <1>26, <2>1 DEF Moves, Went
<1>27. ASSUME KeepStored(h) PROVE Moves(h)
  <2>1. Went(h, "delete upload") /\ proc[h].pc = "discard"
    BY <1>27, GotoWent DEF KeepStored, At, Pcs
  <2> QED
    BY <1>27, <2>1 DEF Moves, Went
<1>28. ASSUME DropStored(h) PROVE Moves(h)
  <2>1. Went(h, "delete upload") /\ proc[h].pc = "drop stored"
    BY <1>28, GotoWent DEF DropStored, At, Pcs
  <2> QED
    BY <1>28, <2>1 DEF Moves, Went
<1>29. ASSUME NEW ok \in BOOLEAN, DeleteUpload(h, ok) PROVE Moves(h)
  <2> DEFINE done == [proc[h] EXCEPT !.staged = Nothing, !.after = "idle"]
             state == Moved(done, proc[h].after)
  <2>1. /\ done.staged = Nothing /\ done.view = proc[h].view
        /\ proc[h].after \in {"idle", "attempt", "build"}
    BY <1>a DEF State
  <2>2. /\ state.staged = Nothing /\ state.view \in {0, proc[h].view}
        /\ state.pc \in {"idle", "attempt", "build"}
    BY <1>a, <2>1 DEF Moved, Idle, State
  <2>3. proc'[h] = state /\ \A g \in Helper \ {h} : proc'[g] = proc[g]
    BY <1>29, <1>a DEF DeleteUpload
  <2> HIDE DEF done, state
  <2> QED
    BY <1>29, <2>2, <2>3 DEF Moves, LetsGo
<1>30. ASSUME Crash(h) PROVE Moves(h)
  <2>1. Went(h, "idle")
    BY <1>30, GotoWent DEF Crash, Pcs
  <2>2. Staged(h) \subseteq spoiled'
    BY <1>30 DEF Crash, Fault
  <2> QED
    BY <2>1, <2>2 DEF Moves, Went, LetsGo
<1> QED
  BY <1>1, <1>2, <1>3, <1>4, <1>5, <1>6, <1>7, <1>8, <1>9, <1>10, <1>11, <1>12, <1>13,
       <1>14, <1>15, <1>16, <1>17, <1>18, <1>19, <1>20, <1>21, <1>22, <1>23, <1>24, <1>25,
       <1>26, <1>27, <1>28, <1>29, <1>30 DEF Helps

LEMMA Steps ==
  ASSUME [Next]_vars
  PROVE  OthersStep \/ UNCHANGED vars \/ \E h \in Helper : Helps(h)
BY DEF Next, OthersStep

\* What a helper connected to, and the blobs of what it holds, stay.
LEMMA SameTree ==
  ASSUME TypeOK, [Next]_vars, NEW g \in Helper, proc'[g].view = proc[g].view
  PROVE  Tree(g)' = Tree(g)
<1>1. proc[g].view \in 0..Len(log) /\ Len(log) \in Nat /\ DOMAIN log = 1..Len(log)
  BY HelperType, LogType DEF State
<1>2. proc[g].view # 0 => log'[proc[g].view] = log[proc[g].view]
  BY <1>1, HostStays DEF Grown
<1> QED
  BY <1>2 DEF Tree, TreeAt

LEMMA SameBlobs ==
  ASSUME TypeOK, [Next]_vars
  PROVE  \A p \in Pack : stored[p] # <<>> => BlobsOf(p)' = BlobsOf(p)
BY HostStays DEF Grown, BlobsOf

LEMMA SamePack ==
  ASSUME TypeOK, StagedInv, [Next]_vars, NEW g \in Helper, proc'[g].staged = proc[g].staged
  PROVE  Staged(g)' = Staged(g) /\ StagedBlobs(g)' = StagedBlobs(g)
<1>1. Staged(g)' = Staged(g)
  BY DEF Staged
<1>2. \A p \in Staged(g) : p \in Pack /\ stored[p] # <<>>
  BY HelperType DEF Staged, StagedInv
<1> QED
  BY <1>1, <1>2, SameBlobs DEF StagedBlobs

LEMMA LandedStays ==
  ASSUME TypeOK, StagedInv, Landed, [Next]_vars
  PROVE  Landed'
<1>1. ASSUME NEW g \in Helper, proc'[g] = proc[g], At(g, "landed")
      PROVE  /\ proc'[g].view + 1 \in DOMAIN log'
             /\ log'[proc'[g].view + 1].tree \subseteq Tree(g)' \cup StagedBlobs(g)'
  <2>1. proc[g].view + 1 \in DOMAIN log /\ log'[proc[g].view + 1] = log[proc[g].view + 1]
        /\ DOMAIN log \subseteq DOMAIN log'
    BY <1>1, HostStays DEF Landed, Grown
  <2>2. Tree(g)' = Tree(g) /\ StagedBlobs(g)' = StagedBlobs(g)
    BY <1>1, SameTree, SamePack
  <2> QED
    BY <1>1, <2>1, <2>2 DEF Landed
<1>2. ASSUME NEW h \in Helper, Helps(h) PROVE Landed'
  <2>1. Moves(h)
    BY <1>2, StepMoves
  <2>2. ASSUME proc'[h].pc = "landed"
        PROVE  /\ proc'[h].view + 1 \in DOMAIN log'
               /\ log'[proc'[h].view + 1].tree \subseteq Tree(h)' \cup StagedBlobs(h)'
    <3>1. PICK answer \in {"done", "moved", "failed"} : Land(h, answer)
      BY <2>1, <2>2 DEF Moves
    <3>2. proc'[h].view = proc[h].view /\ proc'[h].staged = proc[h].staged
      BY <2>1, <2>2 DEF Moves
    <3>3. Tree(h)' = Tree(h) /\ StagedBlobs(h)' = StagedBlobs(h)
      BY <3>2, SameTree, SamePack
    <3>4. PICK base \in {{}, Tree(h)} :
             /\ [tree |-> base \cup StagedBlobs(h), ours |-> TRUE] \in Commit
             /\ log' = Append(log, [tree |-> base \cup StagedBlobs(h), ours |-> TRUE])
      BY <3>1, LandType
    <3>5. Len(log') = Len(log) + 1 /\ Len(log') \in DOMAIN log'
          /\ log'[Len(log')].tree = base \cup StagedBlobs(h)
      BY <3>4, AppendType
    <3>6. proc[h].view = Len(log)
      BY <3>1 DEF Land
    <3> QED
      BY <3>2, <3>3, <3>5, <3>6
  <2>3. \A g \in Helper \ {h} : proc'[g] = proc[g]
    BY <2>1 DEF Moves
  <2> QED
    BY <1>1, <2>2, <2>3 DEF Landed, At
<1>3. ASSUME UNCHANGED proc PROVE Landed'
  BY <1>1, <1>3 DEF Landed, At
<1> QED
  BY <1>2, <1>3, Steps DEF OthersStep, Others, vars

-----------------------------------------------------------------------------
\* The fetch lock.

(* Whoever fetches or drops blobs holds the lock; nobody has connected to  *)
(* more than the tracking ref; and the blobs an indexing helper needs are  *)
(* here.                                                                   *)
LockInv ==
  /\ \A h \in Helper :
       proc[h].pc \in {"ensure", "index", "drop loose", "drop fetched", "drop stored"} => lock = h
  /\ \A h \in Helper : proc[h].view <= tracking
  /\ IndexerHasBlobs

LEMMA LockKept ==
  ASSUME LockInv, NEW h \in Helper, NEW g \in Helper, g # h, Helps(h), lock = g
  PROVE  lock' = g
<1>a. lock # Nobody /\ lock # h
  BY HelperAssumption
<1>1. ASSUME NEW what \in {"fetch", "push", "repack"}, Begin(h, what) PROVE lock' = g
  BY <1>1, <1>a DEF Begin
<1>2. ASSUME LockFetch(h) PROVE lock' = g
  BY <1>2, <1>a DEF LockFetch
<1>3. ASSUME EnsureBlobs(h) PROVE lock' = g
  BY <1>3, <1>a DEF EnsureBlobs
<1>4. ASSUME FetchFails(h) PROVE lock' = g
  BY <1>4, <1>a DEF FetchFails
<1>5. ASSUME NEW p \in Pack, IndexPack(h, p) PROVE lock' = g
  BY <1>5, <1>a DEF IndexPack
<1>6. ASSUME SealLoose(h) PROVE lock' = g
  BY <1>6, <1>a DEF SealLoose
<1>7. ASSUME DropLoose(h) PROVE lock' = g
  BY <1>7, <1>a DEF DropLoose
<1>8. ASSUME DropFetchedBlobs(h) PROVE lock' = g
  BY <1>8, <1>a DEF DropFetchedBlobs, At, LockInv
<1>9. ASSUME Attempt(h) PROVE lock' = g
  BY <1>9, <1>a DEF Attempt
<1>10. ASSUME GiveUp(h) PROVE lock' = g
  BY <1>10, <1>a DEF GiveUp, sharedVars
<1>11. ASSUME BuildFails(h) PROVE lock' = g
  BY <1>11, <1>a DEF BuildFails, sharedVars
<1>12. ASSUME Reuse(h) PROVE lock' = g
  BY <1>12, <1>a DEF Reuse, sharedVars
<1>13. ASSUME Rebuild(h) PROVE lock' = g
  BY <1>13, <1>a DEF Rebuild, sharedVars
<1>14. ASSUME BuildNothing(h) PROVE lock' = g
  BY <1>14, <1>a DEF BuildNothing, sharedVars
<1>15. ASSUME NEW n \in Length, Stage(h, n) PROVE lock' = g
  BY <1>15, <1>a DEF Stage
<1>16. ASSUME NEW n \in Length, StageFails(h, n) PROVE lock' = g
  BY <1>16, <1>a DEF StageFails
<1>17. ASSUME Upload(h) PROVE lock' = g
  BY <1>17, <1>a DEF Upload, sharedVars
<1>18. ASSUME NEW landed \in BOOLEAN, UploadFails(h, landed) PROVE lock' = g
  BY <1>18, <1>a DEF UploadFails, sharedVars
<1>19. ASSUME NEW answer \in {"done", "moved", "failed"}, Land(h, answer) PROVE lock' = g
  BY <1>19, <1>a DEF Land, sharedVars
<1>20. ASSUME LoseRace(h) PROVE lock' = g
  BY <1>20, <1>a DEF LoseRace, sharedVars
<1>21. ASSUME PushFails(h) PROVE lock' = g
  BY <1>21, <1>a DEF PushFails, sharedVars
<1>22. ASSUME Retry(h) PROVE lock' = g
  BY <1>22, <1>a DEF Retry
<1>23. ASSUME Record(h) PROVE lock' = g
  BY <1>23, <1>a DEF Record
<1>24. ASSUME RecordFails(h) PROVE lock' = g
  BY <1>24, <1>a DEF RecordFails
<1>25. ASSUME RecordUnlocked(h) PROVE lock' = g
  BY <1>25, <1>a DEF RecordUnlocked
<1>26. ASSUME SealStored(h) PROVE lock' = g
  BY <1>26, <1>a DEF SealStored
<1>27. ASSUME KeepStored(h) PROVE lock' = g
  BY <1>27, <1>a DEF KeepStored, sharedVars
<1>28. ASSUME DropStored(h) PROVE lock' = g
  BY <1>28, <1>a DEF DropStored, At, LockInv
<1>29. ASSUME NEW ok \in BOOLEAN, DeleteUpload(h, ok) PROVE lock' = g
  BY <1>29, <1>a DEF DeleteUpload, sharedVars
<1>30. ASSUME Crash(h) PROVE lock' = g
  BY <1>30, <1>a DEF Crash
<1> QED
  BY <1>1, <1>2, <1>3, <1>4, <1>5, <1>6, <1>7, <1>8, <1>9, <1>10, <1>11, <1>12, <1>13,
       <1>14, <1>15, <1>16, <1>17, <1>18, <1>19, <1>20, <1>21, <1>22, <1>23, <1>24, <1>25,
       <1>26, <1>27, <1>28, <1>29, <1>30 DEF Helps

\* Only who holds the lock takes blobs away.
LEMMA BlobsKept ==
  ASSUME LockInv, NEW h \in Helper, Helps(h), lock # h, [Next]_vars
  PROVE  loose \subseteq loose' /\ packed \subseteq packed' /\ fetched \subseteq fetched'
<1>a. ~ DropLoose(h) /\ ~ DropFetchedBlobs(h) /\ ~ DropStored(h)
  BY DEF DropLoose, DropFetchedBlobs, DropStored, At, LockInv
<1>1. ASSUME NEW what \in {"fetch", "push", "repack"}, Begin(h, what)
      PROVE  loose \subseteq loose' /\ packed \subseteq packed' /\ fetched \subseteq fetched'
  BY <1>1 DEF Begin, cacheVars
<1>2. ASSUME LockFetch(h)
      PROVE  loose \subseteq loose' /\ packed \subseteq packed' /\ fetched \subseteq fetched'
  BY <1>2 DEF LockFetch, cacheVars
<1>3. ASSUME EnsureBlobs(h)
      PROVE  loose \subseteq loose' /\ packed \subseteq packed' /\ fetched \subseteq fetched'
  BY <1>3 DEF EnsureBlobs
<1>4. ASSUME FetchFails(h)
      PROVE  loose \subseteq loose' /\ packed \subseteq packed' /\ fetched \subseteq fetched'
  BY <1>4 DEF FetchFails, cacheVars
<1>5. ASSUME NEW p \in Pack, IndexPack(h, p)
      PROVE  loose \subseteq loose' /\ packed \subseteq packed' /\ fetched \subseteq fetched'
  BY <1>5 DEF IndexPack, cacheVars
<1>6. ASSUME SealLoose(h)
      PROVE  loose \subseteq loose' /\ packed \subseteq packed' /\ fetched \subseteq fetched'
  BY <1>6 DEF SealLoose, cacheVars
<1>7. ASSUME DropLoose(h)
      PROVE  loose \subseteq loose' /\ packed \subseteq packed' /\ fetched \subseteq fetched'
  BY <1>7, <1>a
<1>8. ASSUME DropFetchedBlobs(h)
      PROVE  loose \subseteq loose' /\ packed \subseteq packed' /\ fetched \subseteq fetched'
  BY <1>8, <1>a
<1>9. ASSUME Attempt(h)
      PROVE  loose \subseteq loose' /\ packed \subseteq packed' /\ fetched \subseteq fetched'
  BY <1>9 DEF Attempt, cacheVars
<1>10. ASSUME GiveUp(h)
      PROVE  loose \subseteq loose' /\ packed \subseteq packed' /\ fetched \subseteq fetched'
  BY <1>10 DEF GiveUp, sharedVars, cacheVars
<1>11. ASSUME BuildFails(h)
      PROVE  loose \subseteq loose' /\ packed \subseteq packed' /\ fetched \subseteq fetched'
  BY <1>11 DEF BuildFails, sharedVars, cacheVars
<1>12. ASSUME Reuse(h)
      PROVE  loose \subseteq loose' /\ packed \subseteq packed' /\ fetched \subseteq fetched'
  BY <1>12 DEF Reuse, sharedVars, cacheVars
<1>13. ASSUME Rebuild(h)
      PROVE  loose \subseteq loose' /\ packed \subseteq packed' /\ fetched \subseteq fetched'
  BY <1>13 DEF Rebuild, sharedVars, cacheVars
<1>14. ASSUME BuildNothing(h)
      PROVE  loose \subseteq loose' /\ packed \subseteq packed' /\ fetched \subseteq fetched'
  BY <1>14 DEF BuildNothing, sharedVars, cacheVars
<1>15. ASSUME NEW n \in Length, Stage(h, n)
      PROVE  loose \subseteq loose' /\ packed \subseteq packed' /\ fetched \subseteq fetched'
  BY <1>15 DEF Stage
<1>16. ASSUME NEW n \in Length, StageFails(h, n)
      PROVE  loose \subseteq loose' /\ packed \subseteq packed' /\ fetched \subseteq fetched'
  BY <1>16 DEF StageFails
<1>17. ASSUME Upload(h)
      PROVE  loose \subseteq loose' /\ packed \subseteq packed' /\ fetched \subseteq fetched'
  BY <1>17 DEF Upload, sharedVars, cacheVars
<1>18. ASSUME NEW landed \in BOOLEAN, UploadFails(h, landed)
      PROVE  loose \subseteq loose' /\ packed \subseteq packed' /\ fetched \subseteq fetched'
  BY <1>18 DEF UploadFails, sharedVars, cacheVars
<1>19. ASSUME NEW answer \in {"done", "moved", "failed"}, Land(h, answer)
      PROVE  loose \subseteq loose' /\ packed \subseteq packed' /\ fetched \subseteq fetched'
  BY <1>19 DEF Land, sharedVars, cacheVars
<1>20. ASSUME LoseRace(h)
      PROVE  loose \subseteq loose' /\ packed \subseteq packed' /\ fetched \subseteq fetched'
  BY <1>20 DEF LoseRace, sharedVars, cacheVars
<1>21. ASSUME PushFails(h)
      PROVE  loose \subseteq loose' /\ packed \subseteq packed' /\ fetched \subseteq fetched'
  BY <1>21 DEF PushFails, sharedVars, cacheVars
<1>22. ASSUME Retry(h)
      PROVE  loose \subseteq loose' /\ packed \subseteq packed' /\ fetched \subseteq fetched'
  BY <1>22 DEF Retry, cacheVars
<1>23. ASSUME Record(h)
      PROVE  loose \subseteq loose' /\ packed \subseteq packed' /\ fetched \subseteq fetched'
  BY <1>23 DEF Record, cacheVars
<1>24. ASSUME RecordFails(h)
      PROVE  loose \subseteq loose' /\ packed \subseteq packed' /\ fetched \subseteq fetched'
  BY <1>24 DEF RecordFails, cacheVars
<1>25. ASSUME RecordUnlocked(h)
      PROVE  loose \subseteq loose' /\ packed \subseteq packed' /\ fetched \subseteq fetched'
  BY <1>25 DEF RecordUnlocked, cacheVars
<1>26. ASSUME SealStored(h)
      PROVE  loose \subseteq loose' /\ packed \subseteq packed' /\ fetched \subseteq fetched'
  BY <1>26 DEF SealStored, cacheVars
<1>27. ASSUME KeepStored(h)
      PROVE  loose \subseteq loose' /\ packed \subseteq packed' /\ fetched \subseteq fetched'
  BY <1>27 DEF KeepStored, sharedVars, cacheVars
<1>28. ASSUME DropStored(h)
      PROVE  loose \subseteq loose' /\ packed \subseteq packed' /\ fetched \subseteq fetched'
  BY <1>28, <1>a
<1>29. ASSUME NEW ok \in BOOLEAN, DeleteUpload(h, ok)
      PROVE  loose \subseteq loose' /\ packed \subseteq packed' /\ fetched \subseteq fetched'
  BY <1>29 DEF DeleteUpload, sharedVars, cacheVars
<1>30. ASSUME Crash(h)
      PROVE  loose \subseteq loose' /\ packed \subseteq packed' /\ fetched \subseteq fetched'
  BY <1>30 DEF Crash, cacheVars
<1> QED
  BY <1>1, <1>2, <1>3, <1>4, <1>5, <1>6, <1>7, <1>8, <1>9, <1>10, <1>11, <1>12, <1>13,
       <1>14, <1>15, <1>16, <1>17, <1>18, <1>19, <1>20, <1>21, <1>22, <1>23, <1>24, <1>25,
       <1>26, <1>27, <1>28, <1>29, <1>30 DEF Helps

LEMMA LockStays ==
  ASSUME TypeOK, StagedInv, Landed, LockInv, [Next]_vars
  PROVE  LockInv'
<1>a. tracking <= tracking' /\ tracking \in Nat /\ tracking' \in Nat /\ Len(log') \in Nat
  BY RefsStay, HostStays, HelperType DEF TypeOK, GitOK, Grown
<1>b. ASSUME NEW g \in Helper PROVE proc[g].view \in Nat /\ proc[g].view <= tracking
  <2>1. proc[g].view \in 0..Len(log) /\ Len(log) \in Nat
    BY HelperType, LogType DEF State
  <2>2. proc[g].view <= tracking
    BY DEF LockInv
  <2> QED
    BY <2>1, <2>2
<1>1. ASSUME NEW h \in Helper, Helps(h) PROVE LockInv'
  <2>1. Moves(h)
    BY <1>1, StepMoves
  <2>2. proc'[h].pc \in {"ensure", "index", "drop loose", "drop fetched", "drop stored"} =>
          lock' = h
    <3>1. ASSUME LockFetch(h) \/ SealStored(h) PROVE lock' = h
      BY <3>1 DEF LockFetch, SealStored
    <3>2. ASSUME EnsureBlobs(h) \/ SealLoose(h) \/ DropLoose(h) PROVE lock' = h
      BY <3>2 DEF EnsureBlobs, SealLoose, DropLoose, At, LockInv
    <3>3. ASSUME NEW p \in Pack, IndexPack(h, p) PROVE lock' = h
      BY <3>3 DEF IndexPack, At, LockInv
    <3> QED
      BY <2>1, <3>1, <3>2, <3>3 DEF Moves
  <2>3. \A g \in Helper \ {h} : proc'[g] = proc[g]
    BY <2>1 DEF Moves
  <2>4. \A g \in Helper \ {h} :
          proc'[g].pc \in {"ensure", "index", "drop loose", "drop fetched", "drop stored"} =>
            lock' = g
    BY <1>1, <2>3, LockKept DEF LockInv
  <2>5. \A g \in Helper : proc'[g].view <= tracking'
    <3>1. Connect => tracking' = Len(log)
      BY DEF Connect
    <3>2. proc'[h].view \in {0, proc[h].view} \/ proc'[h].view = tracking'
      BY <2>1, <3>1 DEF Moves
    <3> QED
      BY <1>a, <1>b, <2>3, <3>2
  <2>6. ASSUME NEW g \in Helper \ {h}, proc'[g].pc = "index" PROVE Wanted(g)' \subseteq Here'
    <3>1. proc'[g] = proc[g] /\ Tree(g)' = Tree(g)
      BY <2>3, SameTree
    <3>2. Wanted(g)' = Wanted(g)
      BY <3>1 DEF Wanted
    <3>3. Wanted(g) \subseteq Here /\ lock = g
      BY <2>6, <3>1 DEF LockInv, IndexerHasBlobs, At
    <3>4. Here \subseteq Here'
      BY <1>1, <3>3, BlobsKept DEF Here
    <3> QED
      BY <3>2, <3>3, <3>4
  <2>7. ASSUME proc'[h].pc = "index" PROVE Wanted(h)' \subseteq Here'
    <3>1. Tree(h)' = Tree(h)
      BY <2>1, <2>7, SameTree DEF Moves
    <3>2. CASE EnsureBlobs(h)
      <4>1. Wanted(h)' = Wanted(h)
        <5>1. Went(h, "index")
          BY <3>2, GotoWent DEF EnsureBlobs, Pcs
        <5> QED
          BY <3>1, <5>1 DEF Wanted, Went
      <4>2. CASE Wanted(h) \ Here = {}
        <5>1. UNCHANGED <<loose, packed, fetched>>
          BY <3>2, <4>2 DEF EnsureBlobs
        <5> QED
          BY <4>1, <4>2, <5>1 DEF Here
      <4>3. CASE Wanted(h) \ Here # {}
        <5>1. UNCHANGED <<loose, packed>> /\ fetched' = fetched \cup {Wanted(h) \ Here}
          BY <3>2, <4>3 DEF EnsureBlobs
        <5>2. UNION fetched \subseteq UNION fetched' /\ Wanted(h) \ Here \subseteq UNION fetched'
          BY <5>1
        <5> QED
          BY <4>1, <5>1, <5>2 DEF Here
      <4> QED
        BY <4>2, <4>3
    <3>3. ASSUME NEW p \in Pack, IndexPack(h, p) PROVE Wanted(h)' \subseteq Here'
      <4>1. proc'[h].todo \subseteq proc[h].todo /\ UNCHANGED cacheVars /\ At(h, "index")
        BY <3>3, HelperType DEF IndexPack, State
      <4>2. Wanted(h)' \subseteq Wanted(h)
        BY <3>1, <4>1 DEF Wanted
      <4> QED
        BY <4>1, <4>2 DEF Here, cacheVars, LockInv, IndexerHasBlobs
    <3> QED
      BY <2>1, <2>7, <3>2, <3>3 DEF Moves
  <2> QED
    BY <2>2, <2>4, <2>5, <2>6, <2>7 DEF LockInv, IndexerHasBlobs, At
<1>2. ASSUME UNCHANGED <<proc, lock, cacheVars>> PROVE LockInv'
  <2>1. \A g \in Helper : Wanted(g)' = Wanted(g)
    BY <1>2, SameTree DEF Wanted
  <2>2. Here' = Here
    BY <1>2 DEF Here, cacheVars
  <2>3. IndexerHasBlobs'
    BY <1>2, <2>1, <2>2 DEF LockInv, IndexerHasBlobs, At
  <2>4. \A g \in Helper : proc'[g].view <= tracking'
    BY <1>a, <1>b, <1>2
  <2> QED
    BY <1>2, <2>3, <2>4 DEF LockInv
<1> QED
  BY <1>1, <1>2, Steps DEF OthersStep, Others, vars, sharedVars, cacheVars

-----------------------------------------------------------------------------
\* The theorems.

Inv == TypeOK /\ StagedInv /\ Landed /\ LockInv

LEMMA Start ==
  ASSUME Init
  PROVE  Inv
<1>1. log = <<>> /\ Len(log) = 0 /\ log \in Seq(Commit)
  BY DEF Init
<1>2. \A h \in Helper : proc[h] = Idle
  BY DEF Init
<1>3. /\ Idle.pc = "idle" /\ Idle.staged = Nothing /\ Idle.view = 0
      /\ Idle \in State(0)
  BY IdleType DEF Idle
<1>4. TypeOK
  <2>1. proc \in [Helper -> State(0)]
    BY <1>3 DEF Init
  <2>2. stored \in [Pack -> Seq(Nat)]
    BY DEF Init
  <2> QED
    BY <1>1, <2>1, <2>2, BoundAssumption DEF Init, TypeOK, HostOK, GitOK
<1>5. \A h \in Helper : Staged(h) = {} /\ proc[h].pc = "idle" /\ proc[h].view = 0
  BY <1>2, <1>3 DEF Staged
<1>6. StagedInv
  BY <1>2, <1>3, <1>5 DEF StagedInv
<1>7. Landed /\ IndexerHasBlobs
  BY <1>5 DEF Landed, IndexerHasBlobs, At
<1>8. tracking = 0
  BY DEF Init
<1>9. ASSUME NEW h \in Helper
      PROVE  /\ proc[h].view <= tracking
             /\ proc[h].pc \notin
                  {"ensure", "index", "drop loose", "drop fetched", "drop stored"}
  <2>1. proc[h].view = 0 /\ proc[h].pc = "idle"
    BY <1>5
  <2> QED
    BY <1>8, <2>1
<1>10. LockInv
  BY <1>7, <1>9 DEF LockInv
<1> QED
  BY <1>4, <1>6, <1>7, <1>10 DEF Inv

LEMMA Kept ==
  ASSUME Inv, [Next]_vars
  PROVE  Inv'
BY TypeStays, StagedStays, LandedStays, LockStays DEF Inv

LEMMA Always == Spec => []Inv
<1>1. Init => Inv
  BY Start
<1>2. Inv /\ [Next]_vars => Inv'
  BY Kept
<1> QED
  BY <1>1, <1>2, PTL DEF Spec

(* Type correctness of the blob model, for any number of helpers, packs,   *)
(* part and batch sizes, attempts and faults.                              *)
THEOREM TypeCorrect == Spec => []TypeOK
<1>1. Inv => TypeOK
  BY DEF Inv
<1> QED
  BY <1>1, Always, PTL

(* Whatever the other helpers drop, and whichever of them fail or die, the *)
(* blobs `ensure_blobs` downloaded are there while `fetch_packs` indexes   *)
(* them.                                                                   *)
THEOREM IndexersKeepTheirBlobs == Spec => []IndexerHasBlobs
<1>1. Inv => IndexerHasBlobs
  BY DEF Inv, LockInv
<1> QED
  BY <1>1, Always, PTL

=============================================================================
