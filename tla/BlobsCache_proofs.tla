--------------------------- MODULE BlobsCache_proofs ---------------------------
(***************************************************************************)
(* What the blobs of a clone are kept for: those of a pack go when nobody  *)
(* needs them any more, no sooner and no later, and what is listed can be  *)
(* found whole.                                                            *)
(***************************************************************************)
EXTENDS Blobs_proofs

-----------------------------------------------------------------------------
\* What a step stores, and what it lets go.

\* The blobs a helper stores are of a pack nobody has used.
LEMMA StoreNew ==
  ASSUME TypeOK, NEW h \in Helper, NEW n \in Length, Stage(h, n) \/ StageFails(h, n)
  PROVE  /\ Fresh \in Pack /\ stored[Fresh] = <<>> /\ stored'[Fresh] # <<>>
         /\ \A p \in Pack : p = Fresh => BlobsOf(p)' = Blobs(p, Cut(n))
         /\ loose \subseteq loose' /\ packed \subseteq packed'
         /\ loose' \cup packed' \subseteq loose \cup packed \cup Blobs(Fresh, Cut(n))
         /\ \A b \in Blobs(Fresh, Cut(n)) : b.pack = Fresh
         /\ Stage(h, n) => Blobs(Fresh, Cut(n)) \subseteq loose' \cup packed'
         /\ StageFails(h, n) => Fresh \in spoiled'
         /\ UNCHANGED <<log, uploads, tracking, promised, fetched, have, lock>>
<1>1. /\ Unused # {} /\ stored' = [stored EXCEPT ![Fresh] = Cut(n)]
      /\ UNCHANGED <<log, uploads, tracking, promised, fetched, have, lock>>
  BY DEF Stage, StageFails
<1>2. /\ Fresh \in Pack /\ stored[Fresh] = <<>> /\ stored'[Fresh] # <<>>
      /\ stored'[Fresh] = Cut(n)
  BY <1>1, StageType
<1>3. Cut(n) \in Seq(Nat)
  BY CutType
<1>4. /\ BigBlobs(Fresh, Cut(n)) \subseteq Blobs(Fresh, Cut(n))
      /\ \A b \in Blobs(Fresh, Cut(n)) : b.pack = Fresh
      /\ \A i \in DOMAIN Cut(n) : PartNames(Fresh, Cut(n))[i] \in Blobs(Fresh, Cut(n))
  BY <1>2, <1>3, BlobsType
<1>5. \A p \in Pack : p = Fresh => BlobsOf(p)' = Blobs(p, Cut(n))
  BY <1>2 DEF BlobsOf
<1>6. ASSUME Stage(h, n)
      PROVE  /\ loose \subseteq loose' /\ packed \subseteq packed'
             /\ loose' \cup packed' = loose \cup packed \cup Blobs(Fresh, Cut(n))
  <2>1. /\ loose' = loose \cup (Blobs(Fresh, Cut(n)) \ BigBlobs(Fresh, Cut(n)))
        /\ packed' = packed \cup BigBlobs(Fresh, Cut(n))
    BY <1>6 DEF Stage
  <2> QED
    BY <1>4, <2>1
<1>7. ASSUME StageFails(h, n)
      PROVE  /\ loose \subseteq loose' /\ packed \subseteq packed'
             /\ loose' \cup packed' \subseteq loose \cup packed \cup Blobs(Fresh, Cut(n))
             /\ Fresh \in spoiled'
  <2>1. PICK k \in DOMAIN Cut(n) :
          LET kept == {PartNames(Fresh, Cut(n))[i] : i \in 1..(k - 1)} IN
          /\ loose' = loose \cup (kept \ BigBlobs(Fresh, Cut(n)))
          /\ packed' = packed \cup (kept \cap BigBlobs(Fresh, Cut(n)))
    BY <1>7 DEF StageFails
  <2>2. 1..(k - 1) \subseteq DOMAIN Cut(n)
    BY <1>3
  <2>3. Fresh \in spoiled'
    BY <1>7 DEF StageFails, Fault
  <2> QED
    BY <1>4, <2>1, <2>2, <2>3
<1> QED
  BY <1>1, <1>2, <1>4, <1>5, <1>6, <1>7

\* What the helpers hold after a step.
LEMMA HoldStays ==
  ASSUME TypeOK, StagedInv, [Next]_vars, NEW h \in Helper, Helps(h)
  PROVE  /\ \A g \in Helper \ {h} : /\ proc'[g] = proc[g] /\ Staged(g)' = Staged(g)
                                    /\ StagedBlobs(g)' = StagedBlobs(g)
         /\ \/ Staged(h)' = Staged(h) /\ StagedBlobs(h)' = StagedBlobs(h)
            \/ LetsGo(h) /\ Staged(h)' = {} /\ StagedBlobs(h)' = {}
            \/ \E n \in Length :
                 /\ Stage(h, n) /\ Staged(h) = {}
                 /\ Staged(h)' = {Fresh} /\ StagedBlobs(h)' = Blobs(Fresh, Cut(n))
<1>1. Moves(h)
  BY StepMoves
<1>2. \A g \in Helper \ {h} : proc'[g] = proc[g]
  BY <1>1 DEF Moves
<1>3. \A g \in Helper \ {h} : Staged(g)' = Staged(g) /\ StagedBlobs(g)' = StagedBlobs(g)
  BY <1>2, SamePack
<1>4. CASE proc'[h].staged = proc[h].staged
  BY <1>2, <1>3, <1>4, SamePack
<1>5. CASE LetsGo(h)
  <2>1. Staged(h)' = {}
    BY <1>5 DEF LetsGo, Staged
  <2>2. StagedBlobs(h)' = {}
    BY <2>1 DEF StagedBlobs
  <2> QED
    BY <1>2, <1>3, <1>5, <2>1, <2>2
<1>6. ASSUME NEW n \in Length, Stage(h, n)
      PROVE  Staged(h) = {} /\ Staged(h)' = {Fresh} /\ StagedBlobs(h)' = Blobs(Fresh, Cut(n))
  <2> DEFINE new == [pack |-> Fresh, bases |-> PacksIn(Tree(h)), sent |-> 0]
  <2>1. Fresh \in Pack /\ Staged(h) = {}
    BY <1>6, StoreNew DEF Stage
  <2>2. new \in StagedPack /\ new.pack = Fresh
    BY <2>1, HelperType DEF StagedPack
  <2>3. proc'[h].staged = new
    BY <1>6, HelperType DEF Stage, State
  <2> HIDE DEF new
  <2>4. PICK p \in Pack : p = Fresh
    BY <2>1
  <2>5. Staged(h)' = {p}
    BY <2>2, <2>3, <2>4, HelperAssumption DEF Staged
  <2>6. StagedBlobs(h)' = BlobsOf(p)'
    BY <2>5 DEF StagedBlobs
  <2>7. BlobsOf(p)' = Blobs(p, Cut(n))
    BY <1>6, <2>4, StoreNew
  <2> QED
    BY <2>1, <2>4, <2>5, <2>6, <2>7
<1>7. ASSUME Upload(h) PROVE Staged(h)' = Staged(h) /\ StagedBlobs(h)' = StagedBlobs(h)
  <2>1. PICK to \in {"push", "upload"} :
          proc' = [proc EXCEPT ![h] = [proc[h] EXCEPT !.staged.sent = @ + 1, !.pc = to]]
    BY <1>7 DEF Upload
  <2>2. proc[h].staged \in StagedPack
    BY <1>7, HelperType DEF Upload, At, StagedInv, State
  <2>3. proc'[h].staged = [proc[h].staged EXCEPT !.sent = @ + 1]
    BY <2>1, HelperType DEF State
  <2>4. proc'[h].staged \in StagedPack /\ proc'[h].staged.pack = proc[h].staged.pack
    BY <2>2, <2>3 DEF StagedPack
  <2>5. Staged(h)' = Staged(h)
    BY <2>2, <2>4, HelperAssumption DEF Staged
  <2>6. StagedBlobs(h)' = UNION {BlobsOf(p)' : p \in Staged(h)}
    BY <2>5 DEF StagedBlobs
  <2>7. UNCHANGED stored
    BY <1>7 DEF Upload
  <2> QED
    BY <2>5, <2>6, <2>7 DEF StagedBlobs, BlobsOf
<1> QED
  BY <1>1, <1>2, <1>3, <1>4, <1>5, <1>6, <1>7 DEF Moves

\* What spoiled was, stays so.
LEMMA SpoiledStays ==
  ASSUME [Next]_vars
  PROVE  spoiled \subseteq spoiled'
<1>1. ASSUME NEW h \in Helper, NEW what \in {"fetch", "push", "repack"}, Begin(h, what)
      PROVE  spoiled \subseteq spoiled'
  BY <1>1 DEF Begin, faultVars
<1>2. ASSUME NEW h \in Helper, LockFetch(h) PROVE spoiled \subseteq spoiled'
  BY <1>2 DEF LockFetch, faultVars
<1>3. ASSUME NEW h \in Helper, EnsureBlobs(h) PROVE spoiled \subseteq spoiled'
  BY <1>3 DEF EnsureBlobs, faultVars
<1>4. ASSUME NEW h \in Helper, FetchFails(h) PROVE spoiled \subseteq spoiled'
  BY <1>4 DEF FetchFails, Fault
<1>5. ASSUME NEW h \in Helper, NEW p \in Pack, IndexPack(h, p)
      PROVE  spoiled \subseteq spoiled'
  BY <1>5 DEF IndexPack, faultVars
<1>6. ASSUME NEW h \in Helper, SealLoose(h) PROVE spoiled \subseteq spoiled'
  BY <1>6 DEF SealLoose, faultVars, Fine, Fault, SealFails
<1>7. ASSUME NEW h \in Helper, DropLoose(h) PROVE spoiled \subseteq spoiled'
  BY <1>7 DEF DropLoose, faultVars
<1>8. ASSUME NEW h \in Helper, DropFetchedBlobs(h) PROVE spoiled \subseteq spoiled'
  BY <1>8 DEF DropFetchedBlobs, faultVars, Fine, Fault
<1>9. ASSUME NEW h \in Helper, Attempt(h) PROVE spoiled \subseteq spoiled'
  BY <1>9 DEF Attempt, faultVars
<1>10. ASSUME NEW h \in Helper, GiveUp(h) PROVE spoiled \subseteq spoiled'
  BY <1>10 DEF GiveUp, faultVars
<1>11. ASSUME NEW h \in Helper, BuildFails(h) PROVE spoiled \subseteq spoiled'
  BY <1>11 DEF BuildFails, Fault
<1>12. ASSUME NEW h \in Helper, Reuse(h) PROVE spoiled \subseteq spoiled'
  BY <1>12 DEF Reuse, faultVars
<1>13. ASSUME NEW h \in Helper, Rebuild(h) PROVE spoiled \subseteq spoiled'
  BY <1>13 DEF Rebuild, faultVars
<1>14. ASSUME NEW h \in Helper, BuildNothing(h) PROVE spoiled \subseteq spoiled'
  BY <1>14 DEF BuildNothing, faultVars
<1>15. ASSUME NEW h \in Helper, NEW n \in Length, Stage(h, n)
      PROVE  spoiled \subseteq spoiled'
  BY <1>15 DEF Stage, faultVars
<1>16. ASSUME NEW h \in Helper, NEW n \in Length, StageFails(h, n)
      PROVE  spoiled \subseteq spoiled'
  BY <1>16 DEF StageFails, Fault
<1>17. ASSUME NEW h \in Helper, Upload(h) PROVE spoiled \subseteq spoiled'
  BY <1>17 DEF Upload, faultVars
<1>18. ASSUME NEW h \in Helper, NEW landed \in BOOLEAN, UploadFails(h, landed)
      PROVE  spoiled \subseteq spoiled'
  BY <1>18 DEF UploadFails, Fault
<1>19. ASSUME NEW h \in Helper, NEW answer \in {"done", "moved", "failed"}, Land(h, answer)
      PROVE  spoiled \subseteq spoiled'
  BY <1>19 DEF Land, faultVars, Fine, Fault
<1>20. ASSUME NEW h \in Helper, LoseRace(h) PROVE spoiled \subseteq spoiled'
  BY <1>20 DEF LoseRace, faultVars
<1>21. ASSUME NEW h \in Helper, PushFails(h) PROVE spoiled \subseteq spoiled'
  BY <1>21 DEF PushFails, faultVars, Fine, Fault
<1>22. ASSUME NEW h \in Helper, Retry(h) PROVE spoiled \subseteq spoiled'
  BY <1>22 DEF Retry, faultVars
<1>23. ASSUME NEW h \in Helper, Record(h) PROVE spoiled \subseteq spoiled'
  BY <1>23 DEF Record, faultVars, Fine, Fault, SealFails
<1>24. ASSUME NEW h \in Helper, RecordFails(h) PROVE spoiled \subseteq spoiled'
  BY <1>24 DEF RecordFails, Fault
<1>25. ASSUME NEW h \in Helper, RecordUnlocked(h) PROVE spoiled \subseteq spoiled'
  BY <1>25 DEF RecordUnlocked, Fault
<1>26. ASSUME NEW h \in Helper, SealStored(h) PROVE spoiled \subseteq spoiled'
  BY <1>26 DEF SealStored, faultVars
<1>27. ASSUME NEW h \in Helper, KeepStored(h) PROVE spoiled \subseteq spoiled'
  BY <1>27 DEF KeepStored, SealFails, Fault
<1>28. ASSUME NEW h \in Helper, DropStored(h) PROVE spoiled \subseteq spoiled'
  BY <1>28 DEF DropStored, faultVars, Fine, Fault
<1>29. ASSUME NEW h \in Helper, NEW ok \in BOOLEAN, DeleteUpload(h, ok)
      PROVE  spoiled \subseteq spoiled'
  BY <1>29 DEF DeleteUpload, faultVars, Fine, Fault
<1>30. ASSUME NEW h \in Helper, Crash(h) PROVE spoiled \subseteq spoiled'
  BY <1>30 DEF Crash, Fault
<1>31. ASSUME NEW n \in OthersLength, NEW base \in {{}, TreeAt(Len(log))}, Others(n, base)
      PROVE  spoiled \subseteq spoiled'
  BY <1>31 DEF Others, faultVars
<1>32. ASSUME UNCHANGED vars PROVE spoiled \subseteq spoiled'
  BY <1>32 DEF vars, faultVars
<1> QED
  BY <1>1, <1>2, <1>3, <1>4, <1>5, <1>6, <1>7, <1>8, <1>9, <1>10, <1>11, <1>12, <1>13,
       <1>14, <1>15, <1>16, <1>17, <1>18, <1>19, <1>20, <1>21, <1>22, <1>23, <1>24, <1>25,
       <1>26, <1>27, <1>28, <1>29, <1>30, <1>31, <1>32 DEF Next, Helps

-----------------------------------------------------------------------------
\* Staging branches.

LEMMA UploadCounts ==
  ASSUME TypeOK, StagedInv, NEW h \in Helper, Upload(h)
  PROVE  /\ proc[h].staged.sent \in Nat /\ proc'[h].staged.sent = proc[h].staged.sent + 1
         /\ uploads' = uploads \cup Staged(h) /\ Staged(h)' = Staged(h)
<1>1. PICK to \in {"push", "upload"} :
        proc' = [proc EXCEPT ![h] = [proc[h] EXCEPT !.staged.sent = @ + 1, !.pc = to]]
  BY DEF Upload
<1>2. proc[h].staged \in StagedPack
  BY HelperType DEF Upload, At, StagedInv, State
<1>3. proc'[h].staged = [proc[h].staged EXCEPT !.sent = @ + 1]
  BY <1>1, HelperType DEF State
<1>4. proc'[h].staged \in StagedPack /\ proc'[h].staged.pack = proc[h].staged.pack
  BY <1>2, <1>3 DEF StagedPack
<1>5. Staged(h)' = Staged(h)
  BY <1>2, <1>4, HelperAssumption DEF Staged
<1> QED
  BY <1>2, <1>3, <1>5 DEF StagedPack, Upload

LEMMA UploadMoves ==
  ASSUME NEW h \in Helper, Helps(h)
  PROVE  UNCHANGED uploads \/ Upload(h) \/ (\E heard \in BOOLEAN : UploadFails(h, heard))
           \/ \E gone \in BOOLEAN : DeleteUpload(h, gone)
<1>1. ASSUME NEW what \in {"fetch", "push", "repack"}, Begin(h, what)
      PROVE  UNCHANGED uploads \/ Upload(h) \/ (\E heard \in BOOLEAN : UploadFails(h, heard))
               \/ \E gone \in BOOLEAN : DeleteUpload(h, gone)
  BY <1>1 DEF Begin, hostVars
<1>2. ASSUME LockFetch(h)
      PROVE  UNCHANGED uploads \/ Upload(h) \/ (\E heard \in BOOLEAN : UploadFails(h, heard))
               \/ \E gone \in BOOLEAN : DeleteUpload(h, gone)
  BY <1>2 DEF LockFetch, hostVars
<1>3. ASSUME EnsureBlobs(h)
      PROVE  UNCHANGED uploads \/ Upload(h) \/ (\E heard \in BOOLEAN : UploadFails(h, heard))
               \/ \E gone \in BOOLEAN : DeleteUpload(h, gone)
  BY <1>3 DEF EnsureBlobs, hostVars
<1>4. ASSUME FetchFails(h)
      PROVE  UNCHANGED uploads \/ Upload(h) \/ (\E heard \in BOOLEAN : UploadFails(h, heard))
               \/ \E gone \in BOOLEAN : DeleteUpload(h, gone)
  BY <1>4 DEF FetchFails, hostVars
<1>5. ASSUME NEW p \in Pack, IndexPack(h, p)
      PROVE  UNCHANGED uploads \/ Upload(h) \/ (\E heard \in BOOLEAN : UploadFails(h, heard))
               \/ \E gone \in BOOLEAN : DeleteUpload(h, gone)
  BY <1>5 DEF IndexPack, hostVars
<1>6. ASSUME SealLoose(h)
      PROVE  UNCHANGED uploads \/ Upload(h) \/ (\E heard \in BOOLEAN : UploadFails(h, heard))
               \/ \E gone \in BOOLEAN : DeleteUpload(h, gone)
  BY <1>6 DEF SealLoose, hostVars
<1>7. ASSUME DropLoose(h)
      PROVE  UNCHANGED uploads \/ Upload(h) \/ (\E heard \in BOOLEAN : UploadFails(h, heard))
               \/ \E gone \in BOOLEAN : DeleteUpload(h, gone)
  BY <1>7 DEF DropLoose, hostVars
<1>8. ASSUME DropFetchedBlobs(h)
      PROVE  UNCHANGED uploads \/ Upload(h) \/ (\E heard \in BOOLEAN : UploadFails(h, heard))
               \/ \E gone \in BOOLEAN : DeleteUpload(h, gone)
  BY <1>8 DEF DropFetchedBlobs, hostVars
<1>9. ASSUME Attempt(h)
      PROVE  UNCHANGED uploads \/ Upload(h) \/ (\E heard \in BOOLEAN : UploadFails(h, heard))
               \/ \E gone \in BOOLEAN : DeleteUpload(h, gone)
  BY <1>9 DEF Attempt, hostVars
<1>10. ASSUME GiveUp(h)
      PROVE  UNCHANGED uploads \/ Upload(h) \/ (\E heard \in BOOLEAN : UploadFails(h, heard))
               \/ \E gone \in BOOLEAN : DeleteUpload(h, gone)
  BY <1>10 DEF GiveUp, hostVars
<1>11. ASSUME BuildFails(h)
      PROVE  UNCHANGED uploads \/ Upload(h) \/ (\E heard \in BOOLEAN : UploadFails(h, heard))
               \/ \E gone \in BOOLEAN : DeleteUpload(h, gone)
  BY <1>11 DEF BuildFails, hostVars
<1>12. ASSUME Reuse(h)
      PROVE  UNCHANGED uploads \/ Upload(h) \/ (\E heard \in BOOLEAN : UploadFails(h, heard))
               \/ \E gone \in BOOLEAN : DeleteUpload(h, gone)
  BY <1>12 DEF Reuse, hostVars
<1>13. ASSUME Rebuild(h)
      PROVE  UNCHANGED uploads \/ Upload(h) \/ (\E heard \in BOOLEAN : UploadFails(h, heard))
               \/ \E gone \in BOOLEAN : DeleteUpload(h, gone)
  BY <1>13 DEF Rebuild, hostVars
<1>14. ASSUME BuildNothing(h)
      PROVE  UNCHANGED uploads \/ Upload(h) \/ (\E heard \in BOOLEAN : UploadFails(h, heard))
               \/ \E gone \in BOOLEAN : DeleteUpload(h, gone)
  BY <1>14 DEF BuildNothing, hostVars
<1>15. ASSUME NEW n \in Length, Stage(h, n)
      PROVE  UNCHANGED uploads \/ Upload(h) \/ (\E heard \in BOOLEAN : UploadFails(h, heard))
               \/ \E gone \in BOOLEAN : DeleteUpload(h, gone)
  BY <1>15 DEF Stage
<1>16. ASSUME NEW n \in Length, StageFails(h, n)
      PROVE  UNCHANGED uploads \/ Upload(h) \/ (\E heard \in BOOLEAN : UploadFails(h, heard))
               \/ \E gone \in BOOLEAN : DeleteUpload(h, gone)
  BY <1>16 DEF StageFails
<1>17. ASSUME Upload(h)
      PROVE  UNCHANGED uploads \/ Upload(h) \/ (\E heard \in BOOLEAN : UploadFails(h, heard))
               \/ \E gone \in BOOLEAN : DeleteUpload(h, gone)
  BY <1>17
<1>18. ASSUME NEW landed \in BOOLEAN, UploadFails(h, landed)
      PROVE  UNCHANGED uploads \/ Upload(h) \/ (\E heard \in BOOLEAN : UploadFails(h, heard))
               \/ \E gone \in BOOLEAN : DeleteUpload(h, gone)
  BY <1>18
<1>19. ASSUME NEW answer \in {"done", "moved", "failed"}, Land(h, answer)
      PROVE  UNCHANGED uploads \/ Upload(h) \/ (\E heard \in BOOLEAN : UploadFails(h, heard))
               \/ \E gone \in BOOLEAN : DeleteUpload(h, gone)
  BY <1>19 DEF Land
<1>20. ASSUME LoseRace(h)
      PROVE  UNCHANGED uploads \/ Upload(h) \/ (\E heard \in BOOLEAN : UploadFails(h, heard))
               \/ \E gone \in BOOLEAN : DeleteUpload(h, gone)
  BY <1>20 DEF LoseRace, hostVars
<1>21. ASSUME PushFails(h)
      PROVE  UNCHANGED uploads \/ Upload(h) \/ (\E heard \in BOOLEAN : UploadFails(h, heard))
               \/ \E gone \in BOOLEAN : DeleteUpload(h, gone)
  BY <1>21 DEF PushFails, hostVars
<1>22. ASSUME Retry(h)
      PROVE  UNCHANGED uploads \/ Upload(h) \/ (\E heard \in BOOLEAN : UploadFails(h, heard))
               \/ \E gone \in BOOLEAN : DeleteUpload(h, gone)
  BY <1>22 DEF Retry, hostVars
<1>23. ASSUME Record(h)
      PROVE  UNCHANGED uploads \/ Upload(h) \/ (\E heard \in BOOLEAN : UploadFails(h, heard))
               \/ \E gone \in BOOLEAN : DeleteUpload(h, gone)
  BY <1>23 DEF Record, hostVars
<1>24. ASSUME RecordFails(h)
      PROVE  UNCHANGED uploads \/ Upload(h) \/ (\E heard \in BOOLEAN : UploadFails(h, heard))
               \/ \E gone \in BOOLEAN : DeleteUpload(h, gone)
  BY <1>24 DEF RecordFails, hostVars
<1>25. ASSUME RecordUnlocked(h)
      PROVE  UNCHANGED uploads \/ Upload(h) \/ (\E heard \in BOOLEAN : UploadFails(h, heard))
               \/ \E gone \in BOOLEAN : DeleteUpload(h, gone)
  BY <1>25 DEF RecordUnlocked, hostVars
<1>26. ASSUME SealStored(h)
      PROVE  UNCHANGED uploads \/ Upload(h) \/ (\E heard \in BOOLEAN : UploadFails(h, heard))
               \/ \E gone \in BOOLEAN : DeleteUpload(h, gone)
  BY <1>26 DEF SealStored, hostVars
<1>27. ASSUME KeepStored(h)
      PROVE  UNCHANGED uploads \/ Upload(h) \/ (\E heard \in BOOLEAN : UploadFails(h, heard))
               \/ \E gone \in BOOLEAN : DeleteUpload(h, gone)
  BY <1>27 DEF KeepStored, hostVars
<1>28. ASSUME DropStored(h)
      PROVE  UNCHANGED uploads \/ Upload(h) \/ (\E heard \in BOOLEAN : UploadFails(h, heard))
               \/ \E gone \in BOOLEAN : DeleteUpload(h, gone)
  BY <1>28 DEF DropStored, hostVars
<1>29. ASSUME NEW ok \in BOOLEAN, DeleteUpload(h, ok)
      PROVE  UNCHANGED uploads \/ Upload(h) \/ (\E heard \in BOOLEAN : UploadFails(h, heard))
               \/ \E gone \in BOOLEAN : DeleteUpload(h, gone)
  BY <1>29
<1>30. ASSUME Crash(h)
      PROVE  UNCHANGED uploads \/ Upload(h) \/ (\E heard \in BOOLEAN : UploadFails(h, heard))
               \/ \E gone \in BOOLEAN : DeleteUpload(h, gone)
  BY <1>30 DEF Crash, hostVars
<1> QED
  BY <1>1, <1>2, <1>3, <1>4, <1>5, <1>6, <1>7, <1>8, <1>9, <1>10, <1>11, <1>12, <1>13,
       <1>14, <1>15, <1>16, <1>17, <1>18, <1>19, <1>20, <1>21, <1>22, <1>23, <1>24, <1>25,
       <1>26, <1>27, <1>28, <1>29, <1>30 DEF Helps

LEMMA UploadsStay ==
  ASSUME TypeOK, StagedInv, UploadsOwned, [Next]_vars
  PROVE  UploadsOwned'
<1>1. ASSUME NEW h \in Helper, Helps(h) PROVE UploadsOwned'
  <2>1. Moves(h) /\ \A g \in Helper \ {h} : proc'[g] = proc[g]
    BY <1>1, StepMoves DEF Moves
  <2>2. spoiled \subseteq spoiled'
    BY SpoiledStays
  <2> SUFFICES ASSUME NEW p \in uploads', p \notin spoiled'
               PROVE  \E g \in Helper : p \in Staged(g)' /\ proc'[g].staged.sent > 0
    BY DEF UploadsOwned
  <2>3. CASE p \in uploads
    <3>1. PICK g \in Helper : p \in Staged(g) /\ proc[g].staged.sent > 0
      BY <2>2, <2>3 DEF UploadsOwned
    <3>2. CASE proc'[g].staged = proc[g].staged
      BY <3>1, <3>2 DEF Staged
    <3>3. CASE g = h /\ Upload(h)
      BY <1>1, <3>1, <3>3, UploadCounts
    <3>4. ASSUME g = h, NEW ok \in BOOLEAN, DeleteUpload(h, ok) PROVE FALSE
      BY <3>1, <3>4 DEF DeleteUpload, Fault
    <3>5. ~ (g = h /\ LetsGo(h))
      BY <3>1, <3>4 DEF LetsGo
    <3>6. ASSUME g = h, NEW n \in Length, Stage(h, n) PROVE FALSE
      BY <3>1, <3>6 DEF Stage
    <3> QED
      BY <2>1, <3>2, <3>3, <3>5, <3>6 DEF Moves
  <2>4. CASE p \notin uploads
    <3>1. CASE Upload(h)
      BY <1>1, <2>4, <3>1, UploadCounts
    <3>2. ASSUME NEW landed \in BOOLEAN, UploadFails(h, landed)
          PROVE  p \in Staged(h)' /\ proc'[h].staged.sent > 0
      <4>1. /\ p \in Staged(h) /\ landed /\ DiscardThen(h, "idle")
            /\ Fault(IF landed /\ proc[h].staged.sent = 0 THEN Staged(h) ELSE {})
        BY <2>4, <3>2 DEF UploadFails
      <4>2. proc[h].staged.sent # 0
        BY <4>1 DEF Fault
      <4>3. proc[h].staged \in StagedPack
        BY <4>1, HelperType DEF Staged, State
      <4>4. proc'[h].staged = proc[h].staged
        BY <4>1, DiscardWent DEF Staged, Went
      <4> QED
        BY <4>1, <4>2, <4>3, <4>4 DEF Staged, StagedPack
    <3>3. ASSUME NEW ok \in BOOLEAN, DeleteUpload(h, ok) PROVE FALSE
      BY <2>4, <3>3 DEF DeleteUpload
    <3> QED
      BY <1>1, <2>4, <3>1, <3>2, <3>3, UploadMoves
  <2> QED
    BY <2>3, <2>4
<1>2. ASSUME UNCHANGED <<uploads, proc, spoiled>> PROVE UploadsOwned'
  BY <1>2 DEF UploadsOwned, Staged
<1> QED
  BY <1>1, <1>2, Steps DEF OthersStep, Others, vars, hostVars, faultVars

-----------------------------------------------------------------------------
\* The blobs of a pack stay together.

\* A set of blobs that are what their packs were cut into, with their whole packs.
Cuts(S) == \A b \in S : b \in BlobsOf(b.pack)
Complete(S) == \A b \in S : b \in BlobsOf(b.pack) /\ BlobsOf(b.pack) \subseteq S

WholeInv ==
  /\ \A v \in DOMAIN log : Complete(log[v].tree)
  /\ Cuts(loose \cup packed \cup UNION fetched)

LEMMA BlobsStay ==
  ASSUME TypeOK, [Next]_vars, NEW b \in Blob, b \in BlobsOf(b.pack)
  PROVE  BlobsOf(b.pack)' = BlobsOf(b.pack)
<1>1. b.pack \in Pack
  BY DEF Blob
<1>2. stored[b.pack] # <<>>
  BY <1>1, BlobsType, LogType DEF BlobsOf
<1> QED
  BY <1>1, <1>2, SameBlobs

LEMMA CutsStay ==
  ASSUME TypeOK, [Next]_vars, NEW S \in SUBSET Blob
  PROVE  /\ Cuts(S) => \A b \in S : b \in BlobsOf(b.pack)'
         /\ Complete(S) => \A b \in S : b \in BlobsOf(b.pack)' /\ BlobsOf(b.pack)' \subseteq S
<1>1. \A b \in S : b \in BlobsOf(b.pack) => BlobsOf(b.pack)' = BlobsOf(b.pack)
  BY BlobsStay
<1> QED
  BY <1>1 DEF Cuts, Complete

LEMMA TreeComplete ==
  ASSUME TypeOK, WholeInv, NEW v \in 0..Len(log)
  PROVE  TreeAt(v) \in SUBSET Blob /\ Complete(TreeAt(v))
<1>1. v # 0 => v \in DOMAIN log
  BY LogType
<1>2. v # 0 => Complete(log[v].tree)
  BY <1>1 DEF WholeInv
<1>3. Complete(TreeAt(v))
  BY <1>2 DEF TreeAt, Complete
<1> QED
  BY <1>3, TreeType

LEMMA StagedComplete ==
  ASSUME TypeOK, NEW h \in Helper
  PROVE  /\ Complete(StagedBlobs(h)) /\ \A b \in StagedBlobs(h) : b.pack \in Staged(h)
         /\ \A b \in Blob : b \in BlobsOf(b.pack) /\ b.pack \in Staged(h) => b \in StagedBlobs(h)
<1>1. \A p \in Staged(h) : p \in Pack /\ stored[p] \in Seq(Nat)
  BY HelperType
<1>2. \A p \in Staged(h) : \A b \in BlobsOf(p) : b.pack = p
  BY <1>1, BlobsType DEF BlobsOf
<1> QED
  BY <1>2 DEF StagedBlobs, Complete

LEMMA WholeStays ==
  ASSUME TypeOK, StagedInv, WholeInv, [Next]_vars
  PROVE  WholeInv'
<1>a. /\ loose \subseteq Blob /\ packed \subseteq Blob /\ UNION fetched \subseteq Blob
      /\ \A v \in DOMAIN log : log[v].tree \in SUBSET Blob
  BY LogType DEF TypeOK, GitOK, Commit
<1>b. \A b \in loose \cup packed \cup UNION fetched : b \in BlobsOf(b.pack)'
  BY <1>a, CutsStay DEF WholeInv
<1>c. \A v \in DOMAIN log : \A b \in log[v].tree :
        b \in BlobsOf(b.pack)' /\ BlobsOf(b.pack)' \subseteq log[v].tree
  BY <1>a, CutsStay DEF WholeInv
<1>1. ASSUME NEW T, \A b \in T : b \in BlobsOf(b.pack)' /\ BlobsOf(b.pack)' \subseteq T,
             NEW own, [tree |-> T, ours |-> own] \in Commit,
             log' = Append(log, [tree |-> T, ours |-> own])
      PROVE  \A v \in DOMAIN log' : Complete(log[v].tree)'
  <2>1. /\ DOMAIN log' = DOMAIN log \cup {Len(log')} /\ log'[Len(log')].tree = T
        /\ \A v \in DOMAIN log : log'[v] = log[v]
    BY <1>1, AppendType
  <2> QED
    BY <1>c, <1>1, <2>1 DEF Complete
<1>2. \A v \in DOMAIN log' : Complete(log[v].tree)'
  <2>1. CASE UNCHANGED log
    BY <1>c, <2>1 DEF Complete
  <2>2. ASSUME NEW h \in Helper, NEW answer \in {"done", "moved", "failed"}, Land(h, answer)
        PROVE  \A v \in DOMAIN log' : Complete(log[v].tree)'
    <3>1. PICK base \in {{}, Tree(h)} :
             /\ [tree |-> base \cup StagedBlobs(h), ours |-> TRUE] \in Commit
             /\ log' = Append(log, [tree |-> base \cup StagedBlobs(h), ours |-> TRUE])
      BY <2>2, LandType
    <3>2. Tree(h) \in SUBSET Blob /\ Complete(Tree(h)) /\ StagedBlobs(h) \in SUBSET Blob
      BY TreeComplete, HelperType DEF Tree, State
    <3>3. /\ \A b \in Tree(h) : b \in BlobsOf(b.pack)' /\ BlobsOf(b.pack)' \subseteq Tree(h)
          /\ \A b \in StagedBlobs(h) :
               b \in BlobsOf(b.pack)' /\ BlobsOf(b.pack)' \subseteq StagedBlobs(h)
      BY <3>2, CutsStay, StagedComplete
    <3> DEFINE T == base \cup StagedBlobs(h)
    <3>4. \A b \in T : b \in BlobsOf(b.pack)' /\ BlobsOf(b.pack)' \subseteq T
      BY <3>3
    <3> HIDE DEF T
    <3> QED
      BY <1>1, <3>1, <3>4 DEF T
  <2>3. ASSUME OthersStep PROVE \A v \in DOMAIN log' : Complete(log[v].tree)'
    <3>1. PICK n \in OthersLength, base \in {{}, TreeAt(Len(log))} : Others(n, base)
      BY <2>3 DEF OthersStep
    <3>2. n \in Length /\ Cut(n) \in Seq(Nat) /\ Len(log) \in 0..Len(log)
      BY CutType, SizeAssumption, LogType
    <3>3. /\ Unused # {} /\ stored' = [stored EXCEPT ![Fresh] = Cut(n)]
          /\ log' = Append(log, [tree |-> base \cup Blobs(Fresh, Cut(n)), ours |-> FALSE])
      BY <3>1 DEF Others
    <3>4. PICK p \in Pack : p = Fresh /\ stored'[p] = Cut(n)
      BY <3>2, <3>3, StageType
    <3>5. BlobsOf(p)' = Blobs(p, Cut(n)) /\ \A b \in Blobs(p, Cut(n)) : b.pack = p
      BY <3>2, <3>4, BlobsType DEF BlobsOf
    <3>6. TreeAt(Len(log)) \in SUBSET Blob /\ Complete(TreeAt(Len(log)))
      BY <3>2, TreeComplete
    <3>7. \A b \in base : b \in BlobsOf(b.pack)' /\ BlobsOf(b.pack)' \subseteq base
      BY <3>6, CutsStay
    <3> DEFINE T == base \cup Blobs(p, Cut(n))
    <3>8. \A b \in T : b \in BlobsOf(b.pack)' /\ BlobsOf(b.pack)' \subseteq T
      BY <3>5, <3>7
    <3>9. T \in SUBSET Blob
      BY <3>2, <3>6, BlobsType
    <3>10. log' = Append(log, [tree |-> T, ours |-> FALSE])
      BY <3>3, <3>4
    <3> HIDE DEF T
    <3> QED
      BY <1>1, <3>8, <3>9, <3>10 DEF Commit
  <2>4. ASSUME NEW h \in Helper, HostStep(h)
        PROVE  UNCHANGED log \/ \E answer \in {"done", "moved", "failed"} : Land(h, answer)
    BY <2>4 DEF HostStep, Stage, StageFails, Upload, UploadFails, DeleteUpload
  <2> QED
    BY <2>1, <2>2, <2>3, <2>4, Frames DEF Frame, hostVars
<1>3. \A b \in loose' \cup packed' \cup UNION fetched' : b \in BlobsOf(b.pack)'
  <2>1. ASSUME loose' \subseteq loose, packed' \subseteq packed, fetched' \subseteq fetched
        PROVE  \A b \in loose' \cup packed' \cup UNION fetched' : b \in BlobsOf(b.pack)'
    BY <1>b, <2>1
  <2>2. ASSUME NEW h \in Helper, EnsureBlobs(h)
        PROVE  \A b \in loose' \cup packed' \cup UNION fetched' : b \in BlobsOf(b.pack)'
    <3>1. Tree(h) \in SUBSET Blob /\ Complete(Tree(h))
      BY TreeComplete, HelperType DEF Tree, State
    <3>2. \A b \in Tree(h) : b \in BlobsOf(b.pack)'
      BY <3>1, CutsStay
    <3>3. Wanted(h) \subseteq Tree(h)
      BY DEF Wanted, Find
    <3>4. UNCHANGED <<loose, packed>> /\ fetched' \in {fetched, fetched \cup {Wanted(h) \ Here}}
      BY <2>2 DEF EnsureBlobs
    <3> QED
      BY <1>b, <3>2, <3>3, <3>4
  <2>3. ASSUME NEW h \in Helper, NEW n \in Length, Stage(h, n) \/ StageFails(h, n)
        PROVE  \A b \in loose' \cup packed' \cup UNION fetched' : b \in BlobsOf(b.pack)'
    <3>1. PICK p \in Pack : p = Fresh
      BY <2>3, StoreNew
    <3>2. /\ BlobsOf(p)' = Blobs(p, Cut(n)) /\ \A b \in Blobs(p, Cut(n)) : b.pack = p
          /\ loose' \cup packed' \subseteq loose \cup packed \cup Blobs(p, Cut(n))
          /\ UNCHANGED fetched
      BY <2>3, <3>1, StoreNew
    <3> QED
      BY <1>b, <3>2
  <2>4. ASSUME NEW h \in Helper, DropLoose(h) \/ DropFetchedBlobs(h) \/ DropStored(h)
        PROVE  loose' \subseteq loose /\ packed' \subseteq packed /\ fetched' \subseteq fetched
    BY <2>4 DEF DropLoose, DropFetchedBlobs, DropStored
  <2> QED
    BY <2>1, <2>2, <2>3, <2>4, Frames DEF Frame, CacheStep, cacheVars
<1> QED
  BY <1>2, <1>3 DEF WholeInv, Cuts

\* The pack in a tree is found by its names.
LEMMA FindsWhole ==
  ASSUME TypeOK, NEW S \in SUBSET Blob, Complete(S), NEW p \in PacksIn(S)
  PROVE  Find(S, p) = BlobsOf(p)
<1> DEFINE sizes == stored[p]
<1>1. PICK first \in S : first.pack = p
  BY DEF PacksIn
<1>2. p \in Pack
  BY <1>1 DEF Blob
<1>3. sizes \in Seq(Nat)
  BY <1>2, LogType
<1>4. DOMAIN sizes = 1..Len(sizes) /\ Len(sizes) \in Nat
  BY <1>3
<1>5. /\ BlobsOf(p) \subseteq S /\ BlobsOf(p) # {}
      /\ \A b \in S : b.pack = p => b \in BlobsOf(p)
  BY <1>1 DEF Complete
<1>6. BlobsOf(p) = {PartNames(p, sizes)[i] : i \in DOMAIN sizes}
  BY DEF BlobsOf, Blobs
<1> HIDE DEF sizes
<1>7. CASE Len(sizes) = 1
  <2>1. DOMAIN sizes = {1}
    BY <1>4, <1>7
  <2>2. PartNames(p, sizes)[1] = PartName(p, Whole)
    BY <1>7 DEF PartNames
  <2>3. BlobsOf(p) = {PartName(p, Whole)}
    BY <1>6, <2>1, <2>2
  <2> QED
    BY <1>5, <2>3 DEF Find
<1>8. CASE Len(sizes) # 1
  <2>1. \A i \in DOMAIN sizes : PartNames(p, sizes)[i] = PartName(p, i - 1)
    BY <1>8 DEF PartNames
  <2>2. BlobsOf(p) = {PartName(p, i - 1) : i \in DOMAIN sizes}
    BY <1>6, <2>1
  <2>3. \A i \in DOMAIN sizes : PartName(p, i - 1).part = i - 1 /\ PartName(p, i - 1).pack = p
    BY DEF PartName
  <2>4. PartName(p, Whole) \notin S
    <3>1. PartName(p, Whole).pack = p /\ PartName(p, Whole).part = -1
      BY DEF PartName, Whole
    <3>2. \A i \in DOMAIN sizes : PartName(p, i - 1).part # -1
      BY <1>4, <2>3
    <3> QED
      BY <1>5, <2>2, <3>1, <3>2
  <2>5. Find(S, p) = {b \in S : b.pack = p /\ \A n \in 0..b.part : PartName(p, n) \in S}
    BY <2>4 DEF Find
  <2>6. Find(S, p) \subseteq BlobsOf(p)
    BY <1>5, <2>5
  <2>7. ASSUME NEW i \in DOMAIN sizes
        PROVE  PartName(p, i - 1) \in Find(S, p)
    <3>1. \A n \in 0..(i - 1) : n + 1 \in DOMAIN sizes /\ (n + 1) - 1 = n
      BY <1>4
    <3>2. \A n \in 0..(i - 1) : PartName(p, n) \in S
      BY <1>5, <2>2, <3>1
    <3>3. PartName(p, i - 1) \in S
      BY <1>5, <2>2
    <3> QED
      BY <2>3, <2>5, <3>2, <3>3
  <2> QED
    BY <2>2, <2>6, <2>7
<1> QED
  BY <1>7, <1>8

LEMMA ListedWhole ==
  ASSUME TypeOK, WholeInv
  PROVE  ListedPacksWhole
<1>1. Len(log) \in 0..Len(log)
  BY LogType
<1> QED
  BY <1>1, TreeComplete, FindsWhole DEF ListedPacksWhole

-----------------------------------------------------------------------------
\* Whom the blobs in the repository belong to.

\* The download s is of what h fetches.
Fetches(h, s) ==
  lock = h /\ proc[h].pc \in {"index", "drop loose", "drop fetched"} /\ s \subseteq Tree(h)

(* A stored blob is of a pack somebody holds, one who deletes its upload   *)
(* has dropped its blobs, and a download is of the tree its helper is      *)
(* still busy with; or a step failed that handled it.                      *)
OwnedInv ==
  /\ PacksIn(loose \cup packed) \subseteq spoiled \cup (UNION {Staged(h) : h \in Helper})
  /\ \A h \in Helper :
       At(h, "delete upload") => Staged(h) \cap PacksIn(loose \cup packed) \subseteq spoiled
  /\ \A s \in fetched : PacksIn(s) \subseteq spoiled \/ \E h \in Helper : Fetches(h, s)

LEMMA CacheMoves ==
  ASSUME NEW h \in Helper, Helps(h)
  PROVE  \/ loose' \subseteq loose /\ packed' \subseteq packed /\ fetched' \subseteq fetched
         \/ EnsureBlobs(h) \/ \E m \in Length : Stage(h, m) \/ StageFails(h, m)
<1>1. ASSUME NEW what \in {"fetch", "push", "repack"}, Begin(h, what)
      PROVE  \/ loose' \subseteq loose /\ packed' \subseteq packed /\ fetched' \subseteq fetched
             \/ EnsureBlobs(h) \/ \E m \in Length : Stage(h, m) \/ StageFails(h, m)
  BY <1>1 DEF Begin, cacheVars
<1>2. ASSUME LockFetch(h)
      PROVE  \/ loose' \subseteq loose /\ packed' \subseteq packed /\ fetched' \subseteq fetched
             \/ EnsureBlobs(h) \/ \E m \in Length : Stage(h, m) \/ StageFails(h, m)
  BY <1>2 DEF LockFetch, cacheVars
<1>3. ASSUME EnsureBlobs(h)
      PROVE  \/ loose' \subseteq loose /\ packed' \subseteq packed /\ fetched' \subseteq fetched
             \/ EnsureBlobs(h) \/ \E m \in Length : Stage(h, m) \/ StageFails(h, m)
  BY <1>3
<1>4. ASSUME FetchFails(h)
      PROVE  \/ loose' \subseteq loose /\ packed' \subseteq packed /\ fetched' \subseteq fetched
             \/ EnsureBlobs(h) \/ \E m \in Length : Stage(h, m) \/ StageFails(h, m)
  BY <1>4 DEF FetchFails, cacheVars
<1>5. ASSUME NEW p \in Pack, IndexPack(h, p)
      PROVE  \/ loose' \subseteq loose /\ packed' \subseteq packed /\ fetched' \subseteq fetched
             \/ EnsureBlobs(h) \/ \E m \in Length : Stage(h, m) \/ StageFails(h, m)
  BY <1>5 DEF IndexPack, cacheVars
<1>6. ASSUME SealLoose(h)
      PROVE  \/ loose' \subseteq loose /\ packed' \subseteq packed /\ fetched' \subseteq fetched
             \/ EnsureBlobs(h) \/ \E m \in Length : Stage(h, m) \/ StageFails(h, m)
  BY <1>6 DEF SealLoose, cacheVars
<1>7. ASSUME DropLoose(h)
      PROVE  \/ loose' \subseteq loose /\ packed' \subseteq packed /\ fetched' \subseteq fetched
             \/ EnsureBlobs(h) \/ \E m \in Length : Stage(h, m) \/ StageFails(h, m)
  BY <1>7 DEF DropLoose
<1>8. ASSUME DropFetchedBlobs(h)
      PROVE  \/ loose' \subseteq loose /\ packed' \subseteq packed /\ fetched' \subseteq fetched
             \/ EnsureBlobs(h) \/ \E m \in Length : Stage(h, m) \/ StageFails(h, m)
  BY <1>8 DEF DropFetchedBlobs
<1>9. ASSUME Attempt(h)
      PROVE  \/ loose' \subseteq loose /\ packed' \subseteq packed /\ fetched' \subseteq fetched
             \/ EnsureBlobs(h) \/ \E m \in Length : Stage(h, m) \/ StageFails(h, m)
  BY <1>9 DEF Attempt, cacheVars
<1>10. ASSUME GiveUp(h)
      PROVE  \/ loose' \subseteq loose /\ packed' \subseteq packed /\ fetched' \subseteq fetched
             \/ EnsureBlobs(h) \/ \E m \in Length : Stage(h, m) \/ StageFails(h, m)
  BY <1>10 DEF GiveUp, sharedVars, cacheVars
<1>11. ASSUME BuildFails(h)
      PROVE  \/ loose' \subseteq loose /\ packed' \subseteq packed /\ fetched' \subseteq fetched
             \/ EnsureBlobs(h) \/ \E m \in Length : Stage(h, m) \/ StageFails(h, m)
  BY <1>11 DEF BuildFails, sharedVars, cacheVars
<1>12. ASSUME Reuse(h)
      PROVE  \/ loose' \subseteq loose /\ packed' \subseteq packed /\ fetched' \subseteq fetched
             \/ EnsureBlobs(h) \/ \E m \in Length : Stage(h, m) \/ StageFails(h, m)
  BY <1>12 DEF Reuse, sharedVars, cacheVars
<1>13. ASSUME Rebuild(h)
      PROVE  \/ loose' \subseteq loose /\ packed' \subseteq packed /\ fetched' \subseteq fetched
             \/ EnsureBlobs(h) \/ \E m \in Length : Stage(h, m) \/ StageFails(h, m)
  BY <1>13 DEF Rebuild, sharedVars, cacheVars
<1>14. ASSUME BuildNothing(h)
      PROVE  \/ loose' \subseteq loose /\ packed' \subseteq packed /\ fetched' \subseteq fetched
             \/ EnsureBlobs(h) \/ \E m \in Length : Stage(h, m) \/ StageFails(h, m)
  BY <1>14 DEF BuildNothing, sharedVars, cacheVars
<1>15. ASSUME NEW n \in Length, Stage(h, n)
      PROVE  \/ loose' \subseteq loose /\ packed' \subseteq packed /\ fetched' \subseteq fetched
             \/ EnsureBlobs(h) \/ \E m \in Length : Stage(h, m) \/ StageFails(h, m)
  BY <1>15
<1>16. ASSUME NEW n \in Length, StageFails(h, n)
      PROVE  \/ loose' \subseteq loose /\ packed' \subseteq packed /\ fetched' \subseteq fetched
             \/ EnsureBlobs(h) \/ \E m \in Length : Stage(h, m) \/ StageFails(h, m)
  BY <1>16
<1>17. ASSUME Upload(h)
      PROVE  \/ loose' \subseteq loose /\ packed' \subseteq packed /\ fetched' \subseteq fetched
             \/ EnsureBlobs(h) \/ \E m \in Length : Stage(h, m) \/ StageFails(h, m)
  BY <1>17 DEF Upload, sharedVars, cacheVars
<1>18. ASSUME NEW landed \in BOOLEAN, UploadFails(h, landed)
      PROVE  \/ loose' \subseteq loose /\ packed' \subseteq packed /\ fetched' \subseteq fetched
             \/ EnsureBlobs(h) \/ \E m \in Length : Stage(h, m) \/ StageFails(h, m)
  BY <1>18 DEF UploadFails, sharedVars, cacheVars
<1>19. ASSUME NEW answer \in {"done", "moved", "failed"}, Land(h, answer)
      PROVE  \/ loose' \subseteq loose /\ packed' \subseteq packed /\ fetched' \subseteq fetched
             \/ EnsureBlobs(h) \/ \E m \in Length : Stage(h, m) \/ StageFails(h, m)
  BY <1>19 DEF Land, sharedVars, cacheVars
<1>20. ASSUME LoseRace(h)
      PROVE  \/ loose' \subseteq loose /\ packed' \subseteq packed /\ fetched' \subseteq fetched
             \/ EnsureBlobs(h) \/ \E m \in Length : Stage(h, m) \/ StageFails(h, m)
  BY <1>20 DEF LoseRace, sharedVars, cacheVars
<1>21. ASSUME PushFails(h)
      PROVE  \/ loose' \subseteq loose /\ packed' \subseteq packed /\ fetched' \subseteq fetched
             \/ EnsureBlobs(h) \/ \E m \in Length : Stage(h, m) \/ StageFails(h, m)
  BY <1>21 DEF PushFails, sharedVars, cacheVars
<1>22. ASSUME Retry(h)
      PROVE  \/ loose' \subseteq loose /\ packed' \subseteq packed /\ fetched' \subseteq fetched
             \/ EnsureBlobs(h) \/ \E m \in Length : Stage(h, m) \/ StageFails(h, m)
  BY <1>22 DEF Retry, cacheVars
<1>23. ASSUME Record(h)
      PROVE  \/ loose' \subseteq loose /\ packed' \subseteq packed /\ fetched' \subseteq fetched
             \/ EnsureBlobs(h) \/ \E m \in Length : Stage(h, m) \/ StageFails(h, m)
  BY <1>23 DEF Record, cacheVars
<1>24. ASSUME RecordFails(h)
      PROVE  \/ loose' \subseteq loose /\ packed' \subseteq packed /\ fetched' \subseteq fetched
             \/ EnsureBlobs(h) \/ \E m \in Length : Stage(h, m) \/ StageFails(h, m)
  BY <1>24 DEF RecordFails, cacheVars
<1>25. ASSUME RecordUnlocked(h)
      PROVE  \/ loose' \subseteq loose /\ packed' \subseteq packed /\ fetched' \subseteq fetched
             \/ EnsureBlobs(h) \/ \E m \in Length : Stage(h, m) \/ StageFails(h, m)
  BY <1>25 DEF RecordUnlocked, cacheVars
<1>26. ASSUME SealStored(h)
      PROVE  \/ loose' \subseteq loose /\ packed' \subseteq packed /\ fetched' \subseteq fetched
             \/ EnsureBlobs(h) \/ \E m \in Length : Stage(h, m) \/ StageFails(h, m)
  BY <1>26 DEF SealStored, cacheVars
<1>27. ASSUME KeepStored(h)
      PROVE  \/ loose' \subseteq loose /\ packed' \subseteq packed /\ fetched' \subseteq fetched
             \/ EnsureBlobs(h) \/ \E m \in Length : Stage(h, m) \/ StageFails(h, m)
  BY <1>27 DEF KeepStored, sharedVars, cacheVars
<1>28. ASSUME DropStored(h)
      PROVE  \/ loose' \subseteq loose /\ packed' \subseteq packed /\ fetched' \subseteq fetched
             \/ EnsureBlobs(h) \/ \E m \in Length : Stage(h, m) \/ StageFails(h, m)
  BY <1>28 DEF DropStored
<1>29. ASSUME NEW ok \in BOOLEAN, DeleteUpload(h, ok)
      PROVE  \/ loose' \subseteq loose /\ packed' \subseteq packed /\ fetched' \subseteq fetched
             \/ EnsureBlobs(h) \/ \E m \in Length : Stage(h, m) \/ StageFails(h, m)
  BY <1>29 DEF DeleteUpload, sharedVars, cacheVars
<1>30. ASSUME Crash(h)
      PROVE  \/ loose' \subseteq loose /\ packed' \subseteq packed /\ fetched' \subseteq fetched
             \/ EnsureBlobs(h) \/ \E m \in Length : Stage(h, m) \/ StageFails(h, m)
  BY <1>30 DEF Crash, cacheVars
<1> QED
  BY <1>1, <1>2, <1>3, <1>4, <1>5, <1>6, <1>7, <1>8, <1>9, <1>10, <1>11, <1>12, <1>13,
       <1>14, <1>15, <1>16, <1>17, <1>18, <1>19, <1>20, <1>21, <1>22, <1>23, <1>24, <1>25,
       <1>26, <1>27, <1>28, <1>29, <1>30 DEF Helps

\* A pack with a stored blob had one before, or is the one being stored.
LEMMA StoredMoves ==
  ASSUME TypeOK, NEW h \in Helper, Helps(h), NEW p \in PacksIn(loose \cup packed)'
  PROVE  \/ p \in PacksIn(loose \cup packed)
         \/ \E n \in Length : /\ Stage(h, n) \/ StageFails(h, n)
                              /\ p = Fresh /\ p \in Pack /\ stored[p] = <<>>
                              /\ StageFails(h, n) => p \in spoiled'
<1>1. PICK b \in loose' \cup packed' : b.pack = p
  BY DEF PacksIn
<1>2. b \in loose \cup packed => p \in PacksIn(loose \cup packed)
  BY <1>1 DEF PacksIn
<1>3. EnsureBlobs(h) => b \in loose \cup packed
  BY <1>1 DEF EnsureBlobs
<1>4. ASSUME NEW n \in Length, Stage(h, n) \/ StageFails(h, n), b \notin loose \cup packed
      PROVE  p = Fresh /\ p \in Pack /\ stored[p] = <<>> /\ (StageFails(h, n) => p \in spoiled')
  BY <1>1, <1>4, StoreNew
<1> QED
  BY <1>1, <1>2, <1>3, <1>4, CacheMoves

\* The steps of a helper that fetches, once it has the blobs.
FetchStep(h) ==
  \/ (\E p \in Pack : IndexPack(h, p)) \/ SealLoose(h) \/ DropLoose(h)
  \/ FetchFails(h) \/ DropFetchedBlobs(h) \/ Crash(h)

LEMMA BusySteps ==
  ASSUME NEW h \in Helper, Helps(h), proc[h].pc \in {"index", "drop loose", "drop fetched"}
  PROVE  FetchStep(h)
<1>1. ASSUME NEW what \in {"fetch", "push", "repack"}, Begin(h, what) PROVE FetchStep(h)
  BY <1>1 DEF Begin, At
<1>2. ASSUME LockFetch(h) PROVE FetchStep(h)
  BY <1>2 DEF LockFetch, At
<1>3. ASSUME EnsureBlobs(h) PROVE FetchStep(h)
  BY <1>3 DEF EnsureBlobs, At
<1>4. ASSUME FetchFails(h) PROVE FetchStep(h)
  BY <1>4 DEF FetchStep
<1>5. ASSUME NEW p \in Pack, IndexPack(h, p) PROVE FetchStep(h)
  BY <1>5 DEF FetchStep
<1>6. ASSUME SealLoose(h) PROVE FetchStep(h)
  BY <1>6 DEF FetchStep
<1>7. ASSUME DropLoose(h) PROVE FetchStep(h)
  BY <1>7 DEF FetchStep
<1>8. ASSUME DropFetchedBlobs(h) PROVE FetchStep(h)
  BY <1>8 DEF FetchStep
<1>9. ASSUME Attempt(h) PROVE FetchStep(h)
  BY <1>9 DEF Attempt, At
<1>10. ASSUME GiveUp(h) PROVE FetchStep(h)
  BY <1>10 DEF GiveUp, At
<1>11. ASSUME BuildFails(h) PROVE FetchStep(h)
  BY <1>11 DEF BuildFails, At
<1>12. ASSUME Reuse(h) PROVE FetchStep(h)
  BY <1>12 DEF Reuse, At
<1>13. ASSUME Rebuild(h) PROVE FetchStep(h)
  BY <1>13 DEF Rebuild, At
<1>14. ASSUME BuildNothing(h) PROVE FetchStep(h)
  BY <1>14 DEF BuildNothing, At
<1>15. ASSUME NEW n \in Length, Stage(h, n) PROVE FetchStep(h)
  BY <1>15 DEF Stage, At
<1>16. ASSUME NEW n \in Length, StageFails(h, n) PROVE FetchStep(h)
  BY <1>16 DEF StageFails, At
<1>17. ASSUME Upload(h) PROVE FetchStep(h)
  BY <1>17 DEF Upload, At
<1>18. ASSUME NEW landed \in BOOLEAN, UploadFails(h, landed) PROVE FetchStep(h)
  BY <1>18 DEF UploadFails, At
<1>19. ASSUME NEW answer \in {"done", "moved", "failed"}, Land(h, answer) PROVE FetchStep(h)
  BY <1>19 DEF Land, At
<1>20. ASSUME LoseRace(h) PROVE FetchStep(h)
  BY <1>20 DEF LoseRace, At
<1>21. ASSUME PushFails(h) PROVE FetchStep(h)
  BY <1>21 DEF PushFails, At
<1>22. ASSUME Retry(h) PROVE FetchStep(h)
  BY <1>22 DEF Retry, At
<1>23. ASSUME Record(h) PROVE FetchStep(h)
  BY <1>23 DEF Record, At
<1>24. ASSUME RecordFails(h) PROVE FetchStep(h)
  BY <1>24 DEF RecordFails, At
<1>25. ASSUME RecordUnlocked(h) PROVE FetchStep(h)
  BY <1>25 DEF RecordUnlocked, At
<1>26. ASSUME SealStored(h) PROVE FetchStep(h)
  BY <1>26 DEF SealStored, At
<1>27. ASSUME KeepStored(h) PROVE FetchStep(h)
  BY <1>27 DEF KeepStored, At
<1>28. ASSUME DropStored(h) PROVE FetchStep(h)
  BY <1>28 DEF DropStored, At
<1>29. ASSUME NEW ok \in BOOLEAN, DeleteUpload(h, ok) PROVE FetchStep(h)
  BY <1>29 DEF DeleteUpload, At
<1>30. ASSUME Crash(h) PROVE FetchStep(h)
  BY <1>30 DEF FetchStep
<1> QED
  BY <1>1, <1>2, <1>3, <1>4, <1>5, <1>6, <1>7, <1>8, <1>9, <1>10, <1>11, <1>12, <1>13,
       <1>14, <1>15, <1>16, <1>17, <1>18, <1>19, <1>20, <1>21, <1>22, <1>23, <1>24, <1>25,
       <1>26, <1>27, <1>28, <1>29, <1>30 DEF Helps

LEMMA OwnedStays ==
  ASSUME TypeOK, StagedInv, LockInv, WholeInv, OwnedInv, [Next]_vars
  PROVE  OwnedInv'
<1>a. spoiled \subseteq spoiled'
  BY SpoiledStays
<1>1. ASSUME NEW h \in Helper, Helps(h) PROVE OwnedInv'
  <2>1. Moves(h) /\ \A g \in Helper \ {h} : proc'[g] = proc[g] /\ Staged(g)' = Staged(g)
    BY <1>1, StepMoves, HoldStays DEF Moves
  <2>2. ASSUME NEW p \in PacksIn(loose \cup packed)', p \notin spoiled'
        PROVE  \E g \in Helper : p \in Staged(g)'
    <3>1. CASE p \in PacksIn(loose \cup packed)
      <4>1. PICK g \in Helper : p \in Staged(g)
        BY <1>a, <2>2, <3>1 DEF OwnedInv
      <4>2. CASE g # h
        BY <2>1, <4>1, <4>2
      <4>3. CASE g = h
        <5>1. ASSUME NEW ok \in BOOLEAN, DeleteUpload(h, ok) PROVE FALSE
          BY <1>a, <2>2, <3>1, <4>1, <4>3, <5>1 DEF DeleteUpload, OwnedInv
        <5>2. ~ LetsGo(h)
          BY <2>2, <4>1, <4>3, <5>1 DEF LetsGo
        <5>3. Staged(h)' = Staged(h)
          BY <1>1, <4>1, <4>3, <5>2, HoldStays
        <5> QED
          BY <4>1, <4>3, <5>3
      <4> QED
        BY <4>2, <4>3
    <3>2. ASSUME NEW n \in Length, Stage(h, n), p = Fresh PROVE p \in Staged(h)'
      <4>1. ~ LetsGo(h)
        <5>1. proc'[h].staged = [pack |-> Fresh, bases |-> PacksIn(Tree(h)), sent |-> 0]
          BY <3>2, HelperType DEF Stage, State
        <5>2. proc'[h].staged \in StagedPack
          BY <3>2, <5>1, StoreNew, HelperType DEF StagedPack
        <5> QED
          BY <5>2, HelperAssumption DEF LetsGo
      <4>2. Staged(h)' = Staged(h) => FALSE
        <5>1. proc'[h].staged = [pack |-> Fresh, bases |-> PacksIn(Tree(h)), sent |-> 0]
          BY <3>2, HelperType DEF Stage, State
        <5>2. proc'[h].staged \in StagedPack
          BY <3>2, <5>1, StoreNew, HelperType DEF StagedPack
        <5>3. Staged(h)' # {} /\ Staged(h) = {}
          BY <3>2, <5>2, HelperAssumption DEF Stage, Staged
        <5> QED
          BY <5>3
      <4> QED
        BY <1>1, <3>2, <4>1, <4>2, HoldStays
    <3> QED
      BY <1>1, <2>2, <3>1, <3>2, StoredMoves
  <2>3. ASSUME NEW g \in Helper, proc'[g].pc = "delete upload",
               NEW p \in Staged(g)', p \in PacksIn(loose \cup packed)'
        PROVE  p \in spoiled'
    <3>1. CASE g # h
      <4>1. p \in Staged(g) /\ At(g, "delete upload")
        BY <2>1, <2>3, <3>1 DEF At
      <4>2. stored[p] # <<>>
        BY <4>1 DEF Staged, StagedInv
      <4>3. p \in PacksIn(loose \cup packed)
        BY <1>1, <2>3, <4>2, StoredMoves
      <4> QED
        BY <1>a, <4>1, <4>3 DEF OwnedInv
    <3>2. CASE g = h
      <4>1. p \in Staged(h)
        <5>1. DropStored(h) \/ KeepStored(h) \/ RecordUnlocked(h)
          BY <2>1, <2>3, <3>2 DEF Moves
        <5>2. \A n \in Length : ~ Stage(h, n)
          BY <5>1 DEF DropStored, KeepStored, RecordUnlocked, Stage, At
        <5> QED
          BY <1>1, <2>3, <3>2, <5>2, HoldStays
      <4>2. CASE KeepStored(h) \/ RecordUnlocked(h)
        BY <4>1, <4>2 DEF KeepStored, RecordUnlocked, SealFails, Fault
      <4>3. CASE DropStored(h)
        <5>1. PICK b \in loose' \cup packed' : b.pack = p
          BY <2>3 DEF PacksIn
        <5>2. b \in loose \cup packed /\ b \in Blob
          BY <4>3, <5>1 DEF DropStored, TypeOK, GitOK
        <5>3. b \in StagedBlobs(h)
          BY <4>1, <5>1, <5>2, StagedComplete DEF WholeInv, Cuts
        <5>4. p \notin spoiled' => b \notin loose' \cup packed'
          BY <4>1, <4>3, <5>3 DEF DropStored, Fault
        <5> QED
          BY <5>1, <5>4
      <4> QED
        BY <2>1, <2>3, <3>2, <4>2, <4>3 DEF Moves
    <3> QED
      BY <3>1, <3>2
  <2>4. ASSUME NEW s \in fetched'
        PROVE  PacksIn(s) \subseteq spoiled' \/ \E g \in Helper : Fetches(g, s)'
    <3>1. ASSUME s \in fetched, NEW g \in Helper, Fetches(g, s), g # h
          PROVE  Fetches(g, s)'
      <4>1. lock' = g /\ proc'[g] = proc[g] /\ Tree(g)' = Tree(g)
        BY <1>1, <2>1, <3>1, LockKept, SameTree DEF Fetches
      <4> QED
        BY <3>1, <4>1 DEF Fetches
    <3>2. ASSUME s \in fetched, Fetches(h, s)
          PROVE  PacksIn(s) \subseteq spoiled' \/ Fetches(h, s)'
      <4>1. PacksIn(s) \subseteq PacksIn(Tree(h)) /\ PacksIn(s) \subseteq PacksIn(UNION fetched)
        BY <3>2 DEF Fetches, PacksIn
      <4>2. CASE FetchFails(h) \/ Crash(h)
        <5>1. PacksIn(Tree(h)) \subseteq spoiled'
          BY <3>2, <4>2 DEF Fetches, FetchFails, Crash, Fault, At
        <5> QED
          BY <4>1, <5>1
      <4>3. CASE DropFetchedBlobs(h)
        <5>1. PacksIn(UNION fetched) \subseteq spoiled'
          BY <2>4, <3>2, <4>3 DEF Fetches, DropFetchedBlobs, Fault
        <5> QED
          BY <4>1, <5>1
      <4>4. ASSUME proc'[h].pc \in {"index", "drop loose", "drop fetched"}, lock' = h
            PROVE  Fetches(h, s)'
        <5>1. Tree(h)' = Tree(h)
          BY <2>1, <4>4, SameTree DEF Moves
        <5> QED
          BY <3>2, <4>4, <5>1 DEF Fetches
      <4>5. ASSUME (\E p \in Pack : IndexPack(h, p)) \/ SealLoose(h) \/ DropLoose(h)
            PROVE  proc'[h].pc \in {"index", "drop loose", "drop fetched"} /\ lock' = h
        <5>1. lock' = h
          BY <3>2, <4>5 DEF Fetches, IndexPack, SealLoose, DropLoose
        <5>2. proc[h] \in State(Len(log)) /\ proc \in [Helper -> State(Len(log))]
          BY HelperType
        <5>3. \A p \in Pack : IndexPack(h, p) => proc'[h].pc = "index"
          BY <5>2 DEF IndexPack, State, At
        <5>4. SealLoose(h) \/ DropLoose(h) =>
                proc'[h].pc \in {"index", "drop loose", "drop fetched"}
          BY <5>2, GotoWent DEF SealLoose, DropLoose, Went, Pcs
        <5> QED
          BY <4>5, <5>1, <5>3, <5>4
      <4>6. ASSUME FetchStep(h) PROVE PacksIn(s) \subseteq spoiled' \/ Fetches(h, s)'
        BY <4>2, <4>3, <4>4, <4>5, <4>6 DEF FetchStep
      <4> QED
        BY <1>1, <3>2, <4>6, BusySteps DEF Fetches
    <3>3. CASE s \in fetched
      BY <1>a, <3>1, <3>2, <3>3 DEF OwnedInv
    <3>4. CASE s \notin fetched
      <4>1. EnsureBlobs(h)
        BY <1>1, <2>4, <3>4, StoreNew, CacheMoves
      <4>2. s \subseteq Tree(h)
        BY <2>4, <3>4, <4>1 DEF EnsureBlobs, Wanted, Find
      <4>3. Went(h, "index")
        BY <4>1, GotoWent DEF EnsureBlobs, Pcs
      <4>4. Tree(h)' = Tree(h)
        BY <4>3, SameTree DEF Went
      <4>5. lock' = h
        BY <4>1 DEF EnsureBlobs, At, LockInv
      <4> QED
        BY <4>2, <4>3, <4>4, <4>5 DEF Fetches, Went
    <3> QED
      BY <3>3, <3>4
  <2> QED
    BY <2>2, <2>3, <2>4 DEF OwnedInv, At
<1>2. ASSUME UNCHANGED <<cacheVars, proc, spoiled, lock>> PROVE OwnedInv'
  <2>1. \A g \in Helper : Tree(g)' = Tree(g) /\ Staged(g)' = Staged(g)
    BY <1>2, SameTree DEF Staged
  <2>2. \A g \in Helper : \A s : Fetches(g, s) => Fetches(g, s)'
    BY <1>2, <2>1 DEF Fetches
  <2>3. UNCHANGED <<loose, packed, fetched>>
    BY <1>2 DEF cacheVars
  <2> QED
    BY <1>2, <2>1, <2>2, <2>3 DEF OwnedInv, At, PacksIn
<1> QED
  BY <1>1, <1>2, Steps DEF OthersStep, Others, vars, sharedVars, faultVars

LEMMA BlobsOwned ==
  ASSUME TypeOK, OwnedInv
  PROVE  CachedBlobsOwned
<1>1. ASSUME NEW b \in UNION fetched, b.pack \notin spoiled
      PROVE  \E g \in Helper : lock = g /\ b.pack \in PacksIn(Tree(g))
  BY <1>1 DEF OwnedInv, Fetches, PacksIn
<1>2. \A b \in Here : b \in loose \cup packed \/ b \in UNION fetched
  BY DEF Here
<1>3. \A b \in loose \cup packed : b.pack \in spoiled \cup (UNION {Staged(h) : h \in Helper})
  BY DEF OwnedInv, PacksIn
<1>4. ASSUME NEW b \in Here
      PROVE  b.pack \in spoiled \cup (UNION {Staged(h) : h \in Helper})
               \cup UNION {PacksIn(Tree(h)) : h \in {g \in Helper : lock = g}}
  <2>1. CASE b \in loose \cup packed
    BY <1>3, <2>1
  <2>2. CASE b \in UNION fetched /\ b.pack \notin spoiled
    <3>1. PICK g \in Helper : lock = g /\ b.pack \in PacksIn(Tree(g))
      BY <1>1, <2>2
    <3>2. g \in {f \in Helper : lock = f}
      BY <3>1
    <3>3. PacksIn(Tree(g)) \in {PacksIn(Tree(h)) : h \in {f \in Helper : lock = f}}
      BY <3>2
    <3> QED
      BY <3>1, <3>3
  <2> QED
    BY <1>2, <2>1, <2>2
<1>5. \A p \in PacksIn(Here) : \E b \in Here : p = b.pack
  BY DEF PacksIn
<1> QED
  BY <1>4, <1>5 DEF CachedBlobsOwned

-----------------------------------------------------------------------------
\* The blobs of a pack that is still to be pushed.

\* The pack of h has landed.
Listed(h) == \E v \in DOMAIN log : Staged(h) \subseteq PacksIn(log[v].tree)

(* A helper that still means to push its pack has uploaded some of it, or  *)
(* has all its blobs, or has landed it.                                    *)
RetryInv ==
  \A h \in Helper :
    proc[h].staged # Nothing /\ proc[h].pc \notin {"discard", "drop stored", "delete upload"} =>
      /\ proc[h].staged.sent > 0 => Staged(h) \subseteq uploads
      /\ proc[h].staged.sent = 0 => StagedBlobs(h) \subseteq loose \cup packed \/ Listed(h)

LEMMA StoredKept ==
  ASSUME NEW h \in Helper, Helps(h), NEW b \in loose \cup packed, b \notin loose' \cup packed'
  PROVE  (DropLoose(h) /\ b \in Tree(h)) \/ (DropStored(h) /\ b \in StagedBlobs(h))
<1>1. ASSUME NEW what \in {"fetch", "push", "repack"}, Begin(h, what)
      PROVE  (DropLoose(h) /\ b \in Tree(h)) \/ (DropStored(h) /\ b \in StagedBlobs(h))
  BY <1>1 DEF Begin, cacheVars
<1>2. ASSUME LockFetch(h)
      PROVE  (DropLoose(h) /\ b \in Tree(h)) \/ (DropStored(h) /\ b \in StagedBlobs(h))
  BY <1>2 DEF LockFetch, cacheVars
<1>3. ASSUME EnsureBlobs(h)
      PROVE  (DropLoose(h) /\ b \in Tree(h)) \/ (DropStored(h) /\ b \in StagedBlobs(h))
  BY <1>3 DEF EnsureBlobs
<1>4. ASSUME FetchFails(h)
      PROVE  (DropLoose(h) /\ b \in Tree(h)) \/ (DropStored(h) /\ b \in StagedBlobs(h))
  BY <1>4 DEF FetchFails, cacheVars
<1>5. ASSUME NEW p \in Pack, IndexPack(h, p)
      PROVE  (DropLoose(h) /\ b \in Tree(h)) \/ (DropStored(h) /\ b \in StagedBlobs(h))
  BY <1>5 DEF IndexPack, cacheVars
<1>6. ASSUME SealLoose(h)
      PROVE  (DropLoose(h) /\ b \in Tree(h)) \/ (DropStored(h) /\ b \in StagedBlobs(h))
  BY <1>6 DEF SealLoose, cacheVars
<1>7. ASSUME DropLoose(h)
      PROVE  (DropLoose(h) /\ b \in Tree(h)) \/ (DropStored(h) /\ b \in StagedBlobs(h))
  <2>1. b \in Tree(h)
    BY <1>7 DEF DropLoose
  <2> QED
    BY <1>7, <2>1
<1>8. ASSUME DropFetchedBlobs(h)
      PROVE  (DropLoose(h) /\ b \in Tree(h)) \/ (DropStored(h) /\ b \in StagedBlobs(h))
  BY <1>8 DEF DropFetchedBlobs
<1>9. ASSUME Attempt(h)
      PROVE  (DropLoose(h) /\ b \in Tree(h)) \/ (DropStored(h) /\ b \in StagedBlobs(h))
  BY <1>9 DEF Attempt, cacheVars
<1>10. ASSUME GiveUp(h)
      PROVE  (DropLoose(h) /\ b \in Tree(h)) \/ (DropStored(h) /\ b \in StagedBlobs(h))
  BY <1>10 DEF GiveUp, sharedVars, cacheVars
<1>11. ASSUME BuildFails(h)
      PROVE  (DropLoose(h) /\ b \in Tree(h)) \/ (DropStored(h) /\ b \in StagedBlobs(h))
  BY <1>11 DEF BuildFails, sharedVars, cacheVars
<1>12. ASSUME Reuse(h)
      PROVE  (DropLoose(h) /\ b \in Tree(h)) \/ (DropStored(h) /\ b \in StagedBlobs(h))
  BY <1>12 DEF Reuse, sharedVars, cacheVars
<1>13. ASSUME Rebuild(h)
      PROVE  (DropLoose(h) /\ b \in Tree(h)) \/ (DropStored(h) /\ b \in StagedBlobs(h))
  BY <1>13 DEF Rebuild, sharedVars, cacheVars
<1>14. ASSUME BuildNothing(h)
      PROVE  (DropLoose(h) /\ b \in Tree(h)) \/ (DropStored(h) /\ b \in StagedBlobs(h))
  BY <1>14 DEF BuildNothing, sharedVars, cacheVars
<1>15. ASSUME NEW n \in Length, Stage(h, n)
      PROVE  (DropLoose(h) /\ b \in Tree(h)) \/ (DropStored(h) /\ b \in StagedBlobs(h))
  BY <1>15 DEF Stage
<1>16. ASSUME NEW n \in Length, StageFails(h, n)
      PROVE  (DropLoose(h) /\ b \in Tree(h)) \/ (DropStored(h) /\ b \in StagedBlobs(h))
  BY <1>16 DEF StageFails
<1>17. ASSUME Upload(h)
      PROVE  (DropLoose(h) /\ b \in Tree(h)) \/ (DropStored(h) /\ b \in StagedBlobs(h))
  BY <1>17 DEF Upload, sharedVars, cacheVars
<1>18. ASSUME NEW landed \in BOOLEAN, UploadFails(h, landed)
      PROVE  (DropLoose(h) /\ b \in Tree(h)) \/ (DropStored(h) /\ b \in StagedBlobs(h))
  BY <1>18 DEF UploadFails, sharedVars, cacheVars
<1>19. ASSUME NEW answer \in {"done", "moved", "failed"}, Land(h, answer)
      PROVE  (DropLoose(h) /\ b \in Tree(h)) \/ (DropStored(h) /\ b \in StagedBlobs(h))
  BY <1>19 DEF Land, sharedVars, cacheVars
<1>20. ASSUME LoseRace(h)
      PROVE  (DropLoose(h) /\ b \in Tree(h)) \/ (DropStored(h) /\ b \in StagedBlobs(h))
  BY <1>20 DEF LoseRace, sharedVars, cacheVars
<1>21. ASSUME PushFails(h)
      PROVE  (DropLoose(h) /\ b \in Tree(h)) \/ (DropStored(h) /\ b \in StagedBlobs(h))
  BY <1>21 DEF PushFails, sharedVars, cacheVars
<1>22. ASSUME Retry(h)
      PROVE  (DropLoose(h) /\ b \in Tree(h)) \/ (DropStored(h) /\ b \in StagedBlobs(h))
  BY <1>22 DEF Retry, cacheVars
<1>23. ASSUME Record(h)
      PROVE  (DropLoose(h) /\ b \in Tree(h)) \/ (DropStored(h) /\ b \in StagedBlobs(h))
  BY <1>23 DEF Record, cacheVars
<1>24. ASSUME RecordFails(h)
      PROVE  (DropLoose(h) /\ b \in Tree(h)) \/ (DropStored(h) /\ b \in StagedBlobs(h))
  BY <1>24 DEF RecordFails, cacheVars
<1>25. ASSUME RecordUnlocked(h)
      PROVE  (DropLoose(h) /\ b \in Tree(h)) \/ (DropStored(h) /\ b \in StagedBlobs(h))
  BY <1>25 DEF RecordUnlocked, cacheVars
<1>26. ASSUME SealStored(h)
      PROVE  (DropLoose(h) /\ b \in Tree(h)) \/ (DropStored(h) /\ b \in StagedBlobs(h))
  BY <1>26 DEF SealStored, cacheVars
<1>27. ASSUME KeepStored(h)
      PROVE  (DropLoose(h) /\ b \in Tree(h)) \/ (DropStored(h) /\ b \in StagedBlobs(h))
  BY <1>27 DEF KeepStored, sharedVars, cacheVars
<1>28. ASSUME DropStored(h)
      PROVE  (DropLoose(h) /\ b \in Tree(h)) \/ (DropStored(h) /\ b \in StagedBlobs(h))
  <2>1. b \in StagedBlobs(h)
    BY <1>28 DEF DropStored
  <2> QED
    BY <1>28, <2>1
<1>29. ASSUME NEW ok \in BOOLEAN, DeleteUpload(h, ok)
      PROVE  (DropLoose(h) /\ b \in Tree(h)) \/ (DropStored(h) /\ b \in StagedBlobs(h))
  BY <1>29 DEF DeleteUpload, sharedVars, cacheVars
<1>30. ASSUME Crash(h)
      PROVE  (DropLoose(h) /\ b \in Tree(h)) \/ (DropStored(h) /\ b \in StagedBlobs(h))
  BY <1>30 DEF Crash, cacheVars
<1> QED
  BY <1>1, <1>2, <1>3, <1>4, <1>5, <1>6, <1>7, <1>8, <1>9, <1>10, <1>11, <1>12, <1>13,
       <1>14, <1>15, <1>16, <1>17, <1>18, <1>19, <1>20, <1>21, <1>22, <1>23, <1>24, <1>25,
       <1>26, <1>27, <1>28, <1>29, <1>30 DEF Helps

LEMMA ListedStays ==
  ASSUME TypeOK, [Next]_vars, NEW g \in Helper, Listed(g), Staged(g)' = Staged(g)
  PROVE  Listed(g)'
BY HostStays DEF Listed, Grown

LEMMA RetryStays ==
  ASSUME TypeOK, StagedInv, RetryInv, [Next]_vars
  PROVE  RetryInv'
<1>a. \A g \in Helper :
        proc[g].staged # Nothing => Staged(g) = {proc[g].staged.pack} /\ Staged(g) # {}
  BY DEF Staged
<1>1. ASSUME NEW h \in Helper, Helps(h), NEW g \in Helper, proc'[g].staged # Nothing,
             proc'[g].pc \notin {"discard", "drop stored", "delete upload"}
      PROVE  /\ proc'[g].staged.sent > 0 => Staged(g)' \subseteq uploads'
             /\ proc'[g].staged.sent = 0 =>
                  StagedBlobs(g)' \subseteq loose' \cup packed' \/ Listed(g)'
  <2>1. Moves(h) /\ \A f \in Helper \ {h} : proc'[f] = proc[f]
    BY <1>1, StepMoves DEF Moves
  <2>2. CASE proc'[g].staged = proc[g].staged
    <3>1. /\ proc[g].staged # Nothing
          /\ proc[g].pc \notin {"discard", "drop stored", "delete upload"}
      BY <1>1, <2>1, <2>2 DEF Moves
    <3>2. Staged(g)' = Staged(g) /\ StagedBlobs(g)' = StagedBlobs(g)
      BY <2>2, SamePack
    <3>3. ASSUME proc[g].staged.sent > 0 PROVE Staged(g) \subseteq uploads'
      <4>1. Staged(g) \subseteq uploads
        BY <3>1, <3>3 DEF RetryInv
      <4>2. ASSUME NEW ok \in BOOLEAN, DeleteUpload(h, ok) PROVE g # h
        BY <3>1, <4>2 DEF DeleteUpload, At
      <4>3. ASSUME NEW ok \in BOOLEAN, DeleteUpload(h, ok) PROVE Staged(g) \subseteq uploads'
        <5>1. Staged(g) \cap Staged(h) = {}
          BY <4>2, <4>3 DEF StagedInv
        <5> QED
          BY <4>1, <4>3, <5>1 DEF DeleteUpload
      <4> QED
        BY <1>1, <4>1, <4>3, UploadMoves DEF Upload, UploadFails
    <3>4. ASSUME proc[g].staged.sent = 0
          PROVE  StagedBlobs(g) \subseteq loose' \cup packed' \/ Listed(g)'
      <4>1. CASE Listed(g)
        BY <3>2, <4>1, ListedStays
      <4>2. ASSUME NEW b \in StagedBlobs(g), b \in loose \cup packed, b \notin loose' \cup packed'
            PROVE  Listed(g)
        <5>1. Staged(g) = {b.pack}
          BY <1>a, <3>1, StagedComplete
        <5>2. ~ DropStored(h)
          <6>1. ASSUME DropStored(h) PROVE g # h
            BY <3>1, <6>1 DEF DropStored, At
          <6>2. DropStored(h) => b \in StagedBlobs(h)
            BY <1>1, <4>2, StoredKept DEF DropStored, DropLoose, At
          <6>3. b \in StagedBlobs(h) => b.pack \in Staged(h)
            BY StagedComplete
          <6> QED
            BY <5>1, <6>1, <6>2, <6>3 DEF StagedInv
        <5>3. b \in Tree(h)
          BY <1>1, <4>2, <5>2, StoredKept
        <5>4. proc[h].view \in DOMAIN log /\ b \in log[proc[h].view].tree
          BY <5>3, HelperType, LogType DEF Tree, TreeAt, State
        <5> QED
          BY <5>1, <5>4 DEF Listed, PacksIn
      <4>3. StagedBlobs(g) \subseteq loose \cup packed \/ Listed(g)
        BY <3>1, <3>4 DEF RetryInv
      <4> QED
        BY <3>2, <4>1, <4>2, <4>3, ListedStays
    <3> QED
      BY <2>2, <3>2, <3>3, <3>4
  <2>3. CASE g = h /\ Upload(h)
    <3>1. proc[h].staged.sent \in Nat /\ proc'[h].staged.sent = proc[h].staged.sent + 1
          /\ Staged(h)' \subseteq uploads'
      BY <2>3, UploadCounts
    <3> QED
      BY <2>3, <3>1
  <2>4. ASSUME g = h, NEW n \in Length, Stage(h, n)
        PROVE  proc'[h].staged.sent = 0 /\ StagedBlobs(h)' \subseteq loose' \cup packed'
    <3>1. proc'[h].staged = [pack |-> Fresh, bases |-> PacksIn(Tree(h)), sent |-> 0]
      BY <2>4, HelperType DEF Stage, State
    <3>2. PICK p \in Pack : p = Fresh
      BY <2>4, StoreNew
    <3>3. BlobsOf(p)' = Blobs(p, Cut(n)) /\ Blobs(p, Cut(n)) \subseteq loose' \cup packed'
      BY <2>4, <3>2, StoreNew
    <3>4. Staged(h)' \subseteq {p}
      BY <3>1, <3>2 DEF Staged
    <3>5. StagedBlobs(h)' \subseteq BlobsOf(p)'
      BY <3>4 DEF StagedBlobs
    <3> QED
      BY <3>1, <3>3, <3>5
  <2>5. g = h => ~ LetsGo(h)
    BY <1>1 DEF LetsGo
  <2>6. g = h => \/ proc'[h].staged = proc[h].staged \/ Upload(h)
                 \/ \E n \in Length : Stage(h, n)
    BY <2>1, <2>5 DEF Moves
  <2>7. g # h => proc'[g].staged = proc[g].staged
    BY <2>1
  <2>8. CASE \E n \in Length : g = h /\ Stage(h, n)
    <3>1. proc'[g].staged.sent = 0 /\ StagedBlobs(g)' \subseteq loose' \cup packed'
      BY <2>4, <2>8
    <3> QED
      BY <3>1
  <2> QED
    BY <2>2, <2>3, <2>6, <2>7, <2>8
<1>2. ASSUME UNCHANGED <<proc, uploads, loose, packed>> PROVE RetryInv'
  <2>1. \A g \in Helper : Staged(g)' = Staged(g) /\ StagedBlobs(g)' = StagedBlobs(g)
    BY <1>2, SamePack
  <2>2. \A g \in Helper : Listed(g) => Listed(g)'
    BY <2>1, ListedStays
  <2> QED
    BY <1>2, <2>1, <2>2 DEF RetryInv
<1> QED
  BY <1>1, <1>2, Steps DEF RetryInv, OthersStep, Others, vars, hostVars, sharedVars, cacheVars

LEMMA RetryCanSend ==
  ASSUME TypeOK, RetryInv
  PROVE  RetryHasBlobs
<1> SUFFICES ASSUME NEW h \in Helper, proc[h].pc \in {"retry", "attempt", "build", "push"},
                    Staged(h) # {}
             PROVE  CanSend(h) \/ Listed(h)
  BY DEF RetryHasBlobs, CanSend, Listed
<1>1. proc[h].staged # Nothing /\ proc[h].staged \in StagedPack
  BY HelperType DEF Staged, State
<1>2. proc[h].staged.sent \in Nat
  BY <1>1 DEF StagedPack
<1>3. CASE proc[h].staged.sent > 0
  BY <1>1, <1>3 DEF RetryInv, CanSend
<1>4. CASE proc[h].staged.sent = 0
  BY <1>1, <1>4 DEF RetryInv, CanSend, Here
<1> QED
  BY <1>2, <1>3, <1>4

-----------------------------------------------------------------------------
\* What a walk finds missing.

\* The remote promised b, or its pack left a tree before that of v.
Safe(b, v) == b \in Excused \/ PushedAgain(b.pack, v)

Secure(b, v) == b \in loose \cup packed \/ Safe(b, v)

(* Blobs of the repository's own are dropped when every commit up to the   *)
(* tracking ref is sealed; what a walk passes, and what may still be       *)
(* recorded, is secure without the downloads, and these are safe anyhow.   *)
SealInv ==
  /\ \A h \in Helper : proc[h].pc \in {"drop loose", "drop stored"} => Walked(tracking) = {}
  /\ \A v \in Walked(tracking) : \A b \in log[v].tree : Secure(b, v)
  /\ \A b \in UNION fetched : Safe(b, tracking)
  /\ \A h \in Helper :
       proc[h].pc \notin {"discard", "drop stored", "delete upload"} =>
         \A b \in StagedBlobs(h) : Secure(b, tracking)

LEMMA SafeStays ==
  ASSUME TypeOK, Landed, [Next]_vars, NEW b, NEW v \in 0..Len(log), NEW w \in Nat, v <= w,
         Safe(b, v)
  PROVE  Safe(b, w)'
<1>1. /\ DOMAIN log = 1..Len(log) /\ Len(log) \in Nat
      /\ promised \subseteq DOMAIN log /\ promised \subseteq promised'
      /\ \A u \in DOMAIN log : log'[u] = log[u]
  BY LogType, HostStays, RefsStay DEF Grown, TypeOK, GitOK
<1>2. CASE b \in Excused
  <2>1. PICK u \in promised : b \in log[u].tree
    BY <1>2 DEF Excused
  <2>2. u \in promised' /\ b \in log'[u].tree
    BY <1>1, <2>1
  <2> QED
    BY <2>2 DEF Safe, Excused
<1>3. CASE PushedAgain(b.pack, v)
  <2>1. PICK u \in 1..v, x \in 1..v :
          u < x /\ b.pack \in PacksIn(log[u].tree) \ PacksIn(log[x].tree)
    BY <1>3 DEF PushedAgain
  <2>2. u \in 1..w /\ x \in 1..w /\ log'[u] = log[u] /\ log'[x] = log[x]
    BY <1>1
  <2>3. b.pack \in PacksIn(log'[u].tree) \ PacksIn(log'[x].tree)
    BY <2>1, <2>2
  <2> QED
    BY <2>1, <2>2, <2>3 DEF Safe, PushedAgain
<1> QED
  BY <1>2, <1>3 DEF Safe

\* What a walk stops before is promised, or was replaced at the commit it stops at.
LEMMA BehindPromised ==
  ASSUME TypeOK, WholeInv, NEW v \in 1..tracking, v \notin Walked(tracking), NEW b \in log[v].tree
  PROVE  Safe(b, tracking)
<1>1. /\ DOMAIN log = 1..Len(log) /\ Len(log) \in Nat /\ tracking \in 0..Len(log)
      /\ promised \subseteq DOMAIN log
  BY LogType DEF TypeOK, GitOK
<1>2. PICK w \in promised : w \in v..tracking
  BY DEF Walked
<1>3. CASE b \in log[w].tree
  BY <1>3 DEF Safe, Excused
<1>4. CASE b \notin log[w].tree
  <2>1. v \in DOMAIN log /\ w \in DOMAIN log /\ w \in 1..tracking
    BY <1>1, <1>2
  <2>2. b \in BlobsOf(b.pack)
    BY <2>1 DEF WholeInv, Complete
  <2>3. \A x \in log[w].tree : x.pack # b.pack
    BY <1>4, <2>1, <2>2 DEF WholeInv, Complete
  <2>4. b.pack \in PacksIn(log[v].tree) \ PacksIn(log[w].tree)
    BY <2>3 DEF PacksIn
  <2>5. v < w
    <3>1. v # w
      BY <1>4
    <3> QED
      BY <1>1, <1>2, <3>1
  <2> QED
    BY <2>1, <2>4, <2>5 DEF Safe, PushedAgain
<1> QED
  BY <1>3, <1>4

\* The blobs of every tree somebody connected to are secure.
LEMMA TreeSecure ==
  ASSUME TypeOK, Landed, WholeInv, SealInv, NEW v \in 0..tracking, NEW b \in TreeAt(v)
  PROVE  Secure(b, tracking)
<1>1. v # 0 /\ b \in log[v].tree /\ tracking \in 0..Len(log) /\ Len(log) \in Nat
  BY LogType DEF TreeAt, TypeOK, GitOK
<1>2. v \in 1..tracking
  BY <1>1
<1>3. CASE v \in Walked(tracking)
  <2>1. Secure(b, v)
    BY <1>1, <1>3 DEF SealInv
  <2>2. ASSUME PushedAgain(b.pack, v) PROVE PushedAgain(b.pack, tracking)
    <3>1. 1..v \subseteq 1..tracking
      BY <1>1, <1>2
    <3> QED
      BY <2>2, <3>1 DEF PushedAgain
  <2> QED
    BY <2>1, <2>2 DEF Secure, Safe
<1>4. CASE v \notin Walked(tracking)
  BY <1>1, <1>2, <1>4, BehindPromised DEF Secure
<1> QED
  BY <1>3, <1>4

LEMMA TreeOfSecure ==
  ASSUME TypeOK, Landed, LockInv, WholeInv, SealInv, NEW h \in Helper, NEW b \in Tree(h)
  PROVE  Secure(b, tracking)
<1>1. proc[h].view \in 0..tracking
  <2>1. proc[h].view \in 0..Len(log) /\ Len(log) \in Nat /\ tracking \in Nat
    BY HelperType DEF State
  <2>2. proc[h].view <= tracking
    BY DEF LockInv
  <2> QED
    BY <2>1, <2>2
<1> QED
  BY <1>1, TreeSecure DEF Tree

LEMMA SealedAll ==
  ASSUME Seal(tracking), tracking' = tracking, tracking \in Nat
  PROVE  Walked(tracking)' = {}
<1>1. promised' = promised \cup Walked(tracking)
  BY DEF Seal
<1>2. ASSUME NEW v \in 1..tracking, promised' \cap (v..tracking) = {} PROVE FALSE
  <2>1. promised \cap (v..tracking) = {}
    BY <1>1, <1>2
  <2>2. v \in Walked(tracking) /\ v \in v..tracking
    BY <2>1 DEF Walked
  <2> QED
    BY <1>1, <1>2, <2>2
<1> QED
  BY <1>2 DEF Walked

\* The ref moves only while the lock is free.
LEMMA RefMoves ==
  ASSUME NEW h \in Helper, Helps(h)
  PROVE  \/ UNCHANGED tracking
         \/ lock = Nobody /\ UNCHANGED cacheVars /\ (Connect \/ Record(h) \/ RecordFails(h))
<1>1. ASSUME NEW what \in {"fetch", "push", "repack"}, Begin(h, what)
      PROVE  \/ UNCHANGED tracking
             \/ lock = Nobody /\ UNCHANGED cacheVars /\ (Connect \/ Record(h) \/ RecordFails(h))
  BY <1>1 DEF Begin, Connect
<1>2. ASSUME LockFetch(h)
      PROVE  \/ UNCHANGED tracking
             \/ lock = Nobody /\ UNCHANGED cacheVars /\ (Connect \/ Record(h) \/ RecordFails(h))
  BY <1>2 DEF LockFetch
<1>3. ASSUME EnsureBlobs(h)
      PROVE  \/ UNCHANGED tracking
             \/ lock = Nobody /\ UNCHANGED cacheVars /\ (Connect \/ Record(h) \/ RecordFails(h))
  BY <1>3 DEF EnsureBlobs
<1>4. ASSUME FetchFails(h)
      PROVE  \/ UNCHANGED tracking
             \/ lock = Nobody /\ UNCHANGED cacheVars /\ (Connect \/ Record(h) \/ RecordFails(h))
  BY <1>4 DEF FetchFails
<1>5. ASSUME NEW p \in Pack, IndexPack(h, p)
      PROVE  \/ UNCHANGED tracking
             \/ lock = Nobody /\ UNCHANGED cacheVars /\ (Connect \/ Record(h) \/ RecordFails(h))
  BY <1>5 DEF IndexPack
<1>6. ASSUME SealLoose(h)
      PROVE  \/ UNCHANGED tracking
             \/ lock = Nobody /\ UNCHANGED cacheVars /\ (Connect \/ Record(h) \/ RecordFails(h))
  BY <1>6 DEF SealLoose
<1>7. ASSUME DropLoose(h)
      PROVE  \/ UNCHANGED tracking
             \/ lock = Nobody /\ UNCHANGED cacheVars /\ (Connect \/ Record(h) \/ RecordFails(h))
  BY <1>7 DEF DropLoose
<1>8. ASSUME DropFetchedBlobs(h)
      PROVE  \/ UNCHANGED tracking
             \/ lock = Nobody /\ UNCHANGED cacheVars /\ (Connect \/ Record(h) \/ RecordFails(h))
  BY <1>8 DEF DropFetchedBlobs
<1>9. ASSUME Attempt(h)
      PROVE  \/ UNCHANGED tracking
             \/ lock = Nobody /\ UNCHANGED cacheVars /\ (Connect \/ Record(h) \/ RecordFails(h))
  BY <1>9 DEF Attempt
<1>10. ASSUME GiveUp(h)
      PROVE  \/ UNCHANGED tracking
             \/ lock = Nobody /\ UNCHANGED cacheVars /\ (Connect \/ Record(h) \/ RecordFails(h))
  BY <1>10 DEF GiveUp, sharedVars
<1>11. ASSUME BuildFails(h)
      PROVE  \/ UNCHANGED tracking
             \/ lock = Nobody /\ UNCHANGED cacheVars /\ (Connect \/ Record(h) \/ RecordFails(h))
  BY <1>11 DEF BuildFails, sharedVars
<1>12. ASSUME Reuse(h)
      PROVE  \/ UNCHANGED tracking
             \/ lock = Nobody /\ UNCHANGED cacheVars /\ (Connect \/ Record(h) \/ RecordFails(h))
  BY <1>12 DEF Reuse, sharedVars
<1>13. ASSUME Rebuild(h)
      PROVE  \/ UNCHANGED tracking
             \/ lock = Nobody /\ UNCHANGED cacheVars /\ (Connect \/ Record(h) \/ RecordFails(h))
  BY <1>13 DEF Rebuild, sharedVars
<1>14. ASSUME BuildNothing(h)
      PROVE  \/ UNCHANGED tracking
             \/ lock = Nobody /\ UNCHANGED cacheVars /\ (Connect \/ Record(h) \/ RecordFails(h))
  BY <1>14 DEF BuildNothing, sharedVars
<1>15. ASSUME NEW n \in Length, Stage(h, n)
      PROVE  \/ UNCHANGED tracking
             \/ lock = Nobody /\ UNCHANGED cacheVars /\ (Connect \/ Record(h) \/ RecordFails(h))
  BY <1>15 DEF Stage
<1>16. ASSUME NEW n \in Length, StageFails(h, n)
      PROVE  \/ UNCHANGED tracking
             \/ lock = Nobody /\ UNCHANGED cacheVars /\ (Connect \/ Record(h) \/ RecordFails(h))
  BY <1>16 DEF StageFails
<1>17. ASSUME Upload(h)
      PROVE  \/ UNCHANGED tracking
             \/ lock = Nobody /\ UNCHANGED cacheVars /\ (Connect \/ Record(h) \/ RecordFails(h))
  BY <1>17 DEF Upload, sharedVars
<1>18. ASSUME NEW landed \in BOOLEAN, UploadFails(h, landed)
      PROVE  \/ UNCHANGED tracking
             \/ lock = Nobody /\ UNCHANGED cacheVars /\ (Connect \/ Record(h) \/ RecordFails(h))
  BY <1>18 DEF UploadFails, sharedVars
<1>19. ASSUME NEW answer \in {"done", "moved", "failed"}, Land(h, answer)
      PROVE  \/ UNCHANGED tracking
             \/ lock = Nobody /\ UNCHANGED cacheVars /\ (Connect \/ Record(h) \/ RecordFails(h))
  BY <1>19 DEF Land, sharedVars
<1>20. ASSUME LoseRace(h)
      PROVE  \/ UNCHANGED tracking
             \/ lock = Nobody /\ UNCHANGED cacheVars /\ (Connect \/ Record(h) \/ RecordFails(h))
  BY <1>20 DEF LoseRace, sharedVars
<1>21. ASSUME PushFails(h)
      PROVE  \/ UNCHANGED tracking
             \/ lock = Nobody /\ UNCHANGED cacheVars /\ (Connect \/ Record(h) \/ RecordFails(h))
  BY <1>21 DEF PushFails, sharedVars
<1>22. ASSUME Retry(h)
      PROVE  \/ UNCHANGED tracking
             \/ lock = Nobody /\ UNCHANGED cacheVars /\ (Connect \/ Record(h) \/ RecordFails(h))
  BY <1>22 DEF Retry, Connect
<1>23. ASSUME Record(h)
      PROVE  \/ UNCHANGED tracking
             \/ lock = Nobody /\ UNCHANGED cacheVars /\ (Connect \/ Record(h) \/ RecordFails(h))
  <2>1. lock = Nobody /\ UNCHANGED cacheVars
    BY <1>23 DEF Record
  <2> QED
    BY <1>23, <2>1
<1>24. ASSUME RecordFails(h)
      PROVE  \/ UNCHANGED tracking
             \/ lock = Nobody /\ UNCHANGED cacheVars /\ (Connect \/ Record(h) \/ RecordFails(h))
  <2>1. lock = Nobody /\ UNCHANGED cacheVars
    BY <1>24 DEF RecordFails
  <2> QED
    BY <1>24, <2>1
<1>25. ASSUME RecordUnlocked(h)
      PROVE  \/ UNCHANGED tracking
             \/ lock = Nobody /\ UNCHANGED cacheVars /\ (Connect \/ Record(h) \/ RecordFails(h))
  BY <1>25 DEF RecordUnlocked
<1>26. ASSUME SealStored(h)
      PROVE  \/ UNCHANGED tracking
             \/ lock = Nobody /\ UNCHANGED cacheVars /\ (Connect \/ Record(h) \/ RecordFails(h))
  BY <1>26 DEF SealStored
<1>27. ASSUME KeepStored(h)
      PROVE  \/ UNCHANGED tracking
             \/ lock = Nobody /\ UNCHANGED cacheVars /\ (Connect \/ Record(h) \/ RecordFails(h))
  BY <1>27 DEF KeepStored, sharedVars
<1>28. ASSUME DropStored(h)
      PROVE  \/ UNCHANGED tracking
             \/ lock = Nobody /\ UNCHANGED cacheVars /\ (Connect \/ Record(h) \/ RecordFails(h))
  BY <1>28 DEF DropStored
<1>29. ASSUME NEW ok \in BOOLEAN, DeleteUpload(h, ok)
      PROVE  \/ UNCHANGED tracking
             \/ lock = Nobody /\ UNCHANGED cacheVars /\ (Connect \/ Record(h) \/ RecordFails(h))
  BY <1>29 DEF DeleteUpload, sharedVars
<1>30. ASSUME Crash(h)
      PROVE  \/ UNCHANGED tracking
             \/ lock = Nobody /\ UNCHANGED cacheVars /\ (Connect \/ Record(h) \/ RecordFails(h))
  BY <1>30 DEF Crash
<1> QED
  BY <1>1, <1>2, <1>3, <1>4, <1>5, <1>6, <1>7, <1>8, <1>9, <1>10, <1>11, <1>12, <1>13,
       <1>14, <1>15, <1>16, <1>17, <1>18, <1>19, <1>20, <1>21, <1>22, <1>23, <1>24, <1>25,
       <1>26, <1>27, <1>28, <1>29, <1>30 DEF Helps

LEMMA SealStays ==
  ASSUME Inv, WholeInv, SealInv, [Next]_vars
  PROVE  SealInv'
<1> USE DEF Inv
<1>a. /\ Len(log) \in Nat /\ Len(log') \in Nat /\ DOMAIN log = 1..Len(log)
      /\ \A v \in DOMAIN log : log'[v] = log[v]
  BY LogType, HostStays DEF Grown
<1>b. /\ tracking \in 0..Len(log) /\ tracking' \in Nat /\ tracking <= tracking'
      /\ promised \subseteq promised'
  BY <1>a, RefsStay DEF TypeOK, GitOK
<1>c. \A b : \A v \in 0..Len(log), w \in Nat : v <= w /\ Safe(b, v) => Safe(b, w)'
  BY SafeStays
<1>d. \A v \in 1..tracking : v \in Walked(tracking)' => v \in Walked(tracking)
  <2>1. \A v \in 1..tracking : v..tracking \subseteq v..tracking'
    BY <1>b
  <2> QED
    BY <1>b, <2>1 DEF Walked
<1>e. tracking' = tracking => Walked(tracking)' \subseteq Walked(tracking)
  BY <1>d DEF Walked
<1>1. ASSUME NEW h \in Helper, Helps(h) PROVE SealInv'
  <2>1. Moves(h) /\ \A g \in Helper \ {h} : proc'[g] = proc[g]
    BY <1>1, StepMoves DEF Moves
  \* What is lost was of a sealed commit.
  <2>2. ASSUME NEW b \in loose \cup packed, b \notin loose' \cup packed'
        PROVE  /\ Walked(tracking) = {}
               /\ DropLoose(h) => Safe(b, tracking)
               /\ ~ DropLoose(h) => DropStored(h) /\ b \in StagedBlobs(h)
    <3>1. (DropLoose(h) /\ b \in Tree(h)) \/ (DropStored(h) /\ b \in StagedBlobs(h))
      BY <1>1, <2>2, StoredKept
    <3>2. Walked(tracking) = {}
      BY <3>1 DEF DropLoose, DropStored, At, SealInv
    <3>3. ASSUME DropLoose(h) PROVE Safe(b, tracking)
      <4>1. b \in Tree(h)
        BY <3>1, <3>3 DEF DropLoose, DropStored, At
      <4>2. proc[h].view \in 0..Len(log) /\ proc[h].view <= tracking
        BY HelperType DEF State, LockInv
      <4>3. proc[h].view \in 1..tracking /\ b \in log[proc[h].view].tree
        BY <1>b, <4>1, <4>2 DEF Tree, TreeAt
      <4> QED
        BY <3>2, <4>3, BehindPromised
    <3> QED
      BY <3>1, <3>2, <3>3
  <2>3. ASSUME NEW g \in Helper, proc'[g].pc \in {"drop loose", "drop stored"}
        PROVE  Walked(tracking)' = {}
    <3>1. CASE g # h
      <4>1. lock = g /\ Walked(tracking) = {}
        BY <2>1, <2>3, <3>1 DEF LockInv, SealInv
      <4>2. tracking' = tracking
        BY <1>1, <4>1, RefMoves, HelperAssumption
      <4> QED
        BY <1>e, <4>1, <4>2
    <3>2. CASE g = h
      <4>1. (SealLoose(h) /\ proc'[h].pc = "drop loose") \/ SealStored(h)
        BY <2>1, <2>3, <3>2 DEF Moves
      <4>2. ASSUME SealLoose(h), proc'[h].pc = "drop loose"
            PROVE  Seal(tracking) /\ tracking' = tracking
        <5>1. Goto(h, "drop fetched") => proc'[h].pc = "drop fetched"
          BY GotoWent DEF Went, Pcs
        <5> QED
          BY <4>2, <5>1 DEF SealLoose
      <4>3. SealStored(h) => Seal(tracking) /\ tracking' = tracking
        BY DEF SealStored
      <4> QED
        BY <1>b, <4>1, <4>2, <4>3, SealedAll
    <3> QED
      BY <3>1, <3>2
  <2>4. ASSUME NEW v \in Walked(tracking)', NEW b \in log'[v].tree
        PROVE  Secure(b, v)'
    <3>1. v \in 1..tracking' /\ promised' \cap (v..tracking') = {}
      BY <2>4 DEF Walked
    <3>2. CASE v <= tracking
      <4>1. v \in Walked(tracking) /\ log'[v] = log[v] /\ v \in 0..Len(log)
        BY <1>a, <1>b, <1>d, <2>4, <3>1, <3>2
      <4>2. Secure(b, v)
        BY <2>4, <4>1 DEF SealInv
      <4>3. b \in loose \cup packed => b \in loose' \cup packed'
        BY <2>2, <4>1
      <4>4. Safe(b, v) => Safe(b, v)'
        BY <1>c, <4>1
      <4> QED
        BY <4>2, <4>3, <4>4 DEF Secure
    <3>3. CASE tracking < v
      <4>1. UNCHANGED cacheVars /\ (Connect \/ Record(h) \/ RecordFails(h))
        BY <1>1, <1>b, <3>1, <3>3, RefMoves
      <4>2. Secure(b, tracking) => Secure(b, v)'
        BY <1>b, <1>c, <3>1, <3>3, <4>1 DEF Secure, cacheVars
      <4>3. ASSUME Connect PROVE Secure(b, v)'
        <5> DEFINE new == (tracking + 1)..Len(log)
        <5>1. v \in new /\ tracking' = Len(log)
          BY <1>b, <3>1, <3>3, <4>3 DEF Connect
        <5>2. Arrives # new
          <6>1. promised' = promised \cup Arrives
            BY <4>3 DEF Connect
          <6>2. v \in v..tracking'
            BY <1>b, <3>1
          <6> HIDE DEF new
          <6> QED
            BY <3>1, <5>1, <6>1, <6>2
        <5>3. log[v].tree \subseteq Here \cup Excused \cup TreeAt(tracking)
          BY <5>1, <5>2 DEF Arrives
        <5>4. log'[v] = log[v]
          BY <1>a, <1>b, <5>1
        <5>5. b \in Here \/ b \in Excused \/ b \in TreeAt(tracking)
          BY <2>4, <5>3, <5>4
        <5>6. b \in TreeAt(tracking) => Secure(b, tracking)
          BY <1>b, TreeSecure
        <5>7. b \in UNION fetched => Safe(b, tracking)
          BY DEF SealInv
        <5> QED
          BY <4>2, <5>5, <5>6, <5>7 DEF Here, Secure, Safe
      <4>4. ASSUME Record(h) \/ RecordFails(h) PROVE Secure(b, v)'
        <5>1. /\ At(h, "landed")
              /\ tracking' \in {tracking,
                    IF tracking = proc[h].view THEN proc[h].view + 1 ELSE tracking}
          BY <4>4 DEF Record, RecordFails
        <5>2. tracking = proc[h].view /\ v = proc[h].view + 1
          BY <1>b, <3>1, <3>3, <5>1
        <5>3. v \in DOMAIN log /\ log[v].tree \subseteq Tree(h) \cup StagedBlobs(h)
          BY <5>1, <5>2 DEF Landed
        <5>4. b \in Tree(h) \cup StagedBlobs(h)
          BY <1>a, <2>4, <5>3
        <5>5. b \in StagedBlobs(h) => Secure(b, tracking)
          BY <5>1 DEF SealInv, At
        <5> QED
          BY <4>2, <5>4, <5>5, TreeOfSecure
      <4> QED
        BY <4>1, <4>3, <4>4
    <3> QED
      BY <1>b, <3>1, <3>2, <3>3
  <2>5. ASSUME NEW b \in UNION fetched' PROVE Safe(b, tracking)'
    <3>1. Safe(b, tracking) => Safe(b, tracking)'
      BY <1>b, <1>c
    <3>2. CASE b \in UNION fetched
      BY <3>1, <3>2 DEF SealInv
    <3>3. CASE b \notin UNION fetched
      <4>1. EnsureBlobs(h)
        BY <1>1, <2>5, <3>3, StoreNew, CacheMoves
      <4>2. b \in Wanted(h) \ Here
        BY <2>5, <3>3, <4>1 DEF EnsureBlobs
      <4>3. b \in Tree(h)
        BY <4>2 DEF Wanted, Find
      <4> QED
        BY <3>1, <4>2, <4>3, TreeOfSecure DEF Secure, Here
    <3> QED
      BY <3>2, <3>3
  <2>6. ASSUME NEW g \in Helper, proc'[g].pc \notin {"discard", "drop stored", "delete upload"},
               NEW b \in StagedBlobs(g)'
        PROVE  Secure(b, tracking)'
    <3>1. CASE StagedBlobs(g)' = StagedBlobs(g) /\ Staged(g)' = Staged(g)
      <4>1. proc[g].pc \notin {"discard", "drop stored", "delete upload"}
        <5>1. proc'[g].staged = Nothing => StagedBlobs(g)' = {}
          BY DEF StagedBlobs, Staged
        <5> QED
          BY <2>1, <2>6, <5>1 DEF Moves
      <4>2. Secure(b, tracking)
        BY <2>6, <3>1, <4>1 DEF SealInv
      <4>3. Safe(b, tracking) => Safe(b, tracking)'
        BY <1>b, <1>c
      <4>4. ASSUME b \in loose \cup packed, b \notin loose' \cup packed'
            PROVE  Safe(b, tracking)
        <5>1. ASSUME DropStored(h), b \in StagedBlobs(h) PROVE FALSE
          <6>1. b.pack \in Staged(h) /\ b.pack \in Staged(g)
            BY <2>6, <3>1, <5>1, StagedComplete
          <6>2. g = h
            BY <6>1 DEF StagedInv
          <6> QED
            BY <4>1, <5>1, <6>2 DEF DropStored, At
        <5> QED
          BY <2>2, <4>4, <5>1
      <4> QED
        BY <4>2, <4>3, <4>4 DEF Secure
    <3>2. ASSUME g = h, NEW n \in Length, Stage(h, n), StagedBlobs(h)' = Blobs(Fresh, Cut(n))
          PROVE  Secure(b, tracking)'
      BY <2>6, <3>2, StoreNew DEF Secure
    <3> QED
      BY <1>1, <2>6, <3>1, <3>2, HoldStays
  <2> QED
    BY <2>3, <2>4, <2>5, <2>6 DEF SealInv
<1>2. ASSUME UNCHANGED <<sharedVars, proc>> PROVE SealInv'
  <2>1. UNCHANGED <<tracking, promised, loose, packed, fetched>>
    BY <1>2 DEF sharedVars, cacheVars
  <2>2. \A b : \A v \in 0..tracking : Safe(b, v) => Safe(b, v)'
    BY <1>b, <1>c
  <2>3. Walked(tracking)' = Walked(tracking) /\ Walked(tracking) \subseteq 1..tracking
    BY <2>1 DEF Walked
  <2>4. \A v \in Walked(tracking) : log'[v] = log[v] /\ v \in 0..tracking
    BY <1>a, <1>b, <2>3
  <2>5. \A v \in Walked(tracking)' : \A b \in log'[v].tree : Secure(b, v)'
    BY <2>1, <2>2, <2>3, <2>4 DEF SealInv, Secure
  <2>6. tracking \in 0..tracking
    BY <1>b
  <2>7. \A b \in UNION fetched' : Safe(b, tracking)'
    BY <2>1, <2>2, <2>6 DEF SealInv
  <2>8. \A g \in Helper : StagedBlobs(g)' = StagedBlobs(g) /\ proc'[g] = proc[g]
    BY <1>2, SamePack
  <2>9. \A b : Secure(b, tracking) => Secure(b, tracking)'
    BY <2>1, <2>2, <2>6 DEF Secure
  <2> QED
    BY <2>3, <2>5, <2>7, <2>8, <2>9 DEF SealInv
<1> QED
  BY <1>1, <1>2, Steps DEF OthersStep, Others, vars

-----------------------------------------------------------------------------
\* The theorems.

CacheInv ==
  Inv /\ WholeInv /\ UploadsOwned /\ OwnedInv /\ RetryInv /\ SealInv

LEMMA CacheStart ==
  ASSUME Init
  PROVE  CacheInv
<1>1. Inv
  BY Start
<1>2. /\ log = <<>> /\ DOMAIN log = {} /\ tracking = 0 /\ uploads = {}
      /\ loose = {} /\ packed = {} /\ fetched = {}
  BY DEF Init
<1>3. ASSUME NEW h \in Helper
      PROVE  proc[h].pc = "idle" /\ proc[h].staged = Nothing /\ StagedBlobs(h) = {}
  <2>1. proc[h].pc = "idle" /\ proc[h].staged = Nothing
    BY DEF Init, Idle
  <2> QED
    BY <2>1 DEF StagedBlobs, Staged
<1>4. WholeInv
  BY <1>2 DEF WholeInv, Cuts
<1>5. UploadsOwned
  BY <1>2 DEF UploadsOwned
<1>6. OwnedInv
  BY <1>2, <1>3 DEF OwnedInv, PacksIn, At
<1>7. RetryInv
  BY <1>3 DEF RetryInv
<1>8. Walked(tracking) = {}
  BY <1>2 DEF Walked
<1>9. SealInv
  BY <1>2, <1>3, <1>8 DEF SealInv
<1> QED
  BY <1>1, <1>4, <1>5, <1>6, <1>7, <1>9 DEF CacheInv

LEMMA CacheKept ==
  ASSUME CacheInv, [Next]_vars
  PROVE  CacheInv'
<1>1. Inv'
  BY Kept DEF CacheInv
<1> QED
  BY <1>1, WholeStays, UploadsStay, OwnedStays, RetryStays, SealStays DEF CacheInv, Inv

LEMMA CacheAlways == Spec => []CacheInv
<1>1. Init => CacheInv
  BY CacheStart
<1>2. CacheInv /\ [Next]_vars => CacheInv'
  BY CacheKept
<1> QED
  BY <1>1, <1>2, PTL DEF Spec

(* Whatever helpers drop behind git's back, and wherever one of them fails *)
(* or dies, a walk of the backend repository finds each blob here or       *)
(* promised by the remote, but for a pack a retry pushed again: what       *)
(* `seal`, `drop_blobs` and the fetch lock are for.                        *)
THEOREM NothingIsMissing == Spec => []NoBrokenLink
<1>1. CacheInv => NoBrokenLink
  <2> SUFFICES ASSUME CacheInv, NEW v \in Walked(tracking), NEW b \in log[v].tree
               PROVE  b \in Here \cup Excused \/ PushedAgain(b.pack, v)
    BY DEF NoBrokenLink
  <2>1. Secure(b, v)
    BY DEF CacheInv, SealInv
  <2> QED
    BY <2>1 DEF Secure, Safe, Here
<1> QED
  BY <1>1, CacheAlways, PTL

(* A pack is there to be sent however often its push loses the race, and   *)
(* whatever the other helpers fetch and discard meanwhile, unless it has   *)
(* landed unheard: its blobs, or the staging branch that has some of them. *)
THEOREM RetriesHaveTheirBlobs == Spec => []RetryHasBlobs
<1>1. CacheInv => RetryHasBlobs
  BY RetryCanSend DEF CacheInv, Inv
<1> QED
  BY <1>1, CacheAlways, PTL

(* No pack blob outlives the helpers that use it, but of packs a failed    *)
(* step or a killed helper handled: lost races, reuse, recorded pushes and *)
(* fetches all drop what they stored (`discard`, `fetch_packs`).           *)
THEOREM BlobsHaveOwners == Spec => []CachedBlobsOwned
<1>1. CacheInv => CachedBlobsOwned
  BY BlobsOwned DEF CacheInv, Inv
<1> QED
  BY <1>1, CacheAlways, PTL

(* No staging branch outlives its helper, but where its deletion failed or *)
(* its helper could not know of it (`upload`, `discard`).                  *)
THEOREM UploadsHaveOwners == Spec => []UploadsOwned
<1>1. CacheInv => UploadsOwned
  BY DEF CacheInv
<1> QED
  BY <1>1, CacheAlways, PTL

(* However a pack was cut, whoever pushed it, and whichever retry or       *)
(* repack carried it on: the tree that lists it holds all its parts, and   *)
(* `find` returns these and no other (`part_names`, `pack_blobs`).         *)
THEOREM ListedPacksAreWhole == Spec => []ListedPacksWhole
<1>1. CacheInv => ListedPacksWhole
  BY ListedWhole DEF CacheInv, Inv
<1> QED
  BY <1>1, CacheAlways, PTL

=============================================================================
