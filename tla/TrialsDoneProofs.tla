-------------------------- MODULE TrialsDoneProofs --------------------------
(***************************************************************************)
(* No two trials ever have the same number: the numbers of earlier         *)
(* checkpoints are below those of later ones, the attribute max_trial on   *)
(* disk and maxTrial_ in memory are as high as every row they stand for,   *)
(* and so a new trial's number is above all that are on disk. Which trials *)
(* are done: those that have a row, those of the batches that are over,    *)
(* and what crashes, consolidation and the user make of them. And no two   *)
(* trials on disk have the same unique ID, as long as no rank draws more   *)
(* IDs than are set aside for it, whatever faults there are.               *)
(***************************************************************************)
EXTENDS CheckpointedRunProofs

USE DEF sessionVars, setupVars, trialVars, signalVars, rootVars

-----------------------------------------------------------------------------
(* The numbers of earlier trials.                                          *)

HighInv == EarlierLower /\ HighestKnown

\* What a restart reads as the highest number is as high as any row there is.
LEMMA ReadableCovers ==
  ASSUME HighestAccurate, NEW c \in Chk, Readable(c)
  PROVE  Covers(RestartMaxTrial(c), c)
<1>1. RestartFile(c) \in RestartSource(c)  BY DEF Readable, RestartFile
<1>2. /\ \A f \in RestartSource(c) : f.st = "closed"
      /\ \A f, g \in RestartSource(c) : f.mx = g.mx
  BY DEF Readable, AttrsAgree, HasAttrs
<1>3. CASE HasH5(c)
  <2>1. RestartFile(c) = h5[c] /\ h5[c].st = "closed"  BY <1>1, <1>2, <1>3 DEF RestartSource
  <2> QED BY <2>1 DEF HighestAccurate, RestartMaxTrial
<1>4. CASE ~HasH5(c)
  <2>1. RestartSource(c) = {files[c][r] : r \in RanksIn(c)}  BY <1>4 DEF RestartSource
  <2>2. PICK r \in RanksIn(c) : RestartFile(c) = files[c][r]  BY <1>1, <2>1
  <2>3. Settled(c)  BY <1>2, <2>1 DEF Settled, HasAttrs
  <2> QED BY <2>2, <2>3 DEF HighestAccurate, RestartMaxTrial
<1> QED BY <1>3, <1>4

\* The rows there are have numbers.
LEMMA RowTypes ==
  ASSUME DiskTypeOK
  PROVE  /\ \A c \in Chk : \A row \in RowsIn(c) : row.trial \in Nat
         /\ \A r : \A row \in EarlierRows(r) : row.trial \in Nat
<1>1. ASSUME NEW c \in Chk
      PROVE  RowsIn(c) \subseteq Row
  <2>1. h5[c].rows \subseteq Row /\ \A q \in Rank : files[c][q].rows \subseteq Row
    BY DEF DiskTypeOK, File
  <2> QED BY <2>1 DEF RowsIn
<1> QED BY <1>1 DEF EarlierRows, Row

\* Earlier checkpoints get no rows.
LEMMA EarlierKept ==
  ASSUME NEW r, chkNum'[r] = chkNum[r], \A c \in Chk : c < chkNum[r] => RowsIn(c)' \subseteq RowsIn(c)
  PROVE  EarlierRows(r)' \subseteq EarlierRows(r)
BY DEF EarlierRows

\* r begins no other batch, and neither do the rows of earlier checkpoints change.
LEMMA LowerKept ==
  ASSUME EarlierLower, NEW r \in Rank, Knows(r), GoingOn(r),
         EarlierRows(r)' \subseteq EarlierRows(r), BatchFirst(r)' = BatchFirst(r)
  PROVE  \A row \in EarlierRows(r)' : row.trial < BatchFirst(r)'
BY DEF EarlierLower

\* The highest numbers do not go down.
LEMMA KnownKept ==
  ASSUME HighestKnown, IInv, IInv', size' = size, NEW r \in Rank, Knows(r),
         EarlierRows(r)' \subseteq EarlierRows(r),
         \A q \in Rank : maxTrial[q] <= maxTrial'[q]
  PROVE  \A row \in EarlierRows(r)' : \E q \in Active' : row.trial <= maxTrial'[q]
<1> SUFFICES ASSUME NEW row \in EarlierRows(r)
             PROVE  \E q \in Active' : row.trial <= maxTrial'[q]
  OBVIOUS
<1>1. PICK q \in Active : row.trial <= maxTrial[q]  BY DEF HighestKnown
<1>2. q \in Active' /\ q \in Rank /\ row.trial \in Nat
  BY ActiveRanks, RowTypes DEF Active, IInv, TypeOK
<1>3. maxTrial[q] \in Nat /\ maxTrial'[q] \in Nat  BY <1>2 DEF IInv, TypeOK
<1> QED BY <1>1, <1>2, <1>3

\* A step that writes no row, raises no number, and begins no batch.
LEMMA HighFrame ==
  ASSUME HighInv, IInv, IInv', NoNewRows,
         UNCHANGED <<size, restartMax, maxTrial>>,
         \A q \in Rank :
           /\ inRun[q] => inRun'[q]
           /\ Knows(q)' => Knows(q) /\ chkNum'[q] = chkNum[q]
           /\ Knows(q)' /\ GoingOn(q)' => GoingOn(q) /\ BatchFirst(q)' = BatchFirst(q)
           /\ HasFile(q)' => HasFile(q) \/ OwnFile(q)'.rows = {}
  PROVE  HighInv'
<1>1. ASSUME NEW q \in Rank, Knows(q)'
      PROVE  EarlierRows(q)' \subseteq EarlierRows(q)
  BY <1>1, EarlierKept DEF NoNewRows
<1>2. EarlierLower'  BY <1>1, LowerKept DEF HighInv, EarlierLower
<1>3. ASSUME NEW q \in Rank, HasFile(q)', NEW row \in OwnFile(q)'.rows
      PROVE  row.trial <= maxTrial'[q]
  <2>1. Knows(q)' /\ HasFile(q)  BY <1>3 DEF HasFile, Knows, RunPcs
  <2>2. chkNum[q] \in Chk  BY DEF IInv, TypeOK
  <2>3. OwnFile(q)'.rows \subseteq OwnFile(q).rows  BY <2>1, <2>2 DEF NoNewRows, OwnFile
  <2> QED BY <1>3, <2>1, <2>3 DEF HighInv, HighestKnown
<1>4. \A q \in Rank : maxTrial[q] <= maxTrial'[q]  BY DEF IInv, TypeOK
<1>5. ASSUME NEW q \in Rank, Knows(q)', NEW row \in EarlierRows(q)'
      PROVE  \E p \in Active' : row.trial <= maxTrial'[p]
  BY <1>1, <1>4, <1>5, KnownKept DEF HighInv
<1>6. HighestKnown'  BY <1>3, <1>5 DEF HighInv, HighestKnown
<1> QED BY <1>2, <1>6 DEF HighInv

\* No rank knows of a checkpoint of its own.
LEMMA HighAside ==
  ASSUME \A q \in Rank :
           /\ pc'[q] \in {"idle", "setup", "finalize", "merge"}
           /\ restartMax'[q] <= maxTrial'[q]
           /\ ~inRun'[q] => maxTrial'[q] = restartMax'[q]
  PROVE  HighInv'
BY DEF HighInv, EarlierLower, HighestKnown, Knows, NameFree, HasFile, DirPcs, RunPcs, SyncPcs

\* A constructor reads the highest number.
LEMMA HighSetup ==
  ASSUME IInv, IInv', HighInv, NoNewRows, NEW r \in Rank, Setup(r)
  PROVE  HighInv'
<1> USE DEF DirPcs, RunPcs, SyncPcs
<1>1. /\ pc \in [Rank -> {"idle"} \cup CollectivePcs \cup LocalPcs]
      /\ maxTrial \in [Rank -> Nat] /\ restartMax \in [Rank -> Nat] /\ chkNum \in [Rank -> Chk]
      /\ prior \in [Rank -> Nat] /\ exit \in [Rank -> {"none", "done", "sigterm", "error"}]
  BY DEF IInv, TypeOK
<1>2. /\ pc[r] = "setup" /\ ~inRun[r] /\ restartMax[r] = 0 /\ maxTrial[r] = 0
      /\ UNCHANGED <<size, restart, inRun, batchStart>>
      /\ \E p \in {"open_check", "finalize"} : pc' = [pc EXCEPT ![r] = p]
  BY DEF Setup, SetupThrows, SetupFresh, SetupRestart, ConstructorThrows, IInv,
         FreshUntilSetup, HighInv, HighestKnown
<1>3. \A q \in Rank : Knows(q)' => q # r  BY <1>1, <1>2 DEF Knows, NameFree
<1>4. \A q \in Rank : HasFile(q)' => q # r  BY <1>1, <1>2 DEF HasFile
<1>5. \A q \in Rank : q # r =>
        /\ pc'[q] = pc[q] /\ exit'[q] = exit[q] /\ prior'[q] = prior[q]
        /\ chkNum'[q] = chkNum[q] /\ restartMax'[q] = restartMax[q] /\ maxTrial'[q] = maxTrial[q]
  BY <1>1 DEF Setup, SetupThrows, SetupFresh, SetupRestart, ConstructorThrows
<1>6. maxTrial'[r] = restartMax'[r] /\ maxTrial'[r] \in Nat
  <2>1. CASE SetupRestart(r)  BY <1>1, <2>1 DEF SetupRestart, IInv, TypeOK
  <2>2. CASE ~SetupRestart(r)  BY <1>1, <1>2, <2>2 DEF Setup, SetupThrows, SetupFresh
  <2> QED BY <2>1, <2>2
<1>7. \A q \in Rank : maxTrial[q] <= maxTrial'[q]  BY <1>1, <1>2, <1>5, <1>6
<1>8. ASSUME NEW q \in Rank, Knows(q)'
      PROVE  /\ Knows(q) /\ EarlierRows(q)' \subseteq EarlierRows(q)
             /\ GoingOn(q)' => GoingOn(q) /\ BatchFirst(q)' = BatchFirst(q)
  <2>1. /\ q # r /\ pc'[q] = pc[q] /\ exit'[q] = exit[q] /\ prior'[q] = prior[q]
        /\ chkNum'[q] = chkNum[q] /\ restartMax'[q] = restartMax[q]
    BY <1>3, <1>5, <1>8
  <2>2. Knows(q) /\ (GoingOn(q)' => GoingOn(q))
    BY <1>2, <1>8, <2>1 DEF Knows, NameFree, GoingOn, Constructed, Closing
  <2>3. BatchFirst(q)' = BatchFirst(q)
    BY <1>2, <2>1
    DEF BatchFirst, Closing, BatchSize, NumberingStart, TrialsRemaining
  <2> QED BY <2>1, <2>2, <2>3, EarlierKept DEF NoNewRows
<1>9. EarlierLower'  BY <1>8, LowerKept DEF HighInv, EarlierLower
<1>10. ASSUME NEW q \in Rank
       PROVE  /\ restartMax'[q] <= maxTrial'[q]
              /\ ~inRun'[q] => maxTrial'[q] = restartMax'[q]
  BY <1>1, <1>2, <1>5, <1>6 DEF HighInv, HighestKnown
<1>11. ASSUME NEW q \in Rank, HasFile(q)', NEW row \in OwnFile(q)'.rows
       PROVE  row.trial <= maxTrial'[q]
  <2>1. q # r /\ HasFile(q)  BY <1>4, <1>5, <1>11 DEF HasFile
  <2>2. OwnFile(q)'.rows \subseteq OwnFile(q).rows  BY <1>1, <1>5, <2>1 DEF NoNewRows, OwnFile
  <2> QED BY <1>5, <1>11, <2>1, <2>2 DEF HighInv, HighestKnown
<1>12. ASSUME NEW q \in Rank, Knows(q)'
       PROVE  \A row \in EarlierRows(q)' : \E p \in Active' : row.trial <= maxTrial'[p]
  BY <1>2, <1>7, <1>8, <1>12, KnownKept DEF HighInv
<1>13. HighestKnown'  BY <1>10, <1>11, <1>12 DEF HighestKnown
<1> QED BY <1>9, <1>13 DEF HighInv

\* A rank finds the name of its checkpoint free: the rows there are have lower
\* numbers than it begins with.
LEMMA HighCheck ==
  ASSUME IInv, IInv', HighInv, SetupReads, HighestAccurate, NEW r \in Rank, OpenCheck(r)
  PROVE  HighInv'
<1> USE DEF DirPcs, RunPcs, SyncPcs
<1>1. /\ pc[r] = "open_check" /\ pc' = [pc EXCEPT ![r] = "open_checked"]
      /\ UNCHANGED <<sessions, size, restart, outcome, inRun, exit, prior, restartMax, chkNum,
                     batchStart, maxTrial, hasDir, files, h5>>
  BY DEF OpenCheck, disk
<1>2. /\ pc \in [Rank -> {"idle"} \cup CollectivePcs \cup LocalPcs] /\ r \in Active
      /\ \A q \in Rank : maxTrial[q] \in Nat /\ restartMax[q] \in Nat /\ chkNum[q] \in Chk
      /\ restart \in BOOLEAN
  BY <1>1, ActiveRanks DEF IInv, TypeOK
<1>3. NoNewRows  BY <1>1, RowsMoved, RowsOfFile
<1>4. CASE inRun[r]
  <2>1. /\ \A q \in Rank : Knows(q)' => Knows(q)
        /\ \A q \in Rank : HasFile(q)' => HasFile(q)
    BY <1>1, <1>2, <1>4 DEF Knows, NameFree, HasFile
  <2>2. \A q \in Rank : GoingOn(q)' => GoingOn(q)  BY <1>1, <1>2 DEF GoingOn, Constructed, Closing
  <2>3. \A q \in Rank : BatchFirst(q)' = BatchFirst(q)
    BY <1>1, <1>2 DEF BatchFirst, Closing, BatchSize, NumberingStart, TrialsRemaining
  <2> QED BY <1>1, <1>3, <2>1, <2>2, <2>3, HighFrame
<1>5. CASE ~inRun[r]
  <2>1. ASSUME NEW row \in EarlierRows(r)
        PROVE  row.trial < BatchFirst(r)' /\ row.trial <= maxTrial[r]
    <3>1. BatchFirst(r)' = NumberingStart(r) /\ maxTrial[r] = restartMax[r]
      BY <1>1, <1>2, <1>5 DEF BatchFirst, Closing, NumberingStart, HighInv, HighestKnown
    <3>2. PICK d \in Chk : d < chkNum[r] /\ row \in RowsIn(d)  BY DEF EarlierRows
    <3>3. restart /\ FoundCheckpoints # {}  BY <1>1, <1>2, <1>5, <3>2 DEF IInv, SetupReadsDisk, Chk
    <3>4. /\ restartMax[r] = RestartMaxTrial(MaxCheckpoint) /\ chkNum[r] = MaxCheckpoint + 1
          /\ Readable(MaxCheckpoint) /\ MaxCheckpoint \in Chk
      BY <1>1, <1>2, <1>5, <3>3, MaxCheckpointType DEF IInv, SetupReadsDisk, SetupReads
    <3>5. d \in 0 .. MaxCheckpoint  BY <3>2, <3>4, OutputAssumption DEF Chk
    <3>6. row.trial <= restartMax[r]  BY <3>2, <3>4, <3>5, ReadableCovers DEF Covers
    <3>7. row.trial \in Nat  BY RowTypes DEF IInv, TypeOK
    <3> QED BY <1>2, <3>1, <3>3, <3>6, <3>7 DEF NumberingStart
  <2>2. \A q \in Rank : EarlierRows(q)' \subseteq EarlierRows(q)
    BY <1>1, <1>3, EarlierKept DEF NoNewRows
  <2>3. ASSUME NEW q \in Rank, Knows(q)', q # r
        PROVE  /\ Knows(q) /\ BatchFirst(q)' = BatchFirst(q)
               /\ GoingOn(q)' => GoingOn(q)
    BY <1>1, <1>2, <2>3
    DEF Knows, NameFree, GoingOn, Constructed, BatchFirst, Closing, BatchSize,
        NumberingStart, TrialsRemaining
  <2>4. EarlierLower'
    <3> SUFFICES ASSUME NEW q \in Rank, Knows(q)', GoingOn(q)'
                 PROVE  \A row \in EarlierRows(q)' : row.trial < BatchFirst(q)'
      BY DEF EarlierLower
    <3>1. CASE q = r  BY <2>1, <2>2, <3>1
    <3>2. CASE q # r  BY <2>2, <2>3, <3>2, LowerKept DEF HighInv
    <3> QED BY <3>1, <3>2
  <2>5. ASSUME NEW q \in Rank, Knows(q)'
        PROVE  \A row \in EarlierRows(q)' : \E p \in Active' : row.trial <= maxTrial'[p]
    <3>1. CASE q = r  BY <1>1, <1>2, <2>1, <2>2, <3>1 DEF Active
    <3>2. CASE q # r
      <4>1. \A p \in Rank : maxTrial[p] <= maxTrial'[p]  BY <1>1, <1>2
      <4> QED BY <1>1, <2>2, <2>3, <2>5, <3>2, <4>1, KnownKept DEF HighInv
    <3> QED BY <3>1, <3>2
  <2>6. \A q \in Rank : HasFile(q)' => HasFile(q) /\ OwnFile(q)' = OwnFile(q)
    BY <1>1, <1>2 DEF HasFile, OwnFile
  <2>7. HighestKnown'  BY <1>1, <2>5, <2>6 DEF HighInv, HighestKnown
  <2> QED BY <2>4, <2>7 DEF HighInv
<1> QED BY <1>4, <1>5

\* A trial writes its row into the current checkpoint, and notes its number.
LEMMA HighWrite ==
  ASSUME IInv, IInv', HighInv, NEW r \in Rank, NEW t \in Thread, WriteTrial(r, t)
  PROVE  HighInv'
<1> DEFINE n == task[r][t].trial
<1>1. /\ UNCHANGED <<size, restart, pc, inRun, exit, prior, restartMax, chkNum, batchStart>>
      /\ maxTrial' = [maxTrial EXCEPT ![r] = MaxTrialAfter(r, n)]
      /\ task[r][t].st = "begun"
  BY DEF WriteTrial, TaskUnchanged
<1>2. /\ OnlyFile(chkNum[r], r)
      /\ files'[chkNum[r]][r].rows = files[chkNum[r]][r].rows
           \cup {[trial |-> n, uid |-> task[r][t].uid]}
  BY WriteEffect
<1>3. /\ pc[r] = "batch" /\ n \in Nat
      /\ maxTrial \in [Rank -> Nat]
      /\ \A q \in Rank : maxTrial[q] \in Nat /\ restartMax[q] \in Nat /\ chkNum[q] \in Chk
  <2>1. task[r][t] \in Task  BY DEF IInv, TypeOK
  <2> QED BY <1>1, <2>1 DEF Task, IInv, TypeOK, TrialsOnlyInBatch
<1>4. ASSUME NEW q \in Rank, Knows(q)
      PROVE  chkNum[q] = chkNum[r]
  <2>1. q \in Active  BY <1>4, ActiveRanks DEF Knows, NameFree, DirPcs, RunPcs, SyncPcs
  <2>2. pc[r] \in RunPcs  BY <1>3 DEF RunPcs
  <2> QED BY <2>1, <2>2, Together
<1>5. ASSUME NEW q \in Rank, Knows(q)
      PROVE  EarlierRows(q)' \subseteq EarlierRows(q)
  <2>1. ASSUME NEW c \in Chk, c < chkNum[q]
        PROVE  RowsIn(c)' \subseteq RowsIn(c)
    <3>1. c # chkNum[r]  BY <1>3, <1>4, <1>5, <2>1 DEF Chk
    <3> QED BY <1>2, <3>1 DEF RowsIn, OnlyFile
  <2> QED BY <1>1, <2>1, EarlierKept
<1>6. ASSUME NEW q \in Rank
      PROVE  /\ Knows(q)' = Knows(q) /\ HasFile(q)' = HasFile(q) /\ GoingOn(q)' = GoingOn(q)
             /\ BatchFirst(q)' = BatchFirst(q)
  BY <1>1
  DEF Knows, NameFree, HasFile, GoingOn, Constructed, BatchFirst, Closing, BatchSize,
      NumberingStart, TrialsRemaining
<1>7. EarlierLower'  BY <1>5, <1>6, LowerKept DEF HighInv, EarlierLower
<1>8. \A q \in Rank : /\ maxTrial[q] <= maxTrial'[q]
                      /\ q # r => maxTrial'[q] = maxTrial[q]
  BY <1>1, <1>3 DEF MaxTrialAfter
<1>9. n <= maxTrial'[r]  BY <1>1, <1>3 DEF MaxTrialAfter
<1>10. ASSUME NEW q \in Rank
       PROVE  /\ restartMax'[q] <= maxTrial'[q]
              /\ ~inRun'[q] => maxTrial'[q] = restartMax'[q]
  <2>1. restartMax[q] <= maxTrial[q] /\ maxTrial'[q] \in Nat
    BY DEF HighInv, HighestKnown, IInv, TypeOK
  <2>2. inRun[r]  BY <1>3 DEF IInv, InRunWhenClosing
  <2> QED BY <1>1, <1>3, <1>8, <2>1, <2>2 DEF HighInv, HighestKnown
<1>11. ASSUME NEW q \in Rank, HasFile(q)', NEW row \in OwnFile(q)'.rows
       PROVE  row.trial <= maxTrial'[q]
  <2>1. HasFile(q) /\ (row \in OwnFile(q).rows \/ (q = r /\ row.trial = n))
    BY <1>1, <1>2, <1>3, <1>6, <1>11 DEF OwnFile, OnlyFile
  <2>2. CASE row \in OwnFile(q).rows
    <3>1. row.trial <= maxTrial[q]  BY <2>1, <2>2 DEF HighInv, HighestKnown
    <3>2. row.trial \in Nat /\ maxTrial'[q] \in Nat
      <4>1. row \in RowsIn(chkNum[q])  BY <1>3, <2>2, RowsOfFile DEF OwnFile
      <4> QED BY <1>3, <4>1, RowTypes DEF IInv, TypeOK
    <3> QED BY <1>3, <1>8, <3>1, <3>2
  <2> QED BY <1>9, <2>1, <2>2
<1>12. ASSUME NEW q \in Rank, Knows(q)'
       PROVE  \A row \in EarlierRows(q)' : \E p \in Active' : row.trial <= maxTrial'[p]
  BY <1>1, <1>5, <1>6, <1>8, <1>12, KnownKept DEF HighInv
<1>13. HighestKnown'  BY <1>10, <1>11, <1>12 DEF HighestKnown
<1> QED BY <1>7, <1>13 DEF HighInv

\* When the ranks roll over, the rows of the checkpoint they leave are of the
\* batch they have done.
LEMMA RolledRows ==
  ASSUME IInv, BatchInv, OwnInv, NoFileNoRows, TrialInv,
         NEW q \in Rank, pc[q] = "synced", exit[q] = "none", NEW row \in RowsIn(chkNum[q])
  PROVE  \E p \in Active : /\ row \in OwnFile(p).rows
                           /\ row.trial < batchStart[q] + BatchSize(q)
<1>1. /\ chkNum[q] \in Chk /\ q \in Active /\ Knows(q) /\ GoingOn(q)
      /\ Closing(q)
  BY ActiveRanks DEF IInv, TypeOK, Knows, SyncPcs, GoingOn, Constructed, Closing
<1>2. h5[chkNum[q]].rows = {}  BY <1>1 DEF OwnInv, OnlyOurFiles, HasH5, NoFileNoRows
<1>3. PICK p \in Rank : row \in files[chkNum[q]][p].rows  BY <1>2 DEF RowsIn
<1>4. files[chkNum[q]][p].st # "none"  BY <1>1, <1>3 DEF NoFileNoRows
<1>5. p \in Active  BY <1>1, <1>4 DEF OwnInv, OnlyOurFiles
<1>6. pc[p] \in SyncPcs /\ chkNum[p] = chkNum[q]  BY <1>5, Together DEF SyncPcs
<1>7. GoingOn(p) /\ Closing(p) /\ inRun[p] /\ HasFile(p)
  BY <1>1, <1>5, <1>6
  DEF IInv, RanksAgree, GoingOn, Closing, Constructed, SyncPcs, InRunWhenClosing, HasFile
<1>8. batchStart[p] = batchStart[q] /\ BatchSize(p) = BatchSize(q)
  BY <1>1, <1>5, <1>7, SameBatch DEF BatchFirst
<1>9. batchStart[p] + BatchSize(p) < NumberingEnd(p)
  BY <1>6, <1>7 DEF BatchInv, RolloverGoesOn, SyncPcs
<1>10. batchStart[p] \in Nat /\ BatchSize(p) \in Nat /\ NumberingEnd(p) \in Nat
  BY NumberingType DEF IInv, TypeOK
<1>11. /\ SliceFirst(p, batchStart[p], BatchEnd(p)) \in Nat /\ SliceLast(p) \in Nat
       /\ SliceLast(p) <= BatchEnd(p) /\ BatchEnd(p) \in Nat
       /\ BatchEnd(p) <= batchStart[p] + BatchSize(p)
  BY <1>5, <1>9, <1>10, SliceBounds
<1>12. row \in OwnFile(p).rows  BY <1>3, <1>6 DEF OwnFile
<1>13. row.trial \in OwnSlice(p)  BY <1>7, <1>12 DEF TrialInv, RowsTaken, Taken
<1>14. row.trial < SliceLast(p)  BY <1>11, <1>13 DEF OwnSlice
<1>15. row.trial < batchStart[p] + BatchSize(p)
  <2>1. row.trial \in Int  BY <1>11, <1>13 DEF OwnSlice
  <2> QED BY <1>10, <1>11, <1>14, <2>1
<1> QED BY <1>5, <1>8, <1>12, <1>15

LEMMA HighBarrier ==
  ASSUME IInv, IInv', HighInv, BatchInv, OwnInv, NoFileNoRows, TrialInv, Barrier
  PROVE  HighInv'
<1> USE DEF DirPcs, RunPcs, SyncPcs
<1>1. /\ UNCHANGED <<size, restart, inRun, exit, prior, restartMax, batchStart, maxTrial, files, h5>>
      /\ \A q \in Active : pc[q] \in BarrierPcs
      /\ \A q \in Rank :
           /\ pc'[q] = AfterBarrier(q)
           /\ chkNum'[q] = IF pc[q] = "synced" /\ exit[q] = "none" THEN chkNum[q] + 1
                           ELSE chkNum[q]
  BY DEF Barrier, NextCheckpointNumber, disk
<1>2. /\ \A q \in Rank : q \in Active \/ pc[q] = "idle"
      /\ Active' = Active /\ Active \subseteq Rank
      /\ \A q \in Rank : maxTrial[q] \in Nat /\ chkNum[q] \in Chk /\ chkNum'[q] \in Chk
      /\ \A q \in Rank : batchStart[q] \in Nat /\ BatchSize(q) \in Nat
  BY <1>1, ActiveRanks, NumberingType DEF Active, IInv, TypeOK
<1>3. \A q \in Rank :
        /\ NumberingStart(q)' = NumberingStart(q) /\ BatchSize(q)' = BatchSize(q)
  BY <1>1, NumberingSame
<1>4. \A c \in Chk : RowsIn(c)' = RowsIn(c)  BY <1>1 DEF RowsIn
<1>5. ASSUME NEW q \in Rank, Knows(q)'
      PROVE  Knows(q) /\ (GoingOn(q)' => GoingOn(q))
  BY <1>1, <1>2, <1>5
  DEF Knows, NameFree, GoingOn, Constructed, Closing, AfterBarrier, BarrierPcs
<1>6. ASSUME NEW q \in Rank, Knows(q)', pc[q] # "synced"
      PROVE  /\ EarlierRows(q)' \subseteq EarlierRows(q)
             /\ BatchFirst(q)' = BatchFirst(q)
  <2>1. EarlierRows(q)' \subseteq EarlierRows(q)  BY <1>1, <1>4, <1>6, EarlierKept
  <2>2. BatchFirst(q)' = BatchFirst(q)
    BY <1>1, <1>2, <1>3, <1>5, <1>6
    DEF Knows, BatchFirst, Closing, AfterBarrier, BarrierPcs
  <2> QED BY <2>1, <2>2
<1>7. ASSUME NEW q \in Rank, Knows(q)', pc[q] = "synced"
      PROVE  /\ exit[q] = "none" /\ chkNum'[q] = chkNum[q] + 1
             /\ BatchFirst(q) = batchStart[q]
             /\ BatchFirst(q)' = batchStart[q] + BatchSize(q)
             /\ GoingOn(q)
             /\ EarlierRows(q)' \subseteq EarlierRows(q) \cup RowsIn(chkNum[q])
  <2>1. exit[q] = "none" /\ pc'[q] = "open_check" /\ inRun[q] /\ chkNum'[q] = chkNum[q] + 1
    BY <1>1, <1>7 DEF Knows, NameFree, AfterBarrier, IInv, InRunWhenClosing, Closing
  <2>2. BatchFirst(q) = batchStart[q] /\ BatchFirst(q)' = batchStart[q] + BatchSize(q)
    BY <1>1, <1>3, <1>7, <2>1 DEF BatchFirst, Closing
  <2>3. GoingOn(q)  BY <1>7, <2>1 DEF GoingOn, Constructed
  <2>4. EarlierRows(q)' \subseteq EarlierRows(q) \cup RowsIn(chkNum[q])
    <3>1. \A d \in Chk : d < chkNum'[q] => d < chkNum[q] \/ d = chkNum[q]  BY <1>2, <2>1 DEF Chk
    <3> QED BY <1>4, <3>1 DEF EarlierRows
  <2> QED BY <2>1, <2>2, <2>3, <2>4
<1>8. EarlierLower'
  <2> SUFFICES ASSUME NEW q \in Rank, Knows(q)', GoingOn(q)', NEW row \in EarlierRows(q)'
               PROVE  row.trial < BatchFirst(q)'
    BY DEF EarlierLower
  <2>1. CASE pc[q] # "synced"  BY <1>5, <1>6, <2>1, LowerKept DEF HighInv
  <2>2. CASE pc[q] = "synced"
    <3>1. /\ exit[q] = "none" /\ GoingOn(q) /\ Knows(q)
          /\ BatchFirst(q) = batchStart[q] /\ BatchFirst(q)' = batchStart[q] + BatchSize(q)
          /\ row \in EarlierRows(q) \cup RowsIn(chkNum[q])
      BY <1>5, <1>7, <2>2
    <3>2. CASE row \in EarlierRows(q)
      <4>1. row.trial < batchStart[q] /\ row.trial \in Nat
        BY <3>1, <3>2, RowTypes DEF HighInv, EarlierLower, IInv, TypeOK
      <4> QED BY <1>2, <3>1, <4>1
    <3>3. CASE row \in RowsIn(chkNum[q])
      <4>1. row.trial < batchStart[q] + BatchSize(q)  BY <2>2, <3>1, <3>3, RolledRows
      <4> QED BY <3>1, <4>1
    <3> QED BY <3>1, <3>2, <3>3
  <2> QED BY <2>1, <2>2
<1>9. ASSUME NEW q \in Rank, Knows(q)', NEW row \in EarlierRows(q)'
      PROVE  \E p \in Active' : row.trial <= maxTrial'[p]
  <2>0. \A p \in Rank : maxTrial[p] <= maxTrial'[p]  BY <1>1, <1>2
  <2>1. CASE pc[q] # "synced"  BY <1>1, <1>5, <1>6, <1>9, <2>0, <2>1, KnownKept DEF HighInv
  <2>2. CASE pc[q] = "synced"
    <3>1. /\ exit[q] = "none" /\ Knows(q)
          /\ row \in EarlierRows(q) \cup RowsIn(chkNum[q])
      BY <1>5, <1>7, <1>9, <2>2
    <3>2. CASE row \in EarlierRows(q)  BY <1>1, <1>2, <3>1, <3>2 DEF HighInv, HighestKnown
    <3>3. CASE row \in RowsIn(chkNum[q])
      <4>1. PICK p \in Active : row \in OwnFile(p).rows  BY <2>2, <3>1, <3>3, RolledRows
      <4>2. HasFile(p)  BY <1>2, <2>2, <4>1, Together DEF HasFile
      <4>3. row.trial <= maxTrial[p]  BY <1>2, <4>1, <4>2 DEF HighInv, HighestKnown
      <4> QED BY <1>1, <1>2, <4>1, <4>3
    <3> QED BY <3>1, <3>2, <3>3
  <2> QED BY <2>1, <2>2
<1>10. ASSUME NEW q \in Rank, HasFile(q)'
       PROVE  HasFile(q) /\ OwnFile(q)' = OwnFile(q)
  <2>1. pc[q] = "closed"  BY <1>1, <1>2, <1>10 DEF HasFile, AfterBarrier, BarrierPcs
  <2> QED BY <1>1, <2>1 DEF HasFile, OwnFile
<1>11. HighestKnown'  BY <1>1, <1>9, <1>10 DEF HighInv, HighestKnown
<1> QED BY <1>8, <1>11 DEF HighInv

\* Earlier trials have lower numbers than those to come, and each rank, or some
\* rank, has a maxTrial_ as high.
LEMMA HighStep ==
  ASSUME IInv, IInv', HighInv, BatchInv, OwnInv, NoFileNoRows, TrialInv,
         SetupReads, HighestAccurate, [Next]_vars
  PROVE  HighInv'
<1> USE DEF Knows, NameFree, HasFile, DirPcs, RunPcs, SyncPcs, GoingOn, Constructed, Closing
<1>1. /\ pc \in [Rank -> {"idle"} \cup CollectivePcs \cup LocalPcs]
      /\ exit \in [Rank -> {"none", "done", "sigterm", "error"}]
      /\ inRun \in [Rank -> BOOLEAN] /\ batchStart \in [Rank -> Nat]
      /\ Active \subseteq Rank /\ \A q \in Rank : q \in Active \/ pc[q] = "idle"
  BY ActiveRanks DEF IInv, TypeOK
<1>2. \A q \in Rank : restartMax[q] <= maxTrial[q] /\ (~inRun[q] => maxTrial[q] = restartMax[q])
  BY DEF HighInv, HighestKnown
<1>3. ASSUME UNCHANGED <<restart, inRun, prior, restartMax, batchStart>>
      PROVE  \A q \in Rank : pc'[q] = pc[q] => BatchFirst(q)' = BatchFirst(q)
  <2>1. \A q \in Rank : NumberingStart(q)' = NumberingStart(q) /\ BatchSize(q)' = BatchSize(q)
    BY <1>3, NumberingSame
  <2> QED BY <1>3, <2>1 DEF BatchFirst
<1>4. ASSUME NEW n \in RankCounts, NEW again \in BOOLEAN, Launch(n, again)
      PROVE  HighInv'
  BY <1>2, <1>4, HighAside DEF Launch
<1>5. ASSUME Forget
      PROVE  HighInv'
  BY <1>5, HighAside DEF Forget
<1>6. ASSUME NEW r \in Rank, NoNewRows, OpenThrows(r)
      PROVE  HighInv'
  <2>1. /\ UNCHANGED <<size, restart, inRun, prior, restartMax, chkNum, batchStart, maxTrial>>
        /\ pc[r] = "open_check" /\ pc' = [pc EXCEPT ![r] = "finalize"]
        /\ \A q \in Rank : q # r => exit'[q] = exit[q]
    BY <1>1, <1>6 DEF OpenThrows, ConstructorThrows
  <2> QED BY <1>1, <1>3, <1>6, <2>1, HighFrame
<1>7. ASSUME NEW r \in Rank, NoNewRows, MakeDir(r)
      PROVE  HighInv'
  <2>1. /\ UNCHANGED <<size, restart, inRun, exit, prior, restartMax, chkNum, batchStart, maxTrial>>
        /\ pc[r] = "make_dir" /\ pc' = [pc EXCEPT ![r] = "dir_made"]
    BY <1>7 DEF MakeDir
  <2>2. \A q \in Rank : BatchFirst(q)' = BatchFirst(q)
    <3>1. \A q : NumberingStart(q)' = NumberingStart(q) /\ BatchSize(q)' = BatchSize(q)
      BY <2>1, NumberingSame
    <3> QED BY <1>1, <2>1, <3>1 DEF BatchFirst
  <2> QED BY <1>1, <1>7, <2>1, <2>2, HighFrame
<1>8. ASSUME NEW r \in Rank, NoNewRows, OpenFiles(r)
      PROVE  HighInv'
  <2> DEFINE first == IF inRun[r] THEN batchStart[r] + BatchSize(r) ELSE NumberingStart(r)
  <2>1. /\ UNCHANGED <<size, restart, prior, restartMax, chkNum, maxTrial>>
        /\ pc[r] = "open_files" /\ inRun' = [inRun EXCEPT ![r] = TRUE]
        /\ EnterBatch(r, first)
    BY <1>8 DEF OpenFiles
  <2>2. BatchFirst(r) = first  BY <2>1 DEF BatchFirst
  <2>3. \/ /\ pc' = [pc EXCEPT ![r] = "batch"] /\ exit' = exit
           /\ batchStart' = [batchStart EXCEPT ![r] = first]
        \/ /\ pc' = [pc EXCEPT ![r] = "close"] /\ exit' = [exit EXCEPT ![r] = "done"]
           /\ batchStart' = batchStart
    BY <2>1 DEF EnterBatch
  <2> HIDE DEF first
  <2>4. \A q \in Rank : NumberingStart(q)' = NumberingStart(q) /\ BatchSize(q)' = BatchSize(q)
    BY <2>1, NumberingSame
  <2>5. ASSUME NEW q \in Rank, q # r
        PROVE  /\ BatchFirst(q)' = BatchFirst(q) /\ Knows(q)' = Knows(q)
               /\ GoingOn(q)' = GoingOn(q) /\ HasFile(q)' = HasFile(q)
               /\ inRun'[q] = inRun[q]
    BY <1>1, <2>1, <2>3, <2>4, <2>5 DEF BatchFirst
  <2>6. /\ Knows(r) /\ GoingOn(r) /\ inRun'[r]
        /\ GoingOn(r)' => BatchFirst(r)' = BatchFirst(r)
    BY <1>1, <2>1, <2>2, <2>3 DEF BatchFirst
  <2>7. OwnFile(r)'.rows = {}  BY <1>8, <2>1, OpenEffect DEF OwnFile
  <2>8. \A q \in Rank : /\ inRun[q] => inRun'[q]
                        /\ Knows(q)' => Knows(q) /\ chkNum'[q] = chkNum[q]
                        /\ Knows(q)' /\ GoingOn(q)' => GoingOn(q) /\ BatchFirst(q)' = BatchFirst(q)
                        /\ HasFile(q)' => HasFile(q) \/ OwnFile(q)'.rows = {}
    <3> HIDE DEF Knows, HasFile, GoingOn
    <3> QED BY <2>1, <2>5, <2>6, <2>7
  <2> QED BY <1>8, <2>1, <2>8, HighFrame
<1>9. ASSUME NEW r \in Rank, NEW t \in Thread, NoNewRows,
             SkipTrial(r, t) \/ BeginTrial(r, t) \/ FinishTrial(r, t) \/ FailTrial(r, t)
      PROVE  HighInv'
  <2>1. UNCHANGED <<size, restart, pc, inRun, exit, prior, restartMax, chkNum, batchStart, maxTrial>>
    BY <1>9 DEF SkipTrial, BeginTrial, FinishTrial, FailTrial, TaskUnchanged
  <2> QED BY <1>3, <1>9, <2>1, HighFrame
<1>10. ASSUME NEW r \in Rank, NoNewRows, SigtermArrives(r)
       PROVE  HighInv'
  BY <1>3, <1>10, HighFrame DEF SigtermArrives
<1>11. ASSUME NEW r \in Rank, NoNewRows, Batch(r) \/ Close(r) \/ SyncRead(r) \/ SyncWrite(r)
       PROVE  HighInv'
  <2>1. /\ UNCHANGED <<size, restart, inRun, prior, restartMax, chkNum, batchStart, maxTrial>>
        /\ \/ pc' = pc
           \/ pc[r] = "batch" /\ \E p \in {"reduce", "close"} : pc' = [pc EXCEPT ![r] = p]
           \/ pc[r] = "close" /\ pc' = [pc EXCEPT ![r] = "closed"]
           \/ pc[r] \in SyncPcs /\ \E p \in SyncPcs : pc' = [pc EXCEPT ![r] = p]
        /\ exit' = exit \/ (pc[r] = "batch" /\ \A q \in Rank : q # r => exit'[q] = exit[q])
    <3>1. CASE Batch(r)  BY <1>1, <3>1 DEF Batch, BatchDone, BatchFailed, BatchOver
    <3>2. CASE Close(r)  BY <3>2 DEF Close
    <3>3. CASE SyncRead(r) \/ SyncWrite(r)  BY <3>3 DEF SyncRead, SyncWrite
    <3> QED BY <1>11, <3>1, <3>2, <3>3
  <2>2. \A q \in Rank : BatchFirst(q)' = BatchFirst(q)
    <3>1. \A q : NumberingStart(q)' = NumberingStart(q) /\ BatchSize(q)' = BatchSize(q)
      BY <2>1, NumberingSame
    <3> QED BY <1>1, <2>1, <3>1 DEF BatchFirst
  <2>3. \A q \in Rank : /\ Knows(q)' => Knows(q) /\ (GoingOn(q)' => GoingOn(q))
                        /\ HasFile(q)' => HasFile(q)
    BY <1>1, <2>1
  <2> QED BY <1>11, <2>1, <2>2, <2>3, HighFrame
<1>12. ASSUME NEW r \in Rank, NoNewRows, Merge(r)
       PROVE  HighInv'
  <2>1. /\ UNCHANGED <<size, restart, inRun, exit, prior, restartMax, chkNum, batchStart, maxTrial>>
        /\ pc' = pc \/ pc' = [pc EXCEPT ![r] = "finalize"]
    BY <1>12 DEF Merge, MergeSkip, MergeCopy, MergeAppend, MergeClose, MergeUnlink, MergeRemove, MergeDone
  <2>2. \A q \in Rank : pc'[q] = pc[q] \/ pc'[q] = "finalize"  BY <1>1, <2>1
  <2> QED BY <1>1, <1>3, <1>12, <2>1, <2>2, HighFrame
<1>13. CASE Reduce /\ NoNewRows
  <2>1. /\ UNCHANGED <<size, restart, inRun, prior, restartMax, chkNum, batchStart, maxTrial>>
        /\ \A q \in Rank : IF q \in Active THEN pc[q] = "reduce" /\ pc'[q] = "close"
                           ELSE pc'[q] = pc[q] /\ exit'[q] = exit[q]
    BY <1>13 DEF Reduce
  <2>2. \A q \in Rank : BatchFirst(q)' = BatchFirst(q)
    <3>1. \A q : NumberingStart(q)' = NumberingStart(q) /\ BatchSize(q)' = BatchSize(q)
      BY <2>1, NumberingSame
    <3> QED BY <1>1, <2>1, <3>1 DEF BatchFirst
  <2> QED BY <1>1, <1>13, <2>1, <2>2, HighFrame
<1>14. CASE DeleteUnreadable
  <2>1. \A q \in Rank : pc'[q] = "idle"  BY <1>14, DeleteEffect
  <2>2. UNCHANGED <<inRun, restartMax, maxTrial>>  BY <1>14 DEF DeleteUnreadable
  <2> QED BY <1>2, <2>1, <2>2, HighAside
<1>15. CASE UNCHANGED vars /\ NoNewRows  BY <1>3, <1>15, HighFrame DEF vars
<1>16. CASE \E r \in Rank, t \in Thread : WriteTrial(r, t)  BY <1>16, HighWrite
<1>17. CASE \A r \in Rank, t \in Thread : ~WriteTrial(r, t)
  <2>1. NoNewRows  BY <1>17, StepRows
  <2> QED BY <1>4, <1>5, <1>6, <1>7, <1>8, <1>9, <1>10, <1>11, <1>12, <1>13, <1>14, <1>15, <1>17,
       <2>1, HighSetup, HighCheck, HighBarrier
    DEF Next, RankStep, Open, Trial, Save, Collective, Finalize, Outside, Crash, Finished
<1> QED BY <1>16, <1>17

-----------------------------------------------------------------------------
(* What the files say of the highest number.                               *)

\* Steps of a rank that is past its constructor do not go back there.
LEMMA SetupMoves ==
  ASSUME IInv, [Next]_vars, NEW r \in Rank, pc'[r] = "open_check", ~inRun'[r]
  PROVE  /\ UNCHANGED <<size, restart>> /\ r \in Active
         /\ (pc[r] = "open_check" /\ ~inRun[r]) \/ SetupFresh(r) \/ SetupRestart(r)
<1>1. /\ pc \in [Rank -> {"idle"} \cup CollectivePcs \cup LocalPcs]
      /\ inRun \in [Rank -> BOOLEAN]
  BY DEF IInv, TypeOK
<1>2. \A q \in Rank : pc[q] # "idle" => q \in Active  BY ActiveRanks
<1>3. ASSUME NEW n \in RankCounts, NEW again \in BOOLEAN, Launch(n, again)
      PROVE  FALSE
  BY <1>3 DEF Launch
<1>4. ASSUME Forget
      PROVE  FALSE
  BY <1>4 DEF Forget
<1>5. ASSUME NEW q \in Rank, Setup(q)
      PROVE  /\ UNCHANGED <<size, restart>> /\ r \in Active
             /\ (pc[r] = "open_check" /\ ~inRun[r]) \/ SetupFresh(r) \/ SetupRestart(r)
  BY <1>1, <1>2, <1>5 DEF Setup, SetupThrows, SetupFresh, SetupRestart, ConstructorThrows
<1>6. ASSUME NEW q \in Rank,
             \/ Open(q) \/ Batch(q) \/ Save(q) \/ Merge(q) \/ SigtermArrives(q)
             \/ \E t \in Thread : Trial(q, t) \/ FailTrial(q, t)
      PROVE  /\ UNCHANGED <<size, restart>> /\ r \in Active
             /\ pc[r] = "open_check" /\ ~inRun[r]
  <2>1. CASE Open(q)
    BY <1>1, <1>2, <2>1
    DEF Open, OpenThrows, OpenCheck, MakeDir, OpenFiles, EnterBatch, ConstructorThrows
  <2>2. CASE Batch(q) \/ SigtermArrives(q) \/ \E t \in Thread : Trial(q, t) \/ FailTrial(q, t)
    BY <1>1, <1>2, <2>2
    DEF Batch, BatchDone, BatchFailed, Trial, SkipTrial, BeginTrial, WriteTrial, FinishTrial,
        FailTrial, TaskUnchanged, SigtermArrives
  <2>3. CASE Save(q)  BY <1>1, <1>2, <2>3 DEF Save, Close, SyncRead, SyncWrite
  <2>4. CASE Merge(q)
    BY <1>1, <1>2, <2>4
    DEF Merge, MergeSkip, MergeCopy, MergeAppend, MergeClose, MergeUnlink, MergeRemove, MergeDone
  <2> QED BY <1>6, <2>1, <2>2, <2>3, <2>4
<1>7. CASE Reduce  BY <1>1, <1>2, <1>7 DEF Reduce
<1>8. CASE Barrier
  <2>1. pc'[r] = AfterBarrier(r) /\ UNCHANGED <<size, restart, inRun>>  BY <1>8 DEF Barrier
  <2>2. pc[r] = "synced" => inRun[r]  BY DEF IInv, InRunWhenClosing, Closing, SyncPcs
  <2> QED BY <1>2, <2>1, <2>2 DEF AfterBarrier
<1>9. CASE DeleteUnreadable \/ UNCHANGED vars  BY <1>2, <1>9 DEF DeleteUnreadable, vars
<1> QED
  BY <1>3, <1>4, <1>5, <1>6, <1>7, <1>8, <1>9
  DEF Next, RankStep, Collective, Finalize, Outside, Crash, Finished

\* What a restart can read changes only with the disk.
LEMMA ReadableSame ==
  ASSUME UNCHANGED disk
  PROVE  /\ FoundCheckpoints' = FoundCheckpoints
         /\ Readable(MaxCheckpoint)' = Readable(MaxCheckpoint)
         /\ \A c : Settled(c)' = Settled(c) /\ HasH5(c)' = HasH5(c) /\ RowsIn(c)' = RowsIn(c)
BY DEF disk, FoundCheckpoints, MaxCheckpoint, Readable, AttrsAgree, HasAttrs, RestartSource,
       HasH5, Exists, RanksIn, Settled, RowsIn

\* No rank writes to the disk while another is in its constructor.
LEMMA SetupReadsStep ==
  ASSUME IInv, SetupReads, [Next]_vars
  PROVE  SetupReads'
<1> SUFFICES ASSUME NEW r \in Rank, pc'[r] = "open_check", ~inRun'[r], restart',
                    FoundCheckpoints' # {}
             PROVE  Readable(MaxCheckpoint)'
  BY DEF SetupReads
<1>1. /\ UNCHANGED <<size, restart>> /\ r \in Active
      /\ (pc[r] = "open_check" /\ ~inRun[r]) \/ SetupFresh(r) \/ SetupRestart(r)
  BY SetupMoves
<1>2. pc[r] \in {"setup", "open_check"}  BY <1>1 DEF SetupFresh, SetupRestart
<1>3. UNCHANGED disk
  <2> SUFFICES ASSUME DiskStep
               PROVE  FALSE
    BY DiskSteps
  <2>1. CASE Crash \/ DeleteUnreadable
    <3>1. pc'[r] = "idle"  BY <2>1, DeleteEffect DEF Crash, Forget
    <3> QED BY <3>1
  <2>2. PICK q \in Rank :
          \/ MakeDir(q) \/ OpenFiles(q) \/ Close(q) \/ SyncWrite(q) \/ Merge(q)
          \/ \E t \in Thread : WriteTrial(q, t) \/ FinishTrial(q, t)
    BY <2>1 DEF DiskStep
  <2>3. pc[q] \in DirPcs \cup RunPcs \cup SyncPcs \cup {"merge"}
    <3>1. CASE \E t \in Thread : WriteTrial(q, t) \/ FinishTrial(q, t)
      BY <3>1 DEF WriteTrial, FinishTrial, IInv, TrialsOnlyInBatch, RunPcs
    <3>2. CASE MakeDir(q) \/ OpenFiles(q) \/ Close(q) \/ SyncWrite(q) \/ Merge(q)
      BY <3>2
      DEF MakeDir, OpenFiles, Close, SyncWrite, Merge, MergeSkip, MergeCopy, MergeAppend,
          MergeClose, MergeUnlink, MergeRemove, MergeDone, DirPcs, RunPcs, SyncPcs
    <3> QED BY <2>2, <3>1, <3>2
  <2> QED BY <1>1, <1>2, <2>3, OnePhase
<1>4. Readable(MaxCheckpoint)
  <2>1. CASE pc[r] = "open_check" /\ ~inRun[r]  BY <1>1, <1>3, <2>1, ReadableSame DEF SetupReads
  <2>2. CASE SetupFresh(r)  BY <1>1, <1>3, <2>2, ReadableSame DEF SetupFresh
  <2>3. CASE SetupRestart(r)  BY <2>3 DEF SetupRestart, SetupRefused
  <2> QED BY <1>1, <2>1, <2>2, <2>3
<1> QED BY <1>3, <1>4, ReadableSame

\* Closed files stay as they are, and rank 0 is not synchronising.
LEMMA SyncedFrame ==
  ASSUME HighestSynced, pc'[0] \notin {"sync_read", "sync_write"},
         \A q \in Rank : pc'[q] = "closed" =>
           /\ pc[q] = "closed" /\ maxTrial'[q] = maxTrial[q]
           /\ OwnFile(q)' = OwnFile(q)
  PROVE  HighestSynced'
BY DEF HighestSynced

\* While rank 0 synchronises, nothing else moves.
LEMMA SyncAlone ==
  ASSUME IInv, NEW r \in Rank, pc[0] \in {"sync_read", "sync_write"}
  PROVE  /\ pc[r] \in {"sync_read", "sync_write"} => r = 0
         /\ pc[r] \in {"idle", "synced", "sync_read", "sync_write"}
         /\ r = 0 \/ pc[r] \in {"idle", "synced"}
<1>1. 0 \in Rank  BY OutputAssumption DEF Rank
<1>2. pc[r] \in {"sync_read", "sync_write"} => r = 0  BY DEF IInv, RootOnly
<1>3. r \in Active \/ pc[r] = "idle"  BY ActiveRanks
<1>4. r \in Active => pc[r] \in SyncPcs  BY <1>1, Together DEF SyncPcs
<1> QED BY <1>2, <1>3, <1>4 DEF SyncPcs

\* A rank's step that changes no file, and leaves rank 0 where it was if that
\* synchronises.
LEMMA SyncedAside ==
  ASSUME IInv, HighestSynced, NEW r \in Rank,
         pc[r] \notin {"idle", "synced", "sync_read", "sync_write"},
         NEW p, p \notin {"closed", "sync_read", "sync_write"}, pc' = [pc EXCEPT ![r] = p],
         \A q \in Rank : q # r =>
           /\ maxTrial'[q] = maxTrial[q] /\ chkNum'[q] = chkNum[q]
           /\ \A c \in Chk : files'[c][q] = files[c][q]
  PROVE  HighestSynced'
<1>1. /\ pc \in [Rank -> {"idle"} \cup CollectivePcs \cup LocalPcs] /\ chkNum \in [Rank -> Chk]
      /\ 0 \in Rank
  <2>1. 0 \in Rank  BY OutputAssumption DEF Rank
  <2> QED BY <2>1 DEF IInv, TypeOK
<1>2. ASSUME pc[0] \in {"sync_read", "sync_write"}
      PROVE  FALSE
  <2>1. /\ pc[r] \in {"idle", "synced", "sync_read", "sync_write"}
    BY <1>2, SyncAlone
  <2> QED BY <2>1
<1> QED BY <1>1, <1>2, SyncedFrame DEF OwnFile

\* Rank 0 finds the highest number in the closed files.
LEMMA SyncedRead ==
  ASSUME IInv, HighestSynced, NEW r \in Rank, SyncRead(r)
  PROVE  HighestSynced'
<1> DEFINE n == sync.next
           mx == IF sync.mx < Left(n).mx THEN Left(n).mx ELSE sync.mx
<1>1. /\ pc[r] = "sync_read" /\ UNCHANGED <<size, chkNum, maxTrial, files>>
      /\ \/ n + 1 < size /\ pc' = pc /\ sync'.mx = mx /\ sync'.next = n + 1
         \/ /\ ~(n + 1 < size) /\ pc' = [pc EXCEPT ![r] = "sync_write"]
            /\ sync'.mx = mx /\ sync'.next = 0
  BY DEF SyncRead, disk
<1>2. /\ r = 0 /\ 0 \in Rank /\ n \in Nat /\ sync.mx \in Nat /\ n \in Active
      /\ pc \in [Rank -> {"idle"} \cup CollectivePcs \cup LocalPcs]
      /\ size \in Nat /\ Active \subseteq Rank /\ \A q \in Rank : maxTrial[q] \in Nat
  <2>1. 0 \in Rank /\ r = 0 /\ Rank \subseteq Nat
    BY <1>1, OutputAssumption DEF Rank, IInv, RootOnly
  <2>2. /\ n \in Rank /\ sync.mx \in Nat /\ size \in Nat
        /\ pc \in [Rank -> {"idle"} \cup CollectivePcs \cup LocalPcs]
        /\ \A q \in Rank : maxTrial[q] \in Nat
    BY DEF IInv, TypeOK
  <2>3. n < size  BY <1>1, <2>1 DEF IInv, SyncVisitsRanks
  <2> HIDE DEF mx, n
  <2>4. n \in Nat /\ n \in Active
    <3>1. n \in Nat /\ size \in Nat  BY <2>1, <2>2
    <3> QED BY <2>3, <3>1 DEF Active
  <2> QED BY <2>1, <2>2, <2>4, ActiveRanks
<1>3. Left(n).mx = maxTrial[n] /\ maxTrial[n] \in Nat  BY <1>1, <1>2 DEF HighestSynced
<1>4. mx \in Nat /\ sync.mx <= mx /\ maxTrial[n] <= mx  BY <1>2, <1>3
<1>5. \A q \in Rank : pc'[q] # "closed"
  <2>1. \A q \in Rank : pc[q] # "closed"  BY <1>1, <1>2, SyncAlone
  <2> QED BY <1>1, <1>2, <2>1
<1>6. pc'[0] \in {"sync_read", "sync_write"} /\ (pc'[0] = "sync_write" => sync'.next = 0)
  BY <1>1, <1>2
<1> HIDE DEF mx
<1>7. ASSUME NEW q \in Active
      PROVE  /\ q < sync'.next \/ pc'[0] = "sync_write" => maxTrial'[q] <= sync'.mx
             /\ Left(q)'.mx = IF q < sync'.next /\ pc'[0] = "sync_write" THEN sync'.mx
                              ELSE maxTrial'[q]
  <2>1. /\ q < n => maxTrial[q] <= sync.mx
        /\ Left(q).mx = maxTrial[q] /\ q \in Nat /\ maxTrial[q] \in Nat
    BY <1>1, <1>2 DEF HighestSynced, Rank
  <2>2. /\ ~(q < 0) /\ Left(q)' = Left(q)
    BY <1>1, <2>1 DEF Left
  <2>3. q < sync'.next \/ pc'[0] = "sync_write" => q < n \/ q = n
    <3>1. q < size  BY <1>2 DEF Active
    <3> QED BY <1>1, <1>2, <2>1, <3>1
  <2>4. q < n \/ q = n => maxTrial[q] <= mx  BY <1>2, <1>4, <2>1
  <2> QED BY <1>1, <1>6, <2>1, <2>2, <2>3, <2>4
<1>8. Active' = Active  BY <1>1 DEF Active
<1> QED BY <1>5, <1>7, <1>8 DEF HighestSynced

\* It gives the number to one file after the other.
LEMMA SyncedWrite ==
  ASSUME IInv, HighestSynced, NEW r \in Rank, SyncWrite(r)
  PROVE  HighestSynced'
<1> DEFINE n == sync.next
<1>1. /\ pc[r] = "sync_write" /\ UNCHANGED <<size, chkNum, maxTrial>>
      /\ \/ n + 1 < size /\ pc' = pc /\ sync' = [sync EXCEPT !.next = n + 1]
         \/ ~(n + 1 < size) /\ pc' = [pc EXCEPT ![r] = "synced"]
  BY DEF SyncWrite
<1>2. /\ r = 0 /\ 0 \in Rank /\ n \in Nat /\ n \in Rank
      /\ pc \in [Rank -> {"idle"} \cup CollectivePcs \cup LocalPcs]
      /\ chkNum[0] \in Chk /\ Active \subseteq Rank /\ Active' = Active
      /\ sync \in [tc : Nat, mx : Nat, next : Rank]
  <2>1. 0 \in Rank /\ r = 0 /\ Rank \subseteq Nat
    BY <1>1, OutputAssumption DEF Rank, IInv, RootOnly
  <2> QED BY <1>1, <2>1, ActiveRanks DEF IInv, TypeOK, Active
<1>3. OnlyFile(chkNum[0], n) /\ files'[chkNum[0]][n].mx = sync.mx  BY <1>2, SyncEffect
<1>4. \A q \in Rank : pc'[q] # "closed"
  <2>1. \A q \in Rank : pc[q] # "closed"  BY <1>1, <1>2, SyncAlone
  <2> QED BY <1>1, <1>2, <2>1
<1>5. CASE ~(n + 1 < size)  BY <1>1, <1>2, <1>4, <1>5 DEF HighestSynced
<1>6. CASE n + 1 < size
  <2>1. pc' = pc /\ sync'.mx = sync.mx /\ sync'.next = n + 1  BY <1>1, <1>2, <1>6
  <2>2. ASSUME NEW q \in Active
        PROVE  /\ maxTrial[q] <= sync.mx
               /\ Left(q)'.mx = IF q < n + 1 THEN sync.mx ELSE maxTrial[q]
    <3>1. /\ maxTrial[q] <= sync.mx /\ q \in Nat
          /\ Left(q).mx = IF q < n THEN sync.mx ELSE maxTrial[q]
      BY <1>1, <1>2 DEF HighestSynced, Rank
    <3>2. Left(q)'.mx = IF q = n THEN sync.mx ELSE Left(q).mx
      BY <1>1, <1>2, <1>3 DEF Left, OnlyFile
    <3> QED BY <1>2, <3>1, <3>2
  <2> QED BY <1>1, <1>2, <1>4, <2>1, <2>2 DEF HighestSynced
<1> QED BY <1>5, <1>6

\* All files are closed, and rank 0 begins with the first.
LEMMA SyncedBarrier ==
  ASSUME IInv, HighestSynced, Barrier
  PROVE  HighestSynced'
<1>1. /\ UNCHANGED <<size, maxTrial, files, sync>>
      /\ \A q \in Active : pc[q] \in BarrierPcs
      /\ \A q \in Rank :
           /\ pc'[q] = AfterBarrier(q)
           /\ pc[q] # "synced" => chkNum'[q] = chkNum[q]
  BY DEF Barrier, disk
<1>2. /\ 0 \in Rank /\ Active \subseteq Rank /\ Active' = Active
      /\ \A q \in Rank : q \in Active \/ pc[q] = "idle"
  BY <1>1, OutputAssumption, ActiveRanks DEF Rank, Active
<1>3. \A q \in Rank : pc'[q] # "closed"  BY <1>1, <1>2 DEF AfterBarrier, BarrierPcs
<1>4. CASE pc[0] # "closed"
  <2>1. pc'[0] \notin {"sync_read", "sync_write"}  BY <1>1, <1>2, <1>4 DEF AfterBarrier, BarrierPcs
  <2> QED BY <1>3, <2>1, SyncedFrame
<1>5. CASE pc[0] = "closed"
  <2>1. pc'[0] = "sync_read" /\ sync.next = 0 /\ chkNum'[0] = chkNum[0]
    BY <1>1, <1>2, <1>5 DEF AfterBarrier, IInv, SyncVisitsRanks, NoSync
  <2>2. ASSUME NEW q \in Active
        PROVE  ~(q < 0) /\ Left(q)'.mx = maxTrial[q]
    <3>1. pc[q] = "closed" /\ chkNum[q] = chkNum[0]
      <4>1. pc[q] \in RunPcs /\ chkNum[q] = chkNum[0]  BY <1>2, <1>5, Together DEF RunPcs
      <4> QED BY <1>1, <4>1 DEF RunPcs, BarrierPcs
    <3>2. OwnFile(q).mx = maxTrial[q]  BY <1>2, <3>1 DEF HighestSynced
    <3>3. Left(q)' = OwnFile(q)  BY <1>1, <2>1, <3>1 DEF Left, OwnFile
    <3> QED BY <1>2, <3>2, <3>3 DEF Rank
  <2> QED BY <1>1, <1>2, <1>3, <2>1, <2>2 DEF HighestSynced
<1> QED BY <1>4, <1>5

LEMMA SyncedClose ==
  ASSUME IInv, HighestSynced, NEW r \in Rank, Close(r)
  PROVE  HighestSynced'
<1>1. /\ pc[r] = "close" /\ pc' = [pc EXCEPT ![r] = "closed"]
      /\ UNCHANGED <<chkNum, maxTrial>>
  BY DEF Close
<1>2. /\ pc \in [Rank -> {"idle"} \cup CollectivePcs \cup LocalPcs] /\ chkNum \in [Rank -> Chk]
  BY DEF IInv, TypeOK
<1>3. 0 \in Rank  BY OutputAssumption DEF Rank
<1>4. pc[0] \in {"sync_read", "sync_write"} => FALSE  BY <1>1, SyncAlone
<1>5. OnlyFile(chkNum[r], r) /\ files'[chkNum[r]][r].mx = maxTrial[r]  BY CloseEffect
<1>6. pc'[0] \notin {"sync_read", "sync_write"}  BY <1>1, <1>2, <1>3, <1>4
<1>7. ASSUME NEW q \in Rank, pc'[q] = "closed"
      PROVE  OwnFile(q)'.mx = maxTrial'[q]
  <2>1. CASE q = r  BY <1>1, <1>5, <2>1 DEF OwnFile
  <2>2. CASE q # r
    <3>1. pc[q] = "closed" /\ OwnFile(q)' = OwnFile(q)
      BY <1>1, <1>2, <1>5, <1>7, <2>2 DEF OwnFile, OnlyFile
    <3> QED BY <1>1, <3>1 DEF HighestSynced
  <2> QED BY <2>1, <2>2
<1> QED BY <1>6, <1>7 DEF HighestSynced

LEMMA SyncedStep ==
  ASSUME IInv, HighestSynced, [Next]_vars
  PROVE  HighestSynced'
<1>1. /\ pc \in [Rank -> {"idle"} \cup CollectivePcs \cup LocalPcs]
      /\ chkNum \in [Rank -> Chk] /\ maxTrial \in [Rank -> Nat]
      /\ Active \subseteq Rank /\ \A q \in Rank : q \in Active \/ pc[q] = "idle"
  BY ActiveRanks DEF IInv, TypeOK
<1>2. 0 \in Rank  BY OutputAssumption DEF Rank
<1>3. ASSUME \A q \in Rank : pc'[q] \notin {"closed", "sync_read", "sync_write"}
      PROVE  HighestSynced'
  BY <1>2, <1>3 DEF HighestSynced
<1>4. ASSUME NEW n \in RankCounts, NEW again \in BOOLEAN, Launch(n, again)
      PROVE  HighestSynced'
  BY <1>3, <1>4 DEF Launch
<1>5. ASSUME Forget
      PROVE  HighestSynced'
  BY <1>3, <1>5 DEF Forget
<1>6. ASSUME NEW r \in Rank, Setup(r)
      PROVE  HighestSynced'
  <2>1. PICK p \in {"open_check", "finalize"} : pc' = [pc EXCEPT ![r] = p]
    BY <1>6 DEF Setup, SetupThrows, SetupFresh, SetupRestart, ConstructorThrows
  <2>2. /\ pc[r] = "setup" /\ files' = files
        /\ \A q \in Rank : q # r => maxTrial'[q] = maxTrial[q] /\ chkNum'[q] = chkNum[q]
    BY <1>1, <1>6 DEF Setup, SetupThrows, SetupFresh, SetupRestart, disk
  <2> QED BY <2>1, <2>2, SyncedAside
<1>7. ASSUME NEW r \in Rank, Open(r)
      PROVE  HighestSynced'
  <2>1. /\ UNCHANGED <<maxTrial, chkNum>> /\ pc[r] \in {"open_check", "make_dir", "open_files"}
    BY <1>7 DEF Open, OpenThrows, OpenCheck, MakeDir, OpenFiles
  <2>2. PICK p \in {"finalize", "open_checked", "dir_made", "batch", "close"} :
          pc' = [pc EXCEPT ![r] = p]
    BY <1>7
    DEF Open, OpenThrows, OpenCheck, MakeDir, OpenFiles, EnterBatch, ConstructorThrows
  <2>3. \A q \in Rank, c \in Chk : q # r => files'[c][q] = files[c][q]
    <3>1. CASE OpenFiles(r)  BY <3>1, OpenEffect DEF OnlyFile
    <3>2. CASE OpenThrows(r) \/ OpenCheck(r) \/ MakeDir(r)
      BY <3>2 DEF OpenThrows, OpenCheck, MakeDir, CreateDirectory, disk
    <3> QED BY <1>7, <3>1, <3>2 DEF Open
  <2> QED BY <2>1, <2>2, <2>3, SyncedAside
<1>8. ASSUME NEW r \in Rank, NEW t \in Thread, Trial(r, t) \/ FailTrial(r, t)
      PROVE  HighestSynced'
  <2>1. /\ UNCHANGED <<pc, chkNum>> /\ pc[r] = "batch"
        /\ \A q \in Rank : q # r => maxTrial'[q] = maxTrial[q]
    BY <1>1, <1>8
    DEF Trial, SkipTrial, BeginTrial, WriteTrial, FinishTrial, FailTrial, TaskUnchanged,
        IInv, TrialsOnlyInBatch
  <2>2. \A q \in Rank, c \in Chk : q # r => files'[c][q] = files[c][q]
    <3>1. CASE WriteTrial(r, t)
      <4>1. OnlyFile(chkNum[r], r)  BY <3>1, WriteEffect
      <4> QED BY <4>1 DEF OnlyFile
    <3>2. CASE FinishTrial(r, t)
      <4>1. OnlyFile(chkNum[r], r)  BY <3>2, FinishEffect
      <4> QED BY <4>1 DEF OnlyFile
    <3>3. CASE SkipTrial(r, t) \/ BeginTrial(r, t) \/ FailTrial(r, t)
      BY <3>3 DEF SkipTrial, BeginTrial, FailTrial, disk
    <3> QED BY <1>8, <3>1, <3>2, <3>3 DEF Trial
  <2>3. pc' = [pc EXCEPT ![r] = "batch"]  BY <1>1, <2>1
  <2> QED BY <2>1, <2>2, <2>3, SyncedAside
<1>9. ASSUME NEW r \in Rank, Batch(r)
      PROVE  HighestSynced'
  <2>1. /\ UNCHANGED <<maxTrial, chkNum, files>> /\ pc[r] = "batch"
        /\ \E p \in {"reduce", "close"} : pc' = [pc EXCEPT ![r] = p]
    BY <1>9 DEF Batch, BatchDone, BatchFailed, BatchOver, disk
  <2> QED BY <2>1, SyncedAside
<1>10. ASSUME UNCHANGED <<size, pc, chkNum, maxTrial, sync, files>>
       PROVE  HighestSynced'
  BY <1>10 DEF HighestSynced, OwnFile, Left, Active
<1>11. ASSUME NEW r \in Rank, SigtermArrives(r)
       PROVE  HighestSynced'
  BY <1>10, <1>11 DEF SigtermArrives, disk
<1>12. ASSUME NEW r \in Rank, Merge(r)
       PROVE  HighestSynced'
  <2>1. pc[r] = "merge" /\ (pc' = pc \/ pc' = [pc EXCEPT ![r] = "finalize"])
    BY <1>12 DEF Merge, MergeSkip, MergeCopy, MergeAppend, MergeClose, MergeUnlink, MergeRemove, MergeDone
  <2>2. \A q \in Rank : pc[q] \in EndPcs \cup {"idle"}  BY <2>1, MergeAlone
  <2> QED BY <1>1, <1>3, <2>1, <2>2 DEF EndPcs
<1>13. CASE Reduce
  <2>1. \A q \in Rank : pc'[q] = IF q \in Active THEN "close" ELSE pc[q]  BY <1>13 DEF Reduce
  <2> QED BY <1>1, <1>3, <2>1
<1>14. CASE DeleteUnreadable  BY <1>3, <1>14, DeleteEffect
<1>15. CASE UNCHANGED vars  BY <1>10, <1>15 DEF vars, disk
<1> QED
  BY <1>4, <1>5, <1>6, <1>7, <1>8, <1>9, <1>11, <1>12, <1>13, <1>14, <1>15, SyncedClose,
     SyncedRead, SyncedWrite, SyncedBarrier
  DEF Next, RankStep, Save, Collective, Finalize, Outside, Crash, Finished

AttrsInv == EarlierSettled /\ HighestAccurate

\* Rank 0 is where no checkpoint is half synchronised.
SyncOver == NameFree(0) \/ pc[0] \in {"synced", "merge"}

\* Nothing on disk changes.
LEMMA AttrsSame ==
  ASSUME AttrsInv, UNCHANGED disk, SyncOver' => SyncOver
  PROVE  AttrsInv'
<1>1. /\ FoundCheckpoints' = FoundCheckpoints
      /\ \A c : Settled(c)' = Settled(c) /\ HasH5(c)' = HasH5(c) /\ RowsIn(c)' = RowsIn(c)
  BY ReadableSame
<1>2. EarlierSettled'  BY <1>1 DEF AttrsInv, EarlierSettled, SyncOver
<1>3. \A c, n : Covers(n, c)' = Covers(n, c)  BY <1>1 DEF Covers
<1>4. HighestAccurate'  BY <1>1, <1>3 DEF AttrsInv, HighestAccurate, RanksIn, disk
<1> QED BY <1>2, <1>4 DEF AttrsInv

\* A rank finds the name of its checkpoint free: of those before it a restart
\* has read the last.
LEMMA AttrsCheck ==
  ASSUME DiskInv, SetupReads, AttrsInv, NEW r \in Rank, OpenCheck(r)
  PROVE  AttrsInv'
<1>1. /\ pc[r] = "open_check" /\ pc' = [pc EXCEPT ![r] = "open_checked"]
      /\ UNCHANGED <<inRun, disk>> /\ ~Exists(chkNum[r])
  BY DEF OpenCheck
<1>2. /\ pc \in [Rank -> {"idle"} \cup CollectivePcs \cup LocalPcs]
      /\ \A q \in Rank : chkNum[q] \in Chk
      /\ IInv /\ r \in Active
  BY <1>1, ActiveRanks DEF DiskInv, IInv, TypeOK
<1>3. CASE r # 0 \/ inRun[0]
  <2>1. SyncOver' => SyncOver  BY <1>1, <1>2, <1>3 DEF SyncOver, NameFree
  <2> QED BY <1>1, <2>1, AttrsSame
<1>4. CASE r = 0 /\ ~inRun[0]
  <2>1. ASSUME NEW c \in Chk
        PROVE  Settled(c)
    <3>1. CASE c \notin FoundCheckpoints
      <4>1. RanksIn(c) = {}  BY <3>1, NothingBeyond DEF DiskInv, RanksIn
      <4> QED BY <4>1 DEF Settled
    <3>2. CASE HasH5(c) \/ \E d \in FoundCheckpoints : c < d  BY <3>2 DEF AttrsInv, EarlierSettled
    <3>3. CASE c \in FoundCheckpoints /\ ~HasH5(c) /\ ~\E d \in FoundCheckpoints : c < d
      <4>1. /\ MaxCheckpoint \in FoundCheckpoints /\ c <= MaxCheckpoint
            /\ MaxCheckpoint \in Chk
        BY <3>3, MaxCheckpointLast, MaxCheckpointType
      <4>2. c = MaxCheckpoint  BY <3>3, <4>1, OutputAssumption DEF Chk
      <4>3. restart
        <5>1. SUFFICES ASSUME ~restart
                       PROVE  FALSE
          OBVIOUS
        <5>2. chkNum[0] = 0  BY <1>1, <1>2, <1>4, <5>1 DEF IInv, SetupReadsDisk
        <5>3. 0 \in FoundCheckpoints  BY <3>3, OutputAssumption DEF DiskInv, NoGaps, Chk
        <5> QED BY <1>1, <1>4, <5>2, <5>3 DEF FoundCheckpoints
      <4>4. Readable(c)  BY <1>1, <1>4, <3>3, <4>2, <4>3 DEF SetupReads
      <4>5. RestartSource(c) = {files[c][q] : q \in RanksIn(c)}  BY <3>3 DEF RestartSource
      <4> QED BY <4>4, <4>5 DEF Readable, AttrsAgree, Settled
    <3> QED BY <3>1, <3>2, <3>3
  <2>2. EarlierSettled'  BY <1>1, <2>1, ReadableSame DEF EarlierSettled
  <2>3. \A c, n : Covers(n, c)' = Covers(n, c)  BY <1>1, ReadableSame DEF Covers
  <2>4. HighestAccurate'  BY <1>1, <2>3, ReadableSame DEF AttrsInv, HighestAccurate, RanksIn, disk
  <2> QED BY <2>2, <2>4 DEF AttrsInv
<1> QED BY <1>3, <1>4

\* While the ranks run or synchronise, the checkpoint they write is the last one.
LEMMA LastOne ==
  ASSUME DiskInv, OwnInv, NEW r \in Rank, pc[r] \in RunPcs \cup SyncPcs
  PROVE  /\ chkNum[r] \in Chk /\ FoundCheckpoints = 0 .. chkNum[r] /\ ~HasH5(chkNum[r])
         /\ \A c \in Chk : c > chkNum[r] => ~HasH5(c) /\ RanksIn(c) = {}
         /\ \A q \in RanksIn(chkNum[r]) : q \in Active
         /\ r \in Active
<1>1. /\ chkNum[r] \in Chk /\ r \in Active /\ Knows(r)
  BY ActiveRanks DEF DiskInv, IInv, TypeOK, Knows, RunPcs, SyncPcs
<1>2. FoundCheckpoints = 0 .. chkNum[r]  BY DEF DiskInv, NumbersTaken
<1>3. ASSUME NEW c \in Chk, c > chkNum[r]
      PROVE  ~HasH5(c) /\ RanksIn(c) = {}
  <2>1. c \notin FoundCheckpoints  BY <1>1, <1>2, <1>3, OutputAssumption DEF Chk
  <2> QED BY <2>1, NothingBeyond DEF DiskInv, RanksIn
<1> QED BY <1>1, <1>2, <1>3 DEF OwnInv, OnlyOurFiles, RanksIn

\* A rank works on a file of the checkpoint being written.
LEMMA SettledElsewhere ==
  ASSUME DiskInv, OwnInv, EarlierSettled, NEW r \in Rank, pc[r] \in RunPcs \cup SyncPcs,
         NEW q, OnlyFile(chkNum[r], q), ~SyncOver'
  PROVE  EarlierSettled'
<1> DEFINE k == chkNum[r]
<1>1. /\ k \in Chk /\ FoundCheckpoints = 0 .. k /\ ~HasH5(k)
      /\ \A c \in Chk : c > k => ~HasH5(c) /\ RanksIn(c) = {}
  BY LastOne
<1>2. /\ FoundCheckpoints' = FoundCheckpoints /\ \A c : HasH5(c)' = HasH5(c)
      /\ \A c \in Chk : c # k => \A p \in Rank : files'[c][p] = files[c][p]
  BY FoundSame DEF OnlyFile, HasH5
<1> SUFFICES ASSUME NEW c \in Chk, HasH5(c) \/ \E d \in FoundCheckpoints : c < d
             PROVE  Settled(c)'
  BY <1>2 DEF EarlierSettled, SyncOver
<1>3. c # k  BY <1>1, OutputAssumption DEF Chk
<1>4. Settled(c)  BY DEF EarlierSettled
<1> QED BY <1>2, <1>3, <1>4 DEF Settled, RanksIn

LEMMA AccurateElsewhere ==
  ASSUME DiskInv, OwnInv, HighestAccurate, NEW r \in Rank, pc[r] \in RunPcs \cup SyncPcs,
         NEW k, k = chkNum[r], NEW q, OnlyFile(k, q),
         Settled(k)' => \A p \in RanksIn(k)' : Covers(files[k][p].mx, k)'
  PROVE  HighestAccurate'
<1>1. /\ k \in Chk /\ FoundCheckpoints = 0 .. k /\ ~HasH5(k)
      /\ \A c \in Chk : c > k => ~HasH5(c) /\ RanksIn(c) = {}
  BY LastOne
<1>2. /\ h5' = h5 /\ \A c : HasH5(c)' = HasH5(c)
      /\ \A c \in Chk : c # k => \A p \in Rank : files'[c][p] = files[c][p]
  BY DEF OnlyFile, HasH5
<1>3. \A c \in Chk : c # k => RanksIn(c)' = RanksIn(c) /\ RowsIn(c)' = RowsIn(c)
  BY <1>2 DEF RanksIn, RowsIn
<1>4. ASSUME NEW c \in Chk, c < k, NEW n, Covers(n, c)
      PROVE  Covers(n, c)'
  <2>1. \A d \in 0 .. c : d \in Chk /\ d # k  BY <1>1, <1>4, OutputAssumption DEF Chk
  <2> QED BY <1>3, <1>4, <2>1 DEF Covers
<1>5. ASSUME NEW c \in Chk, h5'[c].st \in {"open", "closed"}
      PROVE  Covers(h5[c].mx, c)'
  <2>1. HasH5(c)  BY <1>2, <1>5 DEF HasH5
  <2>2. c < k  BY <1>1, <2>1, OutputAssumption DEF Chk
  <2>3. Covers(h5[c].mx, c)  BY <1>2, <1>5 DEF HighestAccurate
  <2> QED BY <1>2, <1>4, <2>2, <2>3
<1>6. ASSUME NEW c \in Chk, Settled(c)', NEW p \in RanksIn(c)'
      PROVE  Covers(files[c][p].mx, c)'
  <2>1. CASE c = k  BY <1>6, <2>1
  <2>2. CASE c # k
    <3>1. Settled(c) /\ p \in RanksIn(c) /\ files'[c][p] = files[c][p]
      BY <1>2, <1>3, <1>6, <2>2 DEF Settled, RanksIn
    <3>2. c < k  BY <1>1, <2>2, <3>1, OutputAssumption DEF Chk
    <3>3. Covers(files[c][p].mx, c)  BY <3>1 DEF HighestAccurate
    <3> QED BY <1>4, <3>1, <3>2, <3>3
  <2> QED BY <2>1, <2>2
<1> QED BY <1>5, <1>6 DEF HighestAccurate

\* A number as high as every rank's is as high as all rows.
LEMMA AllCovered ==
  ASSUME DiskInv, OwnInv, NoFileNoRows, HighInv, NEW r \in Rank, pc[r] \in RunPcs \cup SyncPcs,
         NEW n \in Nat, \A q \in Active : maxTrial[q] <= n
  PROVE  Covers(n, chkNum[r])
<1> DEFINE k == chkNum[r]
<1>1. /\ k \in Chk /\ ~HasH5(k) /\ IInv /\ DiskTypeOK /\ r \in Active
      /\ \A q \in RanksIn(k) : q \in Active
  BY LastOne DEF DiskInv, IInv, TypeOK
<1>2. \A q \in Active : q \in Rank /\ maxTrial[q] \in Nat  BY <1>1, ActiveRanks DEF IInv, TypeOK
<1> SUFFICES ASSUME NEW d \in 0 .. k, NEW row \in RowsIn(d)
             PROVE  row.trial <= n
  BY DEF Covers
<1>3. d \in Chk /\ row.trial \in Nat
  <2>1. d \in Chk  BY <1>1, OutputAssumption DEF Chk
  <2> QED BY <1>1, <2>1, RowTypes
<1>4. \E q \in Active : row.trial <= maxTrial[q]
  <2>1. CASE d < k
    <3>1. row \in EarlierRows(r) /\ Knows(r)  BY <1>3, <2>1 DEF EarlierRows, Knows
    <3> QED BY <3>1 DEF HighInv, HighestKnown
  <2>2. CASE d = k
    <3>1. PICK q \in Rank : row \in files[k][q].rows  BY <1>1, <2>2 DEF RowsIn, HasH5, NoFileNoRows
    <3>2. q \in RanksIn(k) /\ files[k][q].st # "none"  BY <1>1, <3>1 DEF NoFileNoRows, RanksIn
    <3>3. q \in Active /\ pc[q] \in RunPcs \cup SyncPcs /\ chkNum[q] = k  BY <1>1, <3>2, Together
    <3>4. pc[q] # "open_files"  BY <3>2, <3>3 DEF DiskInv, FilesNew
    <3>5. HasFile(q) /\ row \in OwnFile(q).rows  BY <3>1, <3>3, <3>4 DEF HasFile, OwnFile, RunPcs
    <3> QED BY <1>2, <3>3, <3>5 DEF HighInv, HighestKnown
  <2>3. d < k \/ d = k  BY <1>1, <1>3, OutputAssumption DEF Chk
  <2> QED BY <2>1, <2>2, <2>3
<1> QED BY <1>2, <1>3, <1>4

\* Rows do not come into it.
LEMMA CoversKept ==
  ASSUME NoNewRows, NEW n, NEW c \in Chk, Covers(n, c)
  PROVE  Covers(n, c)'
<1>1. \A d \in 0 .. c : d \in Chk  BY OutputAssumption DEF Chk
<1> QED BY <1>1 DEF Covers, NoNewRows

\* A file that is open keeps its checkpoint from being read.
LEMMA AttrsOpen ==
  ASSUME DiskInv, OwnInv, AttrsInv, NEW r \in Rank,
         OpenFiles(r) \/ \E t \in Thread : WriteTrial(r, t) \/ FinishTrial(r, t)
  PROVE  AttrsInv'
<1>0. PICK k \in Chk : k = chkNum[r]  BY DEF DiskInv, IInv, TypeOK
<1>1. IInv /\ 0 \in Rank /\ pc \in [Rank -> {"idle"} \cup CollectivePcs \cup LocalPcs]
  <2>1. 0 \in Rank  BY OutputAssumption DEF Rank
  <2> QED BY <2>1 DEF DiskInv, IInv, TypeOK
<1>2. pc[r] \in RunPcs /\ chkNum' = chkNum
  BY <1>1
  DEF OpenFiles, WriteTrial, FinishTrial, TaskUnchanged, RunPcs, IInv, TrialsOnlyInBatch
<1>3. OnlyFile(k, r) /\ files'[k][r].st = "open"
  <2>1. CASE OpenFiles(r)  BY <1>0, <1>1, <2>1, OpenEffect
  <2>2. ASSUME NEW t \in Thread, WriteTrial(r, t) \/ FinishTrial(r, t)
        PROVE  OnlyFile(k, r) /\ files'[k][r].st = "open"
    <3>1. OnlyFile(k, r) /\ files'[k][r].st = files[k][r].st
      BY <1>0, <1>1, <2>2, WriteEffect, FinishEffect
    <3>2. pc[r] = "batch"  BY <1>1, <2>2 DEF WriteTrial, FinishTrial, IInv, TrialsOnlyInBatch
    <3> QED BY <1>0, <3>1, <3>2 DEF OwnInv, FilesOpened, HasFile, OwnFile
  <2> QED BY <2>1, <2>2
<1>4. ~SyncOver'
  <2>2. pc[0] \in RunPcs \/ pc[0] = "idle"  BY <1>1, <1>2, ActiveRanks, Together
  <2>3. pc'[0] \in RunPcs \/ pc'[0] = "idle"
    BY <1>1, <2>2
    DEF OpenFiles, EnterBatch, WriteTrial, FinishTrial, TaskUnchanged, RunPcs
  <2> QED BY <2>3 DEF SyncOver, NameFree, RunPcs
<1>5. EarlierSettled'  BY <1>0, <1>2, <1>3, <1>4, SettledElsewhere DEF AttrsInv
<1>6. ~Settled(k)'  BY <1>3 DEF Settled, RanksIn, HasAttrs
<1>7. HighestAccurate'  BY <1>0, <1>2, <1>3, <1>6, AccurateElsewhere DEF AttrsInv
<1> QED BY <1>5, <1>7 DEF AttrsInv

\* If the files agree on the highest number when the last is closed, it is that
\* of every rank.
LEMMA AttrsClose ==
  ASSUME DiskInv, OwnInv, BatchInv, NoFileNoRows, HighInv, HighestSynced, AttrsInv,
         NEW r \in Rank, Close(r)
  PROVE  AttrsInv'
<1>0. PICK k \in Chk, n \in Nat : k = chkNum[r] /\ n = maxTrial[r]  BY DEF DiskInv, IInv, TypeOK
<1>1. /\ pc[r] = "close" /\ pc' = [pc EXCEPT ![r] = "closed"] /\ chkNum' = chkNum
      /\ IInv /\ 0 \in Rank /\ pc \in [Rank -> {"idle"} \cup CollectivePcs \cup LocalPcs]
      /\ \A q \in Rank : maxTrial[q] \in Nat
  <2>1. 0 \in Rank  BY OutputAssumption DEF Rank
  <2> QED BY <2>1 DEF Close, DiskInv, IInv, TypeOK
<1>2. pc[r] \in RunPcs /\ r \in Active /\ Active \subseteq Rank  BY <1>1, ActiveRanks DEF RunPcs
<1>3. OnlyFile(k, r) /\ files'[k][r].st = "closed" /\ files'[k][r].mx = n
  BY <1>0, <1>1, CloseEffect
<1>4. NoNewRows  BY <1>1, OwnFileRows
<1>5. ~SyncOver'
  <2>1. pc[0] \in RunPcs \/ pc[0] = "idle"  BY <1>1, <1>2, ActiveRanks, Together
  <2> QED BY <1>1, <2>1 DEF SyncOver, NameFree, RunPcs
<1>6. EarlierSettled'  BY <1>0, <1>2, <1>3, <1>5, SettledElsewhere DEF AttrsInv
<1>7. ASSUME Settled(k)', NEW p \in RanksIn(k)'
      PROVE  Covers(files[k][p].mx, k)'
  <2>1. r \in RanksIn(k)'  BY <1>3 DEF RanksIn
  <2>2. files'[k][p].mx = n  BY <1>1, <1>3, <1>7, <2>1 DEF Settled
  <2>3. ASSUME NEW q \in Active, q # r
        PROVE  maxTrial[q] <= n
    <3>1. /\ pc[q] \in RunPcs /\ chkNum[q] = k /\ q \in Rank
          /\ files'[k][q] = files[k][q] /\ k \in Chk
      BY <1>0, <1>1, <1>2, <1>3, <2>3, Together DEF OnlyFile
    <3>2. CASE pc[q] = "open_files"
      <4>1. ~inRun[q]  BY <1>1, <1>2, <3>2 DEF BatchInv, BatchesTogether
      <4>2. restartMax[q] = restartMax[r]  BY <1>1, <1>2, <3>2 DEF IInv, RanksAgree, Constructed
      <4> QED BY <1>0, <3>1, <4>1, <4>2 DEF HighInv, HighestKnown
    <3>3. CASE pc[q] # "open_files"
      <4>1. files[k][q].st = IF pc[q] \in {"batch", "reduce", "close"} THEN "open" ELSE "closed"
        BY <3>1, <3>3 DEF OwnInv, FilesOpened, HasFile, OwnFile, RunPcs
      <4>2. q \in RanksIn(k)'  BY <3>1, <4>1 DEF RanksIn
      <4>3. files[k][q].st = "closed" /\ files[k][q].mx = n
        BY <1>1, <1>3, <1>7, <2>1, <3>1, <4>2 DEF Settled, HasAttrs
      <4>4. pc[q] = "closed"  BY <3>1, <3>3, <4>1, <4>3 DEF RunPcs
      <4>5. maxTrial[q] = n  BY <3>1, <4>3, <4>4 DEF HighestSynced, OwnFile
      <4> QED BY <1>1, <4>5
    <3> QED BY <3>2, <3>3
  <2>4. \A q \in Active : maxTrial[q] <= n  BY <1>0, <1>1, <2>3
  <2>5. Covers(n, k)  BY <1>0, <1>1, <1>2, <2>4, AllCovered
  <2>6. Covers(n, k)'  BY <1>4, <2>5, CoversKept
  <2> QED BY <2>2, <2>6 DEF Covers
<1>8. HighestAccurate'  BY <1>0, <1>2, <1>3, <1>7, AccurateElsewhere DEF AttrsInv
<1> QED BY <1>6, <1>8 DEF AttrsInv

\* Rank 0 gives a file the highest number of all ranks; with the last file the
\* checkpoint is settled.
LEMMA AttrsSync ==
  ASSUME DiskInv, OwnInv, NoFileNoRows, HighInv, HighestSynced, AttrsInv,
         NEW r \in Rank, SyncWrite(r)
  PROVE  AttrsInv'
<1>0. PICK k \in Chk, n \in Rank, m \in Nat : k = chkNum[r] /\ n = sync.next /\ m = sync.mx
  BY DEF DiskInv, IInv, TypeOK
<1>1. /\ pc[r] = "sync_write" /\ chkNum' = chkNum
      /\ \/ n + 1 < size /\ pc' = pc
         \/ ~(n + 1 < size) /\ pc' = [pc EXCEPT ![r] = "synced"]
  BY <1>0 DEF SyncWrite
<1>2. /\ r = 0 /\ 0 \in Rank /\ n < size /\ IInv
      /\ pc \in [Rank -> {"idle"} \cup CollectivePcs \cup LocalPcs]
      /\ size \in Nat
  <2>1. 0 \in Rank /\ IInv  BY OutputAssumption DEF Rank, DiskInv
  <2>2. r = 0  BY <1>1, <2>1 DEF IInv, RootOnly
  <2>3. n < size  BY <1>0, <1>1, <2>1, <2>2 DEF IInv, SyncVisitsRanks
  <2> QED BY <2>1, <2>2, <2>3 DEF IInv, TypeOK
<1>3. /\ Active \subseteq Rank /\ n \in Active /\ pc[r] \in SyncPcs /\ r \in Active
      /\ Rank \subseteq Nat
  <2>1. Rank \subseteq Nat  BY DEF Rank
  <2>2. n \in Active  BY <1>2, <2>1 DEF Active
  <2> QED BY <1>1, <1>2, <2>1, <2>2, ActiveRanks DEF SyncPcs
<1>4. /\ OnlyFile(k, n) /\ files'[k][n].mx = m
      /\ files'[k][n].st = files[k][n].st
  BY <1>0, <1>2, SyncEffect
<1>5. NoNewRows  BY <1>2, OwnFileRows
<1>6. ASSUME NEW q \in Active
      PROVE  /\ q \in Rank /\ q \in Nat /\ q < size
             /\ files[k][q].st = "closed" /\ maxTrial[q] <= m
             /\ q < n => files[k][q].mx = m
  <2>1. pc[q] \in SyncPcs /\ chkNum[q] = k /\ q \in Rank /\ q \in Nat /\ q < size
    BY <1>0, <1>2, <1>3, Together DEF Active
  <2>2. files[k][q].st = "closed"  BY <2>1 DEF OwnInv, FilesOpened, HasFile, OwnFile, SyncPcs
  <2>3. maxTrial[q] <= m /\ (q < n => files[k][q].mx = m)
    BY <1>0, <1>1, <1>2 DEF HighestSynced, Left
  <2> QED BY <2>1, <2>2, <2>3
<1>7. ASSUME Settled(k)', NEW p \in RanksIn(k)'
      PROVE  Covers(files[k][p].mx, k)'
  <2>1. n \in RanksIn(k)'  BY <1>2, <1>3, <1>4, <1>6 DEF RanksIn
  <2>2. files'[k][p].mx = m  BY <1>1, <1>4, <1>7, <2>1 DEF Settled
  <2>3. Covers(m, k)  BY <1>0, <1>2, <1>3, <1>6, AllCovered
  <2>4. Covers(m, k)'  BY <1>5, <2>3, CoversKept
  <2> QED BY <2>2, <2>4 DEF Covers
<1>8. HighestAccurate'  BY <1>0, <1>3, <1>4, <1>7, AccurateElsewhere DEF AttrsInv
<1>9. EarlierSettled'
  <2>1. CASE n + 1 < size
    <3>1. ~SyncOver'  BY <1>1, <1>2, <2>1 DEF SyncOver, NameFree
    <3> QED BY <1>0, <1>3, <1>4, <3>1, SettledElsewhere DEF AttrsInv
  <2>2. CASE ~(n + 1 < size)
    <3> SUFFICES ASSUME NEW c \in Chk
                 PROVE  Settled(c)'
      BY DEF EarlierSettled
    <3>1. /\ k \in Chk /\ FoundCheckpoints = 0 .. k
          /\ \A d \in Chk : d > k => RanksIn(d) = {}
          /\ \A q \in RanksIn(k) : q \in Active
      BY <1>0, <1>3, LastOne
    <3>2. c # k => Settled(c)' = Settled(c)  BY <1>4 DEF Settled, RanksIn, OnlyFile
    <3>3. CASE c < k
      <4>1. k \in FoundCheckpoints /\ c # k  BY <3>1, <3>3, OutputAssumption DEF Chk
      <4> QED BY <3>2, <3>3, <4>1 DEF AttrsInv, EarlierSettled
    <3>4. CASE c > k
      <4>1. c # k /\ RanksIn(c) = {}  BY <3>1, <3>4, OutputAssumption DEF Chk
      <4> QED BY <3>2, <4>1 DEF Settled
    <3>5. CASE c = k
      <4>1. ASSUME NEW q \in RanksIn(k)'
            PROVE  files'[k][q].st = "closed" /\ files'[k][q].mx = m
        <5>1. q \in RanksIn(k)  BY <1>1, <1>4, <3>1 DEF RanksIn, OnlyFile
        <5>2. q \in Active  BY <3>1, <5>1
        <5>3. q < n \/ q = n  BY <1>2, <1>3, <1>6, <2>2, <5>2
        <5>4. CASE q = n  BY <1>4, <1>6, <5>2, <5>4
        <5>5. CASE q # n  BY <1>4, <1>6, <3>1, <5>2, <5>3, <5>5 DEF OnlyFile
        <5> QED BY <5>4, <5>5
      <4> QED BY <1>1, <3>5, <4>1 DEF Settled, HasAttrs
    <3> QED BY <3>1, <3>3, <3>4, <3>5, OutputAssumption DEF Chk
  <2> QED BY <2>1, <2>2
<1> QED BY <1>8, <1>9 DEF AttrsInv

\* No file gets another highest number, none is closed that a restart could not
\* read, and no row is written.
LEMMA AttrsKept ==
  ASSUME AttrsInv, NoNewRows,
         \A c \in Chk : h5'[c].st \in {"open", "closed"} => Covers(h5'[c].mx, c),
         \A c \in Chk, r \in Rank :
           files'[c][r].st # "none" => /\ files[c][r].st # "none"
                                       /\ files'[c][r].mx = files[c][r].mx
                                       /\ HasAttrs(files[c][r]) <=> HasAttrs(files'[c][r]),
         \A c \in Chk : Settled(c)' => Settled(c) \/ RanksIn(c)' = {}
  PROVE  HighestAccurate'
<1>1. ASSUME NEW c \in Chk, NEW n, Covers(n, c)
      PROVE  Covers(n, c)'
  BY <1>1, CoversKept
<1>2. ASSUME NEW c \in Chk, h5'[c].st \in {"open", "closed"}
      PROVE  Covers(h5[c].mx, c)'
  <2>1. PICK n : n = h5'[c].mx  OBVIOUS
  <2>2. Covers(n, c)'  BY <1>1, <1>2, <2>1
  <2> QED BY <2>1, <2>2 DEF Covers
<1>3. ASSUME NEW c \in Chk, Settled(c)', NEW r \in RanksIn(c)'
      PROVE  Covers(files[c][r].mx, c)'
  <2>1. Settled(c) /\ r \in RanksIn(c) /\ files'[c][r].mx = files[c][r].mx  BY <1>3 DEF RanksIn
  <2>2. PICK n : n = files[c][r].mx  OBVIOUS
  <2>3. Covers(n, c)'  BY <1>1, <2>1, <2>2 DEF AttrsInv, HighestAccurate
  <2> QED BY <2>1, <2>2, <2>3 DEF Covers
<1> QED BY <1>2, <1>3 DEF HighestAccurate

\* The consolidated file takes the highest number over from the first file, when
\* all files agree on it.
LEMMA AttrsMerge ==
  ASSUME IInv, AttrsInv, NEW r \in Rank, Merge(r)
  PROVE  AttrsInv'
<1>1. pc[0] = "merge"
  <2>1. pc[r] = "merge"
    BY DEF Merge, MergeSkip, MergeCopy, MergeAppend, MergeClose, MergeUnlink, MergeRemove, MergeDone
  <2> QED BY <2>1, MergeAlone
<1>2. \A c \in Chk : Settled(c)  BY <1>1 DEF AttrsInv, EarlierSettled
<1>3. NoNewRows  BY MergeRowsMoved
<1>4. NoFile.st = "none"  BY DEF NoFile
<1>5. \A c \in Chk, q \in Rank : files'[c][q] = files[c][q] \/ files'[c][q] = NoFile  BY MergeEffect
<1>6. \A c \in Chk, q \in Rank : files'[c][q].st # "none" => files'[c][q] = files[c][q]
  BY <1>4, <1>5
<1>7. \A c \in Chk : Settled(c)'  BY <1>2, <1>6 DEF Settled, RanksIn
<1>8. ASSUME NEW c \in Chk, h5'[c].st \in {"open", "closed"}
      PROVE  Covers(h5'[c].mx, c)
  <2>1. \/ h5[c].st \in {"open", "closed"} /\ h5'[c].mx = h5[c].mx
        \/ \E m \in RanksIn(c) : h5'[c].mx = files[c][m].mx
    <3>1. \/ UNCHANGED h5
          \/ /\ \A d \in Chk : d # merge.chk => h5'[d] = h5[d]
             /\ \/ /\ h5'[merge.chk].st = h5[merge.chk].st
                   /\ h5'[merge.chk].mx = h5[merge.chk].mx
                \/ /\ h5[merge.chk].st = "open"
                   /\ h5'[merge.chk].mx = h5[merge.chk].mx
                \/ \E m \in RanksIn(merge.chk) : h5'[merge.chk].mx = files[merge.chk][m].mx
      BY MergeEffect
    <3> QED BY <1>8, <3>1
  <2> QED BY <1>2, <2>1 DEF AttrsInv, HighestAccurate
<1>9. HighestAccurate'  BY <1>2, <1>3, <1>6, <1>8, AttrsKept
<1>10. EarlierSettled'  BY <1>7 DEF EarlierSettled
<1> QED BY <1>9, <1>10 DEF AttrsInv

\* An interrupted checkpoint is read if its files had been synchronised.
LEMMA AttrsCrash ==
  ASSUME IInv, AttrsInv, Crash
  PROVE  AttrsInv'
<1>1. /\ \A c \in Chk, q \in Rank :
           /\ files'[c][q].st = IF files[c][q].st = "open" THEN "torn" ELSE files[c][q].st
           /\ files'[c][q].mx = files[c][q].mx
           /\ files'[c][q].rows = files[c][q].rows
      /\ \A c \in Chk :
           /\ h5'[c].st \in IF h5[c].st = "open" THEN {"torn", "closed"} ELSE {h5[c].st}
           /\ h5'[c].mx = h5[c].mx
           /\ h5'[c].rows = h5[c].rows
      /\ hasDir' = hasDir
  BY CrashEffect
<1>2. NoNewRows  BY <1>1, RowsMoved, RowsOfFile
<1>3. \A c \in Chk : RanksIn(c)' = RanksIn(c)  BY <1>1 DEF RanksIn
<1>4. \A c \in Chk : Settled(c)' <=> Settled(c)  BY <1>1, <1>3 DEF Settled, HasAttrs, RanksIn
<1>5. \A c \in Chk : HasH5(c)' = HasH5(c)  BY <1>1 DEF HasH5
<1>6. FoundCheckpoints' = FoundCheckpoints  BY <1>1, <1>5 DEF FoundCheckpoints, Exists
<1>7. pc'[0] = "idle"  BY OutputAssumption DEF Crash, Forget, Rank
<1>8. EarlierSettled'  BY <1>4, <1>5, <1>6, <1>7 DEF AttrsInv, EarlierSettled, NameFree
<1>9. \A c \in Chk : h5'[c].st \in {"open", "closed"} => Covers(h5'[c].mx, c)
  BY <1>1 DEF AttrsInv, HighestAccurate
<1>10. HighestAccurate'  BY <1>1, <1>2, <1>4, <1>9, AttrsKept DEF HasAttrs
<1> QED BY <1>8, <1>10 DEF AttrsInv

LEMMA AttrsDelete ==
  ASSUME IInv, AttrsInv, DeleteUnreadable
  PROVE  AttrsInv'
<1>1. /\ \A c \in Chk : h5'[c] \in {h5[c], NoFile}
      /\ \A c \in Chk, q \in Rank : files'[c][q] \in {files[c][q], NoFile}
      /\ \A c \in Chk : hasDir'[c] => hasDir[c]
      /\ \A c \in Chk : RanksIn(c)' # {} => \A q \in Rank : files'[c][q] = files[c][q]
      /\ pc'[0] = "idle"
  <2>1. 0 \in Rank  BY OutputAssumption DEF Rank
  <2>2. NoFile.st = "none"  BY DEF NoFile
  <2>3. CASE HasH5(MaxCheckpoint)  BY <2>1, <2>3, DeleteEffect
  <2>4. CASE ~HasH5(MaxCheckpoint)  BY <2>1, <2>2, <2>4, DeleteEffect DEF RanksIn
  <2> QED BY <2>3, <2>4
<1>2. NoFile.st = "none"  BY DEF NoFile
<1>3. NoNewRows
  <2>1. NoFile.rows = {}  BY DEF NoFile
  <2> QED BY <1>1, <2>1, RowsMoved, RowsOfFile
<1>4. ASSUME NEW c \in Chk
      PROVE  /\ Settled(c) => Settled(c)'
             /\ Settled(c)' => Settled(c) \/ RanksIn(c)' = {}
  BY <1>1 DEF Settled, RanksIn
<1>5. FoundCheckpoints' \subseteq FoundCheckpoints /\ \A c \in Chk : HasH5(c)' => HasH5(c)
  BY <1>1, <1>2 DEF FoundCheckpoints, Exists, HasH5
<1>6. EarlierSettled'  BY <1>1, <1>4, <1>5 DEF AttrsInv, EarlierSettled, NameFree
<1>7. \A c \in Chk : h5'[c].st \in {"open", "closed"} => Covers(h5'[c].mx, c)
  BY <1>1, <1>2 DEF AttrsInv, HighestAccurate
<1>8. \A c \in Chk, q \in Rank : files'[c][q].st # "none" => files'[c][q] = files[c][q]
  BY <1>1, <1>2
<1>9. HighestAccurate'  BY <1>3, <1>4, <1>7, <1>8, AttrsKept
<1> QED BY <1>6, <1>9 DEF AttrsInv

\* Rank 0 makes the directory of the next checkpoint when the others are settled.
LEMMA AttrsMakeDir ==
  ASSUME IInv, AttrsInv, NEW r \in Rank, MakeDir(r)
  PROVE  AttrsInv'
<1>1. pc[r] = "make_dir" /\ UNCHANGED <<files, h5>>  BY DEF MakeDir, CreateDirectory
<1>2. r = 0  BY <1>1 DEF IInv, RootOnly
<1>3. \A c \in Chk : Settled(c)  BY <1>1, <1>2 DEF AttrsInv, EarlierSettled, NameFree
<1>4. \A c \in Chk : Settled(c)' = Settled(c)  BY <1>1 DEF Settled, RanksIn
<1>5. \A c, n : Covers(n, c)' = Covers(n, c)  BY <1>1 DEF Covers, RowsIn
<1>6. HighestAccurate'  BY <1>1, <1>4, <1>5 DEF AttrsInv, HighestAccurate, RanksIn
<1>7. EarlierSettled'  BY <1>3, <1>4 DEF EarlierSettled
<1> QED BY <1>6, <1>7 DEF AttrsInv

\* A restart that accepts a checkpoint reads a number no row exceeds.
LEMMA AttrsStep ==
  ASSUME DiskInv, OwnInv, BatchInv, NoFileNoRows, HighInv, SetupReads, HighestSynced, AttrsInv,
         [Next]_vars
  PROVE  AttrsInv'
<1>1. /\ IInv /\ 0 \in Rank
      /\ pc \in [Rank -> {"idle"} \cup CollectivePcs \cup LocalPcs]
      /\ inRun \in [Rank -> BOOLEAN]
  <2>1. 0 \in Rank  BY OutputAssumption DEF Rank
  <2> QED BY <2>1 DEF DiskInv, IInv, TypeOK
<1> USE DEF SyncOver, NameFree
<1>2. ASSUME NEW n \in RankCounts, NEW again \in BOOLEAN, Launch(n, again)
      PROVE  AttrsInv'
  <2>1. UNCHANGED disk /\ pc'[0] \in {"setup", "idle"}  BY <1>1, <1>2 DEF Launch
  <2> QED BY <2>1, AttrsSame
<1>3. ASSUME NEW r \in Rank, Setup(r) \/ OpenThrows(r)
      PROVE  AttrsInv'
  <2>1. /\ UNCHANGED <<disk, inRun>>
        /\ \/ pc[r] = "setup" /\ pc' = [pc EXCEPT ![r] = "open_check"]
           \/ pc' = [pc EXCEPT ![r] = "finalize"]
    BY <1>3
    DEF Setup, SetupThrows, SetupFresh, SetupRestart, OpenThrows, ConstructorThrows
  <2>2. pc[r] = "setup" => ~inRun[r]  BY <1>1 DEF IInv, FreshUntilSetup
  <2> QED BY <1>1, <2>1, <2>2, AttrsSame
<1>4. ASSUME NEW r \in Rank,
             \/ Batch(r) \/ SyncRead(r) \/ SigtermArrives(r)
             \/ \E t \in Thread : SkipTrial(r, t) \/ BeginTrial(r, t) \/ FailTrial(r, t)
      PROVE  AttrsInv'
  <2>1. /\ UNCHANGED <<disk, inRun>>
        /\ pc' = pc \/ \E p \in {"reduce", "close", "sync_write"} : pc' = [pc EXCEPT ![r] = p]
    BY <1>4
    DEF Batch, BatchDone, BatchFailed, SyncRead, SigtermArrives, SkipTrial, BeginTrial,
        FailTrial, TaskUnchanged
  <2> QED BY <1>1, <2>1, AttrsSame
<1>5. CASE Reduce
  <2>1. UNCHANGED <<disk, inRun>> /\ (pc'[0] = pc[0] \/ pc'[0] = "close")  BY <1>1, <1>5 DEF Reduce
  <2> QED BY <2>1, AttrsSame
<1>6. CASE Barrier
  <2>1. UNCHANGED <<disk, inRun>> /\ pc'[0] = AfterBarrier(0)  BY <1>1, <1>6 DEF Barrier
  <2>2. SyncOver' => SyncOver  BY <2>1 DEF AfterBarrier
  <2> QED BY <2>1, <2>2, AttrsSame
<1>7. CASE Finalize
  <2>1. UNCHANGED disk /\ pc'[0] = "idle"  BY <1>1, <1>7 DEF Finalize, Forget
  <2> QED BY <2>1, AttrsSame
<1>8. CASE UNCHANGED vars
  <2>1. UNCHANGED <<disk, inRun, pc>>  BY <1>8 DEF vars
  <2> QED BY <2>1, AttrsSame
<1> QED
  BY <1>1, <1>2, <1>3, <1>4, <1>5, <1>6, <1>7, <1>8, AttrsCheck, AttrsOpen, AttrsClose,
     AttrsSync, AttrsMerge, AttrsCrash, AttrsDelete, AttrsMakeDir
  DEF Next, RankStep, Open, Trial, Save, Collective, Outside, Finished

-----------------------------------------------------------------------------
(* The numbers of trials on disk.                                          *)

\* The operands of OneOwner and OneRank, written out for numbers.
LEMMA UniqueMeans ==
  TrialNumbersUnique <=>
    /\ \A c, d \in Chk : \A x \in RowsIn(c), y \in RowsIn(d) :
         x.trial = y.trial => c = d /\ x = y
    /\ \A c \in Chk, q, r \in Rank : q # r =>
         \A x \in files[c][q].rows, y \in files[c][r].rows : x.trial # y.trial
BY DEF TrialNumbersUnique, OneOwner, OneRank

\* The number of a trial that is running is not on disk.
LEMMA NumberNew ==
  ASSUME DiskInv, NoFileNoRows, OwnInv, BatchInv, TrialInv, EarlierLower,
         NEW r \in Rank, NEW t \in Thread, task[r][t].st = "begun",
         NEW d \in Chk, NEW y \in RowsIn(d)
  PROVE  y.trial # task[r][t].trial
<1>0. PICK k \in Chk, n \in Nat : k = chkNum[r] /\ n = task[r][t].trial
  BY DEF DiskInv, IInv, TypeOK, Task
<1>1. /\ IInv /\ pc[r] = "batch" /\ DiskTypeOK
      /\ pc \in [Rank -> {"idle"} \cup CollectivePcs \cup LocalPcs]
  BY DEF DiskInv, IInv, TrialsOnlyInBatch, TypeOK
<1>2. pc[r] \in RunPcs /\ r \in Active /\ HasFile(r) /\ Knows(r) /\ GoingOn(r)
  BY <1>1, ActiveRanks
  DEF RunPcs, HasFile, Knows, GoingOn, Constructed, Closing, SyncPcs
<1>3. batchStart[r] < NumberingEnd(r) /\ n \in Taken(r)
  BY <1>0, <1>1, <1>2 DEF BatchInv, BatchesTogether, TrialInv, TasksTaken
<1>4. /\ k \in Chk /\ FoundCheckpoints = 0 .. k /\ ~HasH5(k)
      /\ \A c \in Chk : c > k => ~HasH5(c) /\ RanksIn(c) = {}
      /\ \A q \in RanksIn(k) : q \in Active
  BY <1>0, <1>2, LastOne
<1>5. NumberingEnd(r) \in Nat /\ batchStart[r] \in Nat
  BY <1>1, <1>2, NumberingType DEF IInv, TypeOK
<1>6. /\ OwnSlice(r) = Slice(r, size, batchStart[r], BatchEnd(r))
      /\ batchStart[r] <= BatchEnd(r) /\ BatchEnd(r) \in Nat
      /\ batchStart[r] <= SliceFirst(r, batchStart[r], BatchEnd(r))
      /\ SliceFirst(r, batchStart[r], BatchEnd(r)) \in Nat
  BY <1>1, <1>2, <1>3, <1>5, SliceBounds
<1>7. CASE d < k
  <2>1. y.trial < BatchFirst(r) /\ y.trial \in Nat
    <3>1. y \in EarlierRows(r)  BY <1>0, <1>7 DEF EarlierRows
    <3> QED BY <1>1, <1>2, <3>1, RowTypes DEF EarlierLower
  <2>2. BatchFirst(r) = batchStart[r]  BY <1>1 DEF BatchFirst
  <2>3. SliceFirst(r, batchStart[r], BatchEnd(r)) <= n  BY <1>3 DEF Taken, OwnSlice
  <2> QED BY <1>0, <1>5, <1>6, <2>1, <2>2, <2>3
<1>8. CASE d > k
  <2>1. ~HasH5(d) /\ RanksIn(d) = {}  BY <1>4, <1>8
  <2> QED BY <2>1 DEF RowsIn, RanksIn, HasH5, NoFileNoRows
<1>9. CASE d = k
  <2>1. PICK q \in Rank : y \in files[k][q].rows  BY <1>4, <1>9 DEF RowsIn, HasH5, NoFileNoRows
  <2>2. q \in RanksIn(k) /\ files[k][q].st # "none"  BY <1>4, <2>1 DEF NoFileNoRows, RanksIn
  <2>3. q \in Active /\ pc[q] \in RunPcs /\ chkNum[q] = k  BY <1>0, <1>1, <1>2, <1>4, <2>2, Together
  <2>4. pc[q] # "open_files"  BY <2>2, <2>3 DEF DiskInv, FilesNew
  <2>5. pc[q] \in {"batch", "reduce"}  BY <1>1, <1>2, <2>3, <2>4 DEF BatchInv, BatchesTogether
  <2>6. HasFile(q) /\ y \in OwnFile(q).rows /\ GoingOn(q)
    BY <2>1, <2>3, <2>5
    DEF HasFile, OwnFile, GoingOn, Constructed, Closing, SyncPcs
  <2>7. CASE q = r  BY <1>0, <2>6, <2>7 DEF TrialInv, TasksApart
  <2>8. CASE q # r
    <3>1. /\ BatchFirst(q) = BatchFirst(r) /\ NumberingEnd(q) = NumberingEnd(r)
          /\ BatchSize(q) = BatchSize(r)
      BY <1>1, <1>2, <2>3, <2>6, SameBatch
    <3>2. batchStart[q] = batchStart[r] /\ BatchEnd(q) = BatchEnd(r)
      BY <1>1, <2>5, <3>1 DEF BatchFirst, BatchEnd
    <3>3. batchStart[q] <= NumberingEnd(q)  BY <1>3, <1>5, <3>1, <3>2
    <3>4. OwnSlice(q) = Slice(q, size, batchStart[r], BatchEnd(r))
      BY <1>1, <2>3, <3>2, <3>3, SliceBounds
    <3>5. y.trial \in OwnSlice(q) /\ n \in OwnSlice(r)  BY <1>3, <2>6 DEF TrialInv, RowsTaken, Taken
    <3>6. size \in Nat \ {0} /\ q \in 0 .. size - 1 /\ r \in 0 .. size - 1
      <4>1. size \in Nat /\ r \in Active /\ q \in Active
        BY <1>1, <1>2, <2>3, OutputAssumption DEF IInv, TypeOK
      <4> QED BY <4>1 DEF Active
    <3>7. Slice(q, size, batchStart[r], BatchEnd(r)) \cap Slice(r, size, batchStart[r], BatchEnd(r)) = {}
      BY <1>5, <1>6, <2>8, <3>6, SlicesDisjoint
    <3> QED BY <1>0, <1>6, <3>4, <3>5, <3>7
  <2> QED BY <2>7, <2>8
<1> QED BY <1>4, <1>7, <1>8, <1>9, OutputAssumption DEF Chk

\* A step that writes no row brings no number twice.
LEMMA UniqueKept ==
  ASSUME TrialNumbersUnique, NoNewRows
  PROVE  TrialNumbersUnique'
<1>1. /\ \A c, d \in Chk : \A x \in RowsIn(c)', y \in RowsIn(d)' :
           x.trial = y.trial => c = d /\ x = y
      /\ \A c \in Chk, q, r \in Rank : q # r =>
           \A x \in files'[c][q].rows, y \in files'[c][r].rows : x.trial # y.trial
  BY UniqueMeans DEF NoNewRows
<1> QED BY <1>1 DEF TrialNumbersUnique, OneOwner, OneRank

LEMMA UniqueStep ==
  ASSUME DiskInv, NoFileNoRows, OwnInv, BatchInv, TrialInv, EarlierLower,
         TrialNumbersUnique, [Next]_vars
  PROVE  TrialNumbersUnique'
<1>1. CASE \A r \in Rank, t \in Thread : ~WriteTrial(r, t)
  BY <1>1, StepRows, UniqueKept DEF DiskInv
<1>2. ASSUME NEW r \in Rank, NEW t \in Thread, WriteTrial(r, t)
      PROVE  TrialNumbersUnique'
  <2>0. PICK k \in Chk : k = chkNum[r]  BY DEF DiskInv, IInv, TypeOK
  <2> DEFINE new == [trial |-> task[r][t].trial, uid |-> task[r][t].uid]
  <2>1. /\ OnlyFile(k, r) /\ files'[k][r].rows = files[k][r].rows \cup {new}
        /\ task[r][t].st = "begun"
    BY <1>2, <2>0, WriteEffect DEF DiskInv, WriteTrial
  <2>2. \A d \in Chk : \A y \in RowsIn(d) : y.trial # new.trial  BY <2>1, NumberNew
  <2> HIDE DEF new
  <2>3. ASSUME NEW c \in Chk, NEW q \in Rank, NEW x \in files'[c][q].rows
        PROVE  x \in files[c][q].rows \/ (c = k /\ q = r /\ x = new)
    BY <2>1, <2>3 DEF OnlyFile
  <2>4. ASSUME NEW c \in Chk, NEW x \in RowsIn(c)'
        PROVE  x \in RowsIn(c) \/ (c = k /\ x = new)
    <3>1. CASE x \in h5'[c].rows  BY <2>1, <3>1 DEF OnlyFile, RowsIn
    <3>2. CASE \E q \in Rank : x \in files'[c][q].rows  BY <2>3, <3>2 DEF RowsIn
    <3> QED BY <2>4, <3>1, <3>2 DEF RowsIn
  <2>5. \A c, d \in Chk : \A x \in RowsIn(c)', y \in RowsIn(d)' :
          x.trial = y.trial => c = d /\ x = y
    BY <2>2, <2>4, UniqueMeans
  <2>6. \A c \in Chk, p, q \in Rank : p # q =>
          \A x \in files'[c][p].rows, y \in files'[c][q].rows : x.trial # y.trial
    BY <2>2, <2>3, UniqueMeans, RowsOfFile
  <2> QED BY <2>5, <2>6 DEF TrialNumbersUnique, OneOwner, OneRank
<1> QED BY <1>1, <1>2

-----------------------------------------------------------------------------

LEMMA InitNumbers == Init => NumbersInv
<1> SUFFICES ASSUME Init
             PROVE  NumbersInv
  OBVIOUS
<1>1. DiskInv  BY InitDisk
<1>2. /\ \A c \in Chk : ~HasH5(c) /\ h5[c].rows = {} /\ h5[c].st = "none"
      /\ \A c \in Chk, q \in Rank : files[c][q].st = "none" /\ files[c][q].rows = {}
      /\ FoundCheckpoints = {}
  BY DEF Init, DiskInit, NoFile, HasH5, FoundCheckpoints, Exists
<1>3. \A r \in Rank : /\ pc[r] = "idle" /\ ~inRun[r] /\ maxTrial[r] = 0 /\ restartMax[r] = 0
                      /\ ~failed[r]
  BY DEF Init
<1>4. \A r \in Rank : ~HasFile(r) /\ ~Knows(r)
  BY <1>3 DEF HasFile, Knows, NameFree, DirPcs, RunPcs, SyncPcs
<1>5. 0 \in Rank /\ Active = {}  BY OutputAssumption DEF Init, Active, Rank
<1>6. FailsAlone /\ NoFileNoRows /\ FilesOpened /\ OnlyOurFiles
  BY <1>2, <1>3, <1>4 DEF FailsAlone, NoFileNoRows, FilesOpened, OnlyOurFiles
<1>7. BatchesTogether /\ RolloverGoesOn  BY <1>3, <1>5 DEF BatchesTogether, RolloverGoesOn
<1>8. TasksTaken /\ TasksApart /\ RowsTaken
  BY <1>3, <1>4 DEF Init, Idle, TasksTaken, TasksApart, RowsTaken
<1>9. EarlierLower /\ HighestKnown /\ SetupReads
  BY <1>3, <1>4 DEF EarlierLower, HighestKnown, SetupReads
<1>10. \A c \in Chk : RanksIn(c) = {} /\ RowsIn(c) = {}  BY <1>2 DEF RanksIn, RowsIn
<1>11. HighestSynced /\ EarlierSettled /\ HighestAccurate
  BY <1>2, <1>3, <1>5, <1>10 DEF HighestSynced, EarlierSettled, HighestAccurate, Settled
<1>12. TrialNumbersUnique  BY <1>2, <1>10, UniqueMeans
<1> QED BY <1>1, <1>6, <1>7, <1>8, <1>9, <1>11, <1>12 DEF NumbersInv

LEMMA NextNumbers ==
  ASSUME "error" \notin Faults \/ MaxRanks = 1
  PROVE  NumbersInv /\ [Next]_vars => NumbersInv'
<1> SUFFICES ASSUME NumbersInv, [Next]_vars
             PROVE  NumbersInv'
  OBVIOUS
<1>1. /\ DiskInv /\ IInv /\ MergedSoFar /\ FailsAlone /\ NoFileNoRows
      /\ FilesOpened /\ OwnInv /\ BatchInv /\ TrialInv /\ EarlierLower /\ HighInv
      /\ SetupReads /\ HighestSynced /\ HighestAccurate /\ AttrsInv /\ TrialNumbersUnique
  BY DEF NumbersInv, DiskInv, OwnInv, BatchInv, TrialInv, HighInv, AttrsInv
<1>2. DiskInv' /\ IInv'  BY <1>1, NextDisk DEF DiskInv
<1>3. FailsAlone' /\ NoFileNoRows' /\ OwnInv' /\ BatchInv'
  BY <1>1, FailsStep, NoFileStep, OwnStep, BatchStep
<1>4. TrialInv'  BY <1>1, <1>2, <1>3, TrialStep
<1>5. HighInv' /\ SetupReads' /\ HighestSynced' /\ AttrsInv'
  BY <1>1, <1>2, HighStep, SetupReadsStep, SyncedStep, AttrsStep
<1>6. TrialNumbersUnique'  BY <1>1, UniqueStep
<1> QED
  BY <1>2, <1>3, <1>4, <1>5, <1>6
  DEF NumbersInv, OwnInv, BatchInv, TrialInv, HighInv, AttrsInv

\* What the numbering of trials rests on holds in every session of a run in
\* which no trial throws, whatever crashes and signals stop its sessions.
THEOREM NumbersInductive ==
  ASSUME "error" \notin Faults \/ MaxRanks = 1
  PROVE  Spec => []NumbersInv
BY InitNumbers, NextNumbers, PTL DEF Spec

\* No two trials on disk have the same number: the number restartMaxTrial()
\* gives SimCluster::run to go on from is above that of every row that a
\* session before it left in any checkpoint, and mpiPartitionRange and nextTrial
\* hand out no number of this session twice.
THEOREM NumbersUnique ==
  ASSUME "error" \notin Faults \/ MaxRanks = 1
  PROVE  Spec => []TrialNumbersUnique
<1>1. NumbersInv => TrialNumbersUnique  BY DEF NumbersInv
<1> QED BY <1>1, NumbersInductive, PTL

-----------------------------------------------------------------------------
(* The trials that are done: those that have a row.                        *)

-----------------------------------------------------------------------------
(* What each step makes of what is in the files.                           *)

\* No file gets or loses a row or a trial that is done.
ContentKept ==
  \A c \in Chk :
    /\ h5'[c].rows = h5[c].rows /\ h5'[c].done = h5[c].done
    /\ \A q \in Rank :
         files'[c][q].rows = files[c][q].rows /\ files'[c][q].done = files[c][q].done

\* A file that is not there has nothing done in it.
LEMMA NoFileNoDone ==
  ASSUME NoFileNoRows, DoneHasRows, NEW c \in Chk
  PROVE  /\ h5[c].st = "none" => h5[c].done = {}
         /\ \A r \in Rank : files[c][r].st = "none" => files[c][r].done = {}
BY DEF NoFileNoRows, DoneHasRows, Trials

\* The attributes of a file are written when it is closed, and by rank 0.
LEMMA OwnFileContent ==
  ASSUME IInv, FilesNew, NoFileNoRows, DoneHasRows, NEW r \in Rank,
         OpenFiles(r) \/ Close(r) \/ SyncWrite(r)
  PROVE  ContentKept
<1> USE DEF ContentKept
<1>1. chkNum[r] \in Chk /\ sync.next \in Rank  BY DEF IInv, TypeOK
<1>2. ASSUME NEW c \in Chk, NEW q \in Rank, OnlyFile(c, q),
             files'[c][q].rows = files[c][q].rows, files'[c][q].done = files[c][q].done
      PROVE  ContentKept
  BY <1>2 DEF OnlyFile
<1>3. \A c \in Chk, q \in Rank : files[c][q] \in File  BY DEF IInv, TypeOK, DiskTypeOK
<1>4. CASE OpenFiles(r)
  <2>1. files[chkNum[r]][r].st = "none"  BY <1>4 DEF FilesNew, OpenFiles
  <2>2. files[chkNum[r]][r].rows = {} /\ files[chkNum[r]][r].done = {}
    BY <1>1, <2>1, NoFileNoDone DEF NoFileNoRows
  <2>3. OnlyFile(chkNum[r], r) /\ files'[chkNum[r]][r].rows = {}  BY <1>4, OpenEffect
  <2>4. files'[chkNum[r]][r].done = {}
    <3>1. files' = [files EXCEPT ![chkNum[r]][r] = [NoFile EXCEPT !.st = "open"]]
      BY <1>4 DEF OpenFiles, OpenOutputFile
    <3>2. files'[chkNum[r]][r] = [NoFile EXCEPT !.st = "open"]
      BY <1>1, <3>1 DEF IInv, TypeOK, DiskTypeOK
    <3> QED BY <3>2 DEF NoFile
  <2> QED BY <1>1, <1>2, <2>2, <2>3, <2>4
<1>5. CASE Close(r)
  <2>1. OnlyFile(chkNum[r], r)  BY <1>5, CloseEffect
  <2>2. files'[chkNum[r]][r] =
          [files[chkNum[r]][r] EXCEPT !.st = "closed", !.tc = TrialsCompleted(r),
                                      !.mx = maxTrial[r], !.uid = nextUid[r]]
    BY <1>5, CloseEffect
  <2>3. files'[chkNum[r]][r].rows = files[chkNum[r]][r].rows
        /\ files'[chkNum[r]][r].done = files[chkNum[r]][r].done
    BY <1>1, <1>3, <2>2 DEF File
  <2> QED BY <1>1, <1>2, <2>1, <2>3
<1>6. CASE SyncWrite(r)
  <2>1. OnlyFile(chkNum[r], sync.next)  BY <1>6, SyncEffect
  <2>2. files'[chkNum[r]][sync.next] =
          [files[chkNum[r]][sync.next] EXCEPT !.tc = sync.tc, !.mx = sync.mx]
    BY <1>6, SyncEffect
  <2>3. files'[chkNum[r]][sync.next].rows = files[chkNum[r]][sync.next].rows
        /\ files'[chkNum[r]][sync.next].done = files[chkNum[r]][sync.next].done
    BY <1>1, <1>3, <2>2 DEF File
  <2> QED BY <1>1, <1>2, <2>1, <2>3
<1> QED BY <1>4, <1>5, <1>6

\* A crash keeps what has been written.
LEMMA CrashContent ==
  ASSUME IInv, Crash
  PROVE  ContentKept
<1> SUFFICES ASSUME NEW c \in Chk
             PROVE  /\ h5'[c].rows = h5[c].rows /\ h5'[c].done = h5[c].done
                    /\ \A q \in Rank : /\ files'[c][q].rows = files[c][q].rows
                                       /\ files'[c][q].done = files[c][q].done
  BY DEF ContentKept
<1>1. h5[c] \in File /\ \A q \in Rank : files[c][q] \in File  BY DEF IInv, TypeOK, DiskTypeOK
<1>2. h5'[c].rows = h5[c].rows /\ \A q \in Rank : files'[c][q].rows = files[c][q].rows
  BY CrashEffect
<1>3. h5'[c].done = h5[c].done
  <2>1. h5'[c] = [h5[c] EXCEPT !.st = h5'[c].st]  BY CrashEffect
  <2> QED BY <1>1, <2>1 DEF File
<1>4. ASSUME NEW q \in Rank
      PROVE  files'[c][q].done = files[c][q].done
  <2>1. files'[c][q] = [files[c][q] EXCEPT !.st = files'[c][q].st]  BY CrashEffect
  <2>2. files[c][q] \in File  BY <1>1
  <2> QED BY <2>1, <2>2 DEF File
<1> QED BY <1>2, <1>3, <1>4

\* Only a trial, consolidation and the user change what is in the files.
LEMMA ContentStep ==
  ASSUME IInv, FilesNew, NoFileNoRows, DoneHasRows, [Next]_vars
  PROVE  \/ ContentKept
         \/ \E r \in Rank, t \in Thread : WriteTrial(r, t) \/ FinishTrial(r, t)
         \/ \E r \in Rank : Merge(r)
         \/ DeleteUnreadable
<1>1. CASE UNCHANGED disk  BY <1>1 DEF disk, ContentKept
<1>2. ASSUME NEW r \in Rank, MakeDir(r)
      PROVE  ContentKept
  BY <1>2 DEF MakeDir, CreateDirectory, ContentKept
<1> QED BY <1>1, <1>2, OwnFileContent, CrashContent, DiskSteps DEF DiskStep

\* The trials that are done change only in what follows.
DoneKept ==
  \A c \in Chk : /\ h5'[c].done = h5[c].done
                 /\ \A q \in Rank : files'[c][q].done = files[c][q].done

\* The row of a trial is written before the trial counts as done.
LEMMA WriteContent ==
  ASSUME IInv, NEW r \in Rank, NEW t \in Thread, WriteTrial(r, t)
  PROVE  /\ DoneKept
         /\ \A c \in Chk : /\ h5'[c].rows = h5[c].rows
                           /\ \A q \in Rank : files[c][q].rows \subseteq files'[c][q].rows
<1>1. chkNum[r] \in Chk /\ files[chkNum[r]][r] \in File  BY DEF IInv, TypeOK, DiskTypeOK
<1>2. /\ OnlyFile(chkNum[r], r)
      /\ files'[chkNum[r]][r] =
           [files[chkNum[r]][r] EXCEPT !.rows = files[chkNum[r]][r].rows
              \cup {[trial |-> task[r][t].trial, uid |-> task[r][t].uid]}]
  BY WriteEffect
<1>3. /\ files'[chkNum[r]][r].done = files[chkNum[r]][r].done
      /\ files[chkNum[r]][r].rows \subseteq files'[chkNum[r]][r].rows
  BY <1>1, <1>2 DEF File
<1> QED BY <1>1, <1>2, <1>3 DEF OnlyFile, DoneKept

\* A trial that comes to its end is done in the file of its rank.
LEMMA FinishContent ==
  ASSUME IInv, NEW r \in Rank, NEW t \in Thread, FinishTrial(r, t)
  PROVE  /\ chkNum[r] \in Chk
         /\ \A c \in Chk :
              /\ h5'[c] = h5[c]
              /\ \A q \in Rank :
                   /\ files'[c][q].rows = files[c][q].rows
                   /\ c # chkNum[r] \/ q # r => files'[c][q] = files[c][q]
         /\ files'[chkNum[r]][r].done = files[chkNum[r]][r].done \cup {task[r][t].trial}
         /\ files'[chkNum[r]][r].tc = files[chkNum[r]][r].tc
<1>1. chkNum[r] \in Chk /\ files[chkNum[r]][r] \in File  BY DEF IInv, TypeOK, DiskTypeOK
<1>2. OnlyFile(chkNum[r], r)  BY FinishEffect
<1>3. files'[chkNum[r]][r] = [files[chkNum[r]][r] EXCEPT !.done =
              files[chkNum[r]][r].done \cup {task[r][t].trial}]
  BY FinishEffect
<1>4. files'[chkNum[r]][r].rows = files[chkNum[r]][r].rows  BY FinishEffect
<1>5. /\ files'[chkNum[r]][r].done = files[chkNum[r]][r].done \cup {task[r][t].trial}
      /\ files'[chkNum[r]][r].tc = files[chkNum[r]][r].tc
  BY <1>1, <1>3 DEF File
<1> QED BY <1>1, <1>2, <1>4, <1>5 DEF OnlyFile

\* A checkpoint gets the trial that is done.
LEMMA FinishDone ==
  ASSUME IInv, NEW r \in Rank, NEW t \in Thread, FinishTrial(r, t)
  PROVE  /\ \A c \in Chk :
              DoneIn(c)' = IF c = chkNum[r] THEN DoneIn(c) \cup {task[r][t].trial} ELSE DoneIn(c)
         /\ DoneOnDisk' = DoneOnDisk \cup {task[r][t].trial}
<1>1. ASSUME NEW c \in Chk, c # chkNum[r]
      PROVE  DoneIn(c)' = DoneIn(c)
  <2>1. h5'[c] = h5[c] /\ \A q \in Rank : files'[c][q] = files[c][q]  BY <1>1, FinishContent
  <2> QED BY <2>1 DEF DoneIn
<1>2. PICK k \in Chk : k = chkNum[r]  BY FinishContent
<1>3. DoneIn(k)' = DoneIn(k) \cup {task[r][t].trial}
  <2>1. /\ h5'[k] = h5[k]
        /\ \A q \in Rank \ {r} : files'[k][q] = files[k][q]
        /\ files'[k][r].done = files[k][r].done \cup {task[r][t].trial}
    BY <1>2, FinishContent
  <2>2. \A n : (\E q \in Rank : n \in files'[k][q].done)
                 <=> n = task[r][t].trial \/ (\E q \in Rank : n \in files[k][q].done)
    BY <2>1
  <2> QED BY <2>1, <2>2 DEF DoneIn
<1>4. DoneOnDisk' = DoneOnDisk \cup {task[r][t].trial}  BY <1>1, <1>2, <1>3 DEF DoneOnDisk
<1> QED BY <1>1, <1>2, <1>3, <1>4

\* Where the contents are kept, so are the trials done.
LEMMA DoneSame ==
  ASSUME DoneKept
  PROVE  (\A c \in Chk : DoneIn(c)' = DoneIn(c)) /\ DoneOnDisk' = DoneOnDisk
<1>1. ASSUME NEW c \in Chk
      PROVE  DoneIn(c)' = DoneIn(c)
  <2>1. h5'[c].done = h5[c].done /\ \A q \in Rank : files'[c][q].done = files[c][q].done
    BY DEF DoneKept
  <2> QED BY <2>1 DEF DoneIn
<1>2. DoneOnDisk' = DoneOnDisk  BY <1>1 DEF DoneOnDisk
<1> QED BY <1>1, <1>2

\* Files and the consolidated file may change, if together they have the same.
LEMMA MergedDone ==
  ASSUME NEW c \in Chk,
         \A n \in h5'[c].done : n \in DoneIn(c),
         \A q \in Rank : files'[c][q].done \subseteq files[c][q].done,
         \A n \in h5[c].done : n \in DoneIn(c)',
         \A q \in Rank : \A n \in files[c][q].done : n \in DoneIn(c)'
  PROVE  DoneIn(c)' = DoneIn(c)
<1>1. ASSUME NEW n \in DoneIn(c)'
      PROVE  n \in DoneIn(c)
  <2>1. CASE \E q \in Rank : n \in files'[c][q].done
    <3>1. \E q \in Rank : n \in files[c][q].done  BY <2>1
    <3> QED BY <3>1 DEF DoneIn
  <2>2. n \in h5'[c].done \/ \E q \in Rank : n \in files'[c][q].done  BY <1>1 DEF DoneIn
  <2> QED BY <2>1, <2>2
<1>2. ASSUME NEW n \in DoneIn(c)
      PROVE  n \in DoneIn(c)'
  <2>1. n \in h5[c].done \/ \E q \in Rank : n \in files[c][q].done  BY <1>2 DEF DoneIn
  <2> QED BY <2>1
<1> QED BY <1>1, <1>2

\* What consolidation makes of checkpoint c: a copy of the first file, with another
\* file's rows, closed, or without its directory.
Copied(c) ==
  /\ UNCHANGED files /\ h5[c].st = "none" /\ h5'[c].st = "open"
  /\ \E q \in RanksIn(c) : /\ h5'[c].rows = files[c][q].rows /\ h5'[c].done = files[c][q].done
                           /\ h5'[c].tc = files[c][q].tc /\ h5'[c].mx = files[c][q].mx
Appended(c) ==
  /\ UNCHANGED files /\ h5'[c].st = h5[c].st
  /\ h5'[c].tc = h5[c].tc /\ h5'[c].mx = h5[c].mx
  /\ \E q \in RanksIn(c) : /\ h5'[c].rows = h5[c].rows \cup files[c][q].rows
                           /\ h5'[c].done = h5[c].done \cup files[c][q].done
Completed(c) ==
  /\ UNCHANGED files /\ h5[c].st = "open" /\ h5'[c].st = "closed"
  /\ h5'[c].rows = h5[c].rows /\ h5'[c].done = h5[c].done
  /\ h5'[c].tc = h5[c].tc /\ h5'[c].mx = h5[c].mx
Removed(c) ==
  /\ UNCHANGED h5 /\ h5[c].st = "closed" /\ ~MergeUnstarted /\ NotYetMerged = {}
  /\ \A q \in Rank : files'[c][q] \in {files[c][q], NoFile}

\* Each step of consolidation does one of these to one checkpoint, or nothing.
LEMMA MergeContent ==
  ASSUME IInv, MergedSoFar, NEW r \in Rank, Merge(r)
  PROVE  \/ UNCHANGED disk
         \/ /\ merge.chk \in Chk
            /\ \A d \in Chk : d # merge.chk =>
                 h5'[d] = h5[d] /\ \A q \in Rank : files'[d][q] = files[d][q]
            /\ \/ Copied(merge.chk) \/ Appended(merge.chk)
               \/ Completed(merge.chk) \/ Removed(merge.chk)
<1> DEFINE c == merge.chk
<1>1. SUFFICES ASSUME ~UNCHANGED disk
               PROVE  /\ c \in Chk
                      /\ \A d \in Chk : d # c =>
                           h5'[d] = h5[d] /\ \A q \in Rank : files'[d][q] = files[d][q]
                      /\ Copied(c) \/ Appended(c) \/ Completed(c) \/ Removed(c)
  OBVIOUS
<1>2. /\ c \in Chk
      /\ \A d \in Chk : d # c =>
           h5'[d] = h5[d] /\ \A q \in Rank : files'[d][q] = files[d][q]
  BY <1>1, MergeEffect DEF disk
<1>3. h5[c] \in File /\ \A q \in Rank : files[c][q] \in File  BY <1>2 DEF IInv, TypeOK, DiskTypeOK
<1>4. CASE MergeCopy(r)
  <2>1. /\ h5' = [h5 EXCEPT ![c] = [files[c][Min(RanksIn(c))] EXCEPT !.st = "open"]]
        /\ UNCHANGED <<hasDir, files>> /\ RanksIn(c) # {} /\ ~HasH5(c)
    BY <1>4 DEF MergeCopy, CopyFirstFile
  <2>2. Min(RanksIn(c)) \in RanksIn(c) /\ RanksIn(c) \subseteq Rank  BY <2>1, MinOfRanks DEF RanksIn
  <2>3. PICK q \in RanksIn(c) : q = Min(RanksIn(c)) /\ files[c][q] \in File  BY <1>3, <2>2
  <2>4. h5'[c] = [files[c][q] EXCEPT !.st = "open"]
    BY <1>2, <2>1, <2>3 DEF IInv, TypeOK, DiskTypeOK
  <2>5. /\ h5'[c].st = "open" /\ h5'[c].rows = files[c][q].rows
        /\ h5'[c].done = files[c][q].done
        /\ h5'[c].tc = files[c][q].tc /\ h5'[c].mx = files[c][q].mx
    BY <2>3, <2>4 DEF File
  <2>6. Copied(c)  BY <2>1, <2>5 DEF Copied, HasH5
  <2> QED BY <1>2, <2>6
<1>5. CASE MergeAppend(r)
  <2>1. /\ h5' = [h5 EXCEPT ![c].rows = @ \cup files[c][Min(NotYetMerged)].rows,
                            ![c].done = @ \cup files[c][Min(NotYetMerged)].done]
        /\ UNCHANGED <<hasDir, files>> /\ NotYetMerged # {}
    BY <1>5 DEF MergeAppend, AppendFile
  <2>2. Min(NotYetMerged) \in NotYetMerged /\ NotYetMerged \subseteq RanksIn(c)
    BY <2>1, MinOfRanks DEF NotYetMerged, RanksIn
  <2>3. PICK q \in RanksIn(c) : q = Min(NotYetMerged)  BY <2>2
  <2>4. h5'[c] = [h5[c] EXCEPT !.rows = h5[c].rows \cup files[c][q].rows,
                               !.done = h5[c].done \cup files[c][q].done]
    BY <1>2, <2>1, <2>3 DEF IInv, TypeOK, DiskTypeOK
  <2>5. /\ h5'[c].st = h5[c].st /\ h5'[c].tc = h5[c].tc /\ h5'[c].mx = h5[c].mx
        /\ h5'[c].rows = h5[c].rows \cup files[c][q].rows
        /\ h5'[c].done = h5[c].done \cup files[c][q].done
    BY <1>3, <2>4 DEF File
  <2>6. Appended(c)  BY <2>1, <2>5 DEF Appended
  <2> QED BY <1>2, <2>6
<1>6. CASE MergeClose(r)
  <2>1. /\ h5' = [h5 EXCEPT ![c].st = "closed"] /\ h5[c].st = "open"
        /\ UNCHANGED <<hasDir, files>>
    BY <1>6 DEF MergeClose, CloseConsolidated
  <2>2. h5'[c] = [h5[c] EXCEPT !.st = "closed"]  BY <1>2, <2>1 DEF IInv, TypeOK, DiskTypeOK
  <2>3. Completed(c)  BY <1>3, <2>1, <2>2 DEF File, Completed
  <2> QED BY <1>2, <2>3
<1>7. CASE MergeUnlink(r) \/ MergeRemove(r)  BY <1>2, <1>7, CleanupEffect DEF Removed, MergedSoFar
<1>8. CASE MergeSkip(r) \/ MergeDone(r)  BY <1>1, <1>8 DEF MergeSkip, MergeDone
<1> QED BY <1>4, <1>5, <1>6, <1>7, <1>8 DEF Merge

\* Consolidation loses no trial and brings in none.
LEMMA MergeDoneSame ==
  ASSUME IInv, MergedSoFar, NoFileNoRows, DoneHasRows, CopiesOnly, NEW r \in Rank, Merge(r)
  PROVE  (\A c \in Chk : DoneIn(c)' = DoneIn(c)) /\ DoneOnDisk' = DoneOnDisk
<1>1. SUFFICES ASSUME NEW c \in Chk
               PROVE  DoneIn(c)' = DoneIn(c)
  BY DEF DoneOnDisk
<1>2. CASE UNCHANGED disk  BY <1>2 DEF DoneIn, disk
<1>3. CASE h5'[c] = h5[c] /\ \A q \in Rank : files'[c][q] = files[c][q]  BY <1>3 DEF DoneIn
<1>4. ASSUME c = merge.chk, Copied(c)
      PROVE  DoneIn(c)' = DoneIn(c)
  <2>1. h5[c].done = {}  BY <1>4, NoFileNoDone DEF Copied
  <2>2. \A n \in h5'[c].done : \E q \in Rank : n \in files[c][q].done  BY <1>4 DEF Copied, RanksIn
  <2> QED BY <1>4, <2>1, <2>2, MergedDone DEF Copied, DoneIn
<1>5. ASSUME c = merge.chk, Appended(c)
      PROVE  DoneIn(c)' = DoneIn(c)
  <2>1. \A n \in h5'[c].done : n \in h5[c].done \/ \E q \in Rank : n \in files[c][q].done
    BY <1>5 DEF Appended, RanksIn
  <2>2. h5[c].done \subseteq h5'[c].done /\ UNCHANGED files  BY <1>5 DEF Appended
  <2> QED BY <2>1, <2>2, MergedDone DEF DoneIn
<1>6. ASSUME c = merge.chk, Completed(c)
      PROVE  DoneIn(c)' = DoneIn(c)
  BY <1>6 DEF Completed, DoneIn
<1>7. ASSUME c = merge.chk, Removed(c)
      PROVE  DoneIn(c)' = DoneIn(c)
  <2>1. h5'[c] = h5[c] /\ \A q \in Rank : files'[c][q].done \subseteq files[c][q].done
    BY <1>7 DEF Removed, NoFile
  <2>2. \A q \in RanksIn(c) : files[c][q].done \subseteq h5[c].done  BY <1>7 DEF Removed, CopiesOnly
  <2>3. \A q \in Rank \ RanksIn(c) : files[c][q].done = {}  BY NoFileNoDone DEF RanksIn
  <2>4. \A q \in Rank : files[c][q].done \subseteq h5[c].done  BY <2>2, <2>3
  <2> QED BY <2>1, <2>4, MergedDone DEF DoneIn
<1> QED BY <1>2, <1>3, <1>4, <1>5, <1>6, <1>7, MergeContent

\* The user deletes a consolidated file that is not whole, or the last directory.
LEMMA DeleteContent ==
  ASSUME IInv, NEW m \in Chk, m = MaxCheckpoint, DeleteUnreadable
  PROVE  /\ \A c \in FoundCheckpoints : c <= m
         /\ \A d \in Chk : d # m => h5'[d] = h5[d] /\ \A q \in Rank : files'[d][q] = files[d][q]
         /\ \/ UNCHANGED files /\ h5[m].st \in {"open", "torn"} /\ h5'[m] = NoFile
            \/ /\ UNCHANGED h5 /\ h5[m].st = "none" /\ ~Readable(m)
               /\ \A q \in Rank : files'[m][q] = NoFile
<1>1. \A c \in FoundCheckpoints : c <= m  BY DeleteEffect
<1>2. CASE HasH5(m)
  <2>1. UNCHANGED files /\ \A c \in Chk : h5'[c] = IF c = m THEN NoFile ELSE h5[c]
    BY <1>2, DeleteEffect
  <2>2. ~Readable(m)  BY DEF DeleteUnreadable
  <2>3. h5[m].st # "closed"  BY <1>2, <2>2 DEF Readable, RestartSource, AttrsAgree, HasAttrs
  <2>4. h5[m].st \in FileStatus  BY DEF IInv, TypeOK, DiskTypeOK, File
  <2> QED BY <1>1, <1>2, <2>1, <2>3, <2>4 DEF FileStatus, HasH5
<1>3. CASE ~HasH5(m)
  <2>1. /\ UNCHANGED h5
        /\ \A c \in Chk, q \in Rank : files'[c][q] = IF c = m THEN NoFile ELSE files[c][q]
    BY <1>3, DeleteEffect
  <2>2. ~Readable(m)  BY DEF DeleteUnreadable
  <2> QED BY <1>1, <1>3, <2>1, <2>2 DEF HasH5
<1> QED BY <1>2, <1>3

\* With the last directory go the trials in it, and no others.
LEMMA DeleteDone ==
  ASSUME IInv, NoFileNoRows, DoneHasRows, CopiesOnly, NEW m \in Chk, m = MaxCheckpoint,
         DeleteUnreadable
  PROVE  /\ \A c \in Chk : c # m => DoneIn(c)' = DoneIn(c)
         /\ DoneIn(m)' = DoneIn(m) \/ (DoneIn(m)' = {} /\ h5[m].st = "none" /\ ~Readable(m))
<1>1. ASSUME NEW c \in Chk, c # m
      PROVE  DoneIn(c)' = DoneIn(c)
  <2>1. h5'[c] = h5[c] /\ \A q \in Rank : files'[c][q] = files[c][q]  BY <1>1, DeleteContent
  <2> QED BY <2>1 DEF DoneIn
<1>2. CASE UNCHANGED files /\ h5[m].st \in {"open", "torn"} /\ h5'[m] = NoFile
  <2>1. h5'[m].done = {}  BY <1>2 DEF NoFile
  <2>2. \A n \in h5[m].done : \E q \in Rank : n \in files[m][q].done  BY <1>2 DEF CopiesOnly
  <2>3. \A q \in Rank : \A n \in files[m][q].done : n \in DoneIn(m)'  BY <1>2 DEF DoneIn
  <2>4. \A n \in h5[m].done : n \in DoneIn(m)'  BY <2>2, <2>3
  <2>5. DoneIn(m)' = DoneIn(m)  BY <1>2, <2>1, <2>3, <2>4, MergedDone
  <2> QED BY <1>1, <2>5
<1>3. CASE UNCHANGED h5 /\ h5[m].st = "none" /\ ~Readable(m) /\ \A q \in Rank : files'[m][q] = NoFile
  <2>1. h5'[m].done = {}  BY <1>3, NoFileNoDone
  <2>2. \A q \in Rank : files'[m][q].done = {}  BY <1>3 DEF NoFile
  <2>3. DoneIn(m)' = {}  BY <2>1, <2>2 DEF DoneIn
  <2> QED BY <1>1, <1>3, <2>3
<1> QED BY <1>2, <1>3, DeleteContent

-----------------------------------------------------------------------------
(* The trials of a file.                                                   *)

\* A trial that is done has its row.
LEMMA DoneRowsStep ==
  ASSUME IInv, FilesNew, MergedSoFar, NoFileNoRows, DoneHasRows, TasksNotDone, [Next]_vars
  PROVE  DoneHasRows'
<1> USE DEF DoneHasRows
<1>1. CASE ContentKept  BY <1>1 DEF ContentKept, Trials
<1>2. ASSUME NEW r \in Rank, NEW t \in Thread, WriteTrial(r, t)
      PROVE  DoneHasRows'
  BY <1>2, WriteContent DEF DoneKept, Trials
<1>3. ASSUME NEW r \in Rank, NEW t \in Thread, FinishTrial(r, t)
      PROVE  DoneHasRows'
  <2> SUFFICES ASSUME NEW c \in Chk
               PROVE  /\ h5'[c].done \subseteq Trials(h5'[c].rows)
                      /\ \A q \in Rank : files'[c][q].done \subseteq Trials(files'[c][q].rows)
    OBVIOUS
  <2>1. h5'[c].done \subseteq Trials(h5'[c].rows)  BY <1>3, FinishContent
  <2>2. ASSUME NEW q \in Rank, c # chkNum[r] \/ q # r
        PROVE  files'[c][q].done \subseteq Trials(files'[c][q].rows)
    <3>1. files'[c][q] = files[c][q]  BY <1>3, <2>2, FinishContent
    <3> QED BY <3>1
  <2>3. CASE c = chkNum[r]
    <3>1. files'[c][r].done = files[c][r].done \cup {task[r][t].trial}  BY <1>3, <2>3, FinishContent
    <3>2. files'[c][r].rows = files[c][r].rows  BY <1>3, FinishContent
    <3>3. task[r][t].trial \in Trials(files[c][r].rows)
      BY <1>3, <2>3 DEF FinishTrial, TasksNotDone, OwnFile
    <3>4. files'[c][r].done \subseteq Trials(files'[c][r].rows)  BY <3>1, <3>2, <3>3
    <3> QED BY <2>1, <2>2, <3>4
  <2> QED BY <2>1, <2>2, <2>3
<1>4. ASSUME NEW r \in Rank, Merge(r), ~UNCHANGED disk
      PROVE  DoneHasRows'
  <2> SUFFICES ASSUME NEW c \in Chk
               PROVE  /\ h5'[c].done \subseteq Trials(h5'[c].rows)
                      /\ \A q \in Rank : files'[c][q].done \subseteq Trials(files'[c][q].rows)
    OBVIOUS
  <2>1. CASE c # merge.chk  BY <1>4, <2>1, MergeContent
  <2>2. CASE c = merge.chk /\ Copied(c)  BY <2>2 DEF Copied, RanksIn
  <2>3. CASE c = merge.chk /\ Appended(c)
    <3>1. PICK q \in Rank : /\ h5'[c].rows = h5[c].rows \cup files[c][q].rows
                            /\ h5'[c].done = h5[c].done \cup files[c][q].done
      BY <2>3 DEF Appended, RanksIn
    <3>2. h5'[c].done \subseteq Trials(h5'[c].rows)  BY <3>1 DEF Trials
    <3> QED BY <2>3, <3>2 DEF Appended
  <2>4. CASE c = merge.chk /\ Completed(c)  BY <2>4 DEF Completed
  <2>5. CASE c = merge.chk /\ Removed(c)  BY <2>5 DEF Removed, NoFile
  <2> QED BY <1>4, <2>1, <2>2, <2>3, <2>4, <2>5, MergeContent
<1>5. CASE DeleteUnreadable
  <2>1. PICK m \in Chk : m = MaxCheckpoint  BY <1>5, DeleteEffect
  <2>2. NoFile.done = {}  BY DEF NoFile
  <2>3. /\ \A c \in Chk : h5'[c] \in {h5[c], NoFile}
        /\ \A c \in Chk, q \in Rank : files'[c][q] \in {files[c][q], NoFile}
    BY <1>5, <2>1, DeleteContent
  <2> QED BY <2>2, <2>3
<1>6. CASE UNCHANGED disk  BY <1>6 DEF disk
<1> QED BY <1>1, <1>2, <1>3, <1>4, <1>5, <1>6, ContentStep

\* The consolidated file has nothing the directory has not, until it is closed.
LEMMA CopiesFrame ==
  ASSUME CopiesOnly, MergeUnstarted',
         \A c \in Chk : h5'[c].st \in {"open", "torn"} =>
           /\ h5[c].st \in {"open", "torn"} /\ h5'[c].done = h5[c].done
           /\ \A q \in Rank : files[c][q].done \subseteq files'[c][q].done
  PROVE  CopiesOnly'
<1>1. ASSUME NEW c \in Chk, h5'[c].st \in {"open", "torn"}, NEW n \in h5'[c].done
      PROVE  n \in UNION {files'[c][q].done : q \in Rank}
  <2>1. h5[c].st \in {"open", "torn"} /\ n \in h5[c].done  BY <1>1
  <2>2. n \in UNION {files[c][q].done : q \in Rank}  BY <2>1 DEF CopiesOnly
  <2>3. PICK q \in Rank : n \in files[c][q].done  BY <2>2
  <2>4. n \in files'[c][q].done  BY <1>1, <2>3
  <2> QED BY <2>4
<1> QED BY <1>1 DEF CopiesOnly

\* Consolidation fills the file of checkpoint c from the directory's files.
LEMMA CopiesMore ==
  ASSUME CopiesOnly, NEW c \in Chk, UNCHANGED files,
         \A d \in Chk : d # c => h5'[d] = h5[d],
         h5'[c].st \in {"open", "torn"} =>
           \A n \in h5'[c].done :
             \/ h5[c].st \in {"open", "torn"} /\ n \in h5[c].done
             \/ \E q \in Rank : n \in files[c][q].done,
         merge'.chk = c,
         \A q \in RanksIn(c) \ NotYetMerged' : files[c][q].done \subseteq h5'[c].done
  PROVE  CopiesOnly'
<1>1. ASSUME NEW d \in Chk, h5'[d].st \in {"open", "torn"}, NEW n \in h5'[d].done
      PROVE  n \in UNION {files'[d][q].done : q \in Rank}
  <2>1. \/ h5[d].st \in {"open", "torn"} /\ n \in h5[d].done
        \/ \E q \in Rank : n \in files[d][q].done
    <3>1. CASE d = c  BY <1>1, <3>1
    <3>2. CASE d # c  BY <1>1, <3>2
    <3> QED BY <3>1, <3>2
  <2>2. \E q \in Rank : n \in files[d][q].done  BY <2>1 DEF CopiesOnly
  <2> QED BY <2>2
<1>2. RanksIn(merge.chk)' = RanksIn(c)  BY DEF RanksIn
<1>3. \A q \in RanksIn(merge.chk)' \ NotYetMerged' :
        files'[merge'.chk][q].done \subseteq h5'[merge'.chk].done
  BY <1>2
<1> QED BY <1>1, <1>3 DEF CopiesOnly

\* Files are merged one after the other.
LEMMA CopiesMerge ==
  ASSUME IInv, MergedSoFar, NoFileNoRows, DoneHasRows, CopiesOnly, NEW r \in Rank, Merge(r)
  PROVE  CopiesOnly'
<1>1. CASE MergeSkip(r) \/ MergeDone(r)
  <2>1. UNCHANGED disk /\ MergeUnstarted'
    BY <1>1 DEF MergeSkip, MergeDone, MergeUnstarted, NoMerge, IInv, TypeOK
  <2> QED BY <2>1, CopiesFrame DEF disk
<1>2. CASE MergeCopy(r)
  <2>1. PICK c \in Chk : c = merge.chk  BY <1>2, MergeTypes DEF MergeCopy
  <2>2. PICK m \in RanksIn(c) : m = Min(RanksIn(c)) /\ \A q \in RanksIn(c) : m <= q
    BY <1>2, <2>1, MinOfRanks DEF MergeCopy, RanksIn
  <2>3. /\ UNCHANGED files
        /\ h5' = [h5 EXCEPT ![c] = [files[c][m] EXCEPT !.st = "open"]]
        /\ merge' = [merge EXCEPT !.last = m]
    BY <1>2, <2>1, <2>2 DEF MergeCopy, CopyFirstFile
  <2>4. merge'.chk = c /\ merge'.last = m  BY <2>1, <2>3 DEF IInv, TypeOK
  <2>5. m \in Rank /\ files[c][m] \in File  BY DEF IInv, TypeOK, DiskTypeOK, RanksIn
  <2>6. h5'[c].done = files[c][m].done /\ \A d \in Chk : d # c => h5'[d] = h5[d]
    BY <2>3, <2>5 DEF IInv, TypeOK, DiskTypeOK, File
  <2>7. \A q \in RanksIn(c) \ NotYetMerged' : q = m
    <3>1. RanksIn(merge.chk)' = RanksIn(c)  BY <2>3, <2>4 DEF RanksIn
    <3> QED BY <2>2, <2>4, <3>1, OutputAssumption DEF NotYetMerged, RanksIn, Rank
  <2> QED BY <2>3, <2>4, <2>5, <2>6, <2>7, CopiesMore
<1>3. CASE MergeAppend(r)
  <2>1. PICK c \in Chk : c = merge.chk  BY <1>3 DEF MergeAppend, IInv, MergeWithinCheckpoints
  <2>2. NotYetMerged # {} /\ NotYetMerged \subseteq RanksIn(c) /\ RanksIn(c) \subseteq Rank
    BY <1>3, <2>1 DEF MergeAppend, NotYetMerged, RanksIn
  <2>3. PICK m \in NotYetMerged : m = Min(NotYetMerged) /\ \A q \in NotYetMerged : m <= q
    BY <2>2, MinOfRanks
  <2>4. /\ UNCHANGED files /\ ~MergeUnstarted
        /\ h5' = [h5 EXCEPT ![c].rows = @ \cup files[c][m].rows,
                            ![c].done = @ \cup files[c][m].done]
        /\ merge' = [merge EXCEPT !.last = m]
    BY <1>3, <2>1, <2>3 DEF MergeAppend, AppendFile
  <2>5. merge'.chk = c /\ merge'.last = m /\ merge.last \in 0 .. MaxRanks
    BY <2>1, <2>4 DEF IInv, TypeOK
  <2>6. /\ h5'[c].done = h5[c].done \cup files[c][m].done /\ h5'[c].st = h5[c].st
        /\ \A d \in Chk : d # c => h5'[d] = h5[d]
    BY <2>4 DEF IInv, TypeOK, DiskTypeOK, File
  <2>7. \A q \in RanksIn(c) \ NotYetMerged' : q = m \/ q \notin NotYetMerged
    <3>1. RanksIn(merge.chk)' = RanksIn(c)  BY <2>4, <2>5 DEF RanksIn
    <3>2. NotYetMerged' = {q \in RanksIn(c) : q > m}  BY <2>5, <3>1 DEF NotYetMerged
    <3> QED BY <2>1, <2>2, <2>3, <3>2, OutputAssumption DEF Rank
  <2>8. \A q \in RanksIn(c) \ NotYetMerged : files[c][q].done \subseteq h5[c].done
    BY <2>1, <2>4 DEF CopiesOnly
  <2>9. HasH5(c) /\ h5[c].st # "closed" /\ h5[c].st \in FileStatus
    BY <2>1, <2>2, <2>4, <1>3 DEF MergedSoFar, MergeAppend, IInv, TypeOK, DiskTypeOK, File
  <2>10. h5[c].st \in {"open", "torn"}  BY <2>9 DEF HasH5, FileStatus
  <2>11. \A q \in RanksIn(c) \ NotYetMerged' : files[c][q].done \subseteq h5'[c].done
    BY <2>6, <2>7, <2>8
  <2>12. m \in Rank  BY <2>2, <2>3
  <2> QED BY <2>4, <2>5, <2>6, <2>10, <2>11, <2>12, CopiesMore
<1>4. CASE MergeClose(r)
  <2>1. PICK c \in Chk : c = merge.chk  BY <1>4 DEF MergeClose, IInv, MergeWithinCheckpoints
  <2>2. /\ UNCHANGED files /\ merge' = merge /\ h5' = [h5 EXCEPT ![c].st = "closed"]
        /\ ~MergeUnstarted
    BY <1>4, <2>1 DEF MergeClose, CloseConsolidated
  <2>3. /\ h5'[c].st = "closed" /\ h5'[c].done = h5[c].done
        /\ \A d \in Chk : d # c => h5'[d] = h5[d]
    BY <2>2 DEF IInv, TypeOK, DiskTypeOK, File
  <2>4. NotYetMerged' = NotYetMerged  BY <2>2 DEF RanksIn, NotYetMerged
  <2>5. \A q \in RanksIn(c) \ NotYetMerged' : files[c][q].done \subseteq h5'[c].done
    BY <2>1, <2>2, <2>3, <2>4 DEF CopiesOnly
  <2> QED BY <2>1, <2>2, <2>3, <2>5, CopiesMore
<1>6. CASE MergeUnlink(r)
  <2>1. /\ ~MergeUnstarted /\ h5' = h5 /\ h5[merge.chk].st = "closed" /\ merge' = merge
        /\ merge.chk \in Chk
    BY <1>6, CleanupEffect DEF MergeUnlink
  <2>2. \A q \in RanksIn(merge.chk)' :
          q \in RanksIn(merge.chk) /\ files'[merge.chk][q] = files[merge.chk][q]
    BY <1>6, <2>1, CleanupEffect DEF RanksIn, NoFile
  <2>3. \A d \in Chk, q \in Rank : d # merge.chk => files'[d][q] = files[d][q]
    BY <1>6, CleanupEffect
  <2> QED BY <2>1, <2>2, <2>3 DEF CopiesOnly, NotYetMerged, MergeUnstarted
<1>5. CASE MergeRemove(r)
  <2>1. PICK c \in Chk : c = merge.chk  BY <1>5 DEF MergeRemove, IInv, MergeWithinCheckpoints
  <2>2. MergeUnstarted'  BY <1>5 DEF MergeRemove, MergeUnstarted
  <2>3. /\ h5' = h5 /\ h5[c].st = "closed"
        /\ files' = [files EXCEPT ![c] = [q \in Rank |-> NoFile]]
    BY <1>5, <2>1 DEF MergeRemove, RemoveDirectory
  <2>4. \A d \in Chk : d # c => files'[d] = files[d]  BY <2>3 DEF IInv, TypeOK, DiskTypeOK
  <2>5. \A d \in Chk : h5'[d].st \in {"open", "torn"} =>
           /\ h5[d].st \in {"open", "torn"} /\ h5'[d].done = h5[d].done
           /\ \A q \in Rank : files[d][q].done \subseteq files'[d][q].done
    BY <2>3, <2>4
  <2> QED BY <2>2, <2>5, CopiesFrame
<1> QED BY <1>1, <1>2, <1>3, <1>4, <1>5, <1>6 DEF Merge

\* Where nothing is half consolidated, nothing becomes so but by consolidation.
LEMMA MergeStays ==
  ASSUME IInv, MergedSoFar, [Next]_vars, \A r \in Rank : ~Merge(r)
  PROVE  MergeUnstarted' \/ UNCHANGED <<merge, disk>>
<1>1. ASSUME NEW r \in Rank, pc[r] \notin EndPcs \cup {"idle"}, UNCHANGED merge
      PROVE  MergeUnstarted'
  BY <1>1, NothingMerging DEF MergeUnstarted
<1>2. 0 \in Rank  BY OutputAssumption DEF Rank
<1>3. (size = 0 => pc[0] = "idle") /\ (size # 0 => 0 \in Active)
  <2>1. size \in 0 .. MaxRanks  BY DEF IInv, TypeOK
  <2> QED BY <1>2, <2>1 DEF IInv, OnlyActiveRun, Active
<1>4. ASSUME NEW r \in Rank, RankStep(r)
      PROVE  MergeUnstarted' \/ UNCHANGED <<merge, disk>>
  <2>1. CASE Setup(r) \/ Open(r) \/ Batch(r) \/ Save(r)
    <3>1. UNCHANGED merge
      BY <2>1
      DEF Setup, SetupThrows, SetupFresh, SetupRestart, Open, OpenThrows, OpenCheck, MakeDir,
          OpenFiles, Batch, BatchFailed, BatchDone, Save, Close, SyncRead, SyncWrite
    <3>2. pc[r] \in {"setup", "open_check", "make_dir", "open_files", "batch", "close",
                      "sync_read", "sync_write"}
      BY <2>1
      DEF Setup, SetupThrows, SetupFresh, SetupRestart, Open, OpenThrows, OpenCheck, MakeDir,
          OpenFiles, Batch, BatchFailed, BatchDone, BatchOver, Save, Close, SyncRead, SyncWrite
    <3> QED BY <1>1, <3>1, <3>2 DEF EndPcs
  <2>2. ASSUME NEW t \in Thread, Trial(r, t)
        PROVE  MergeUnstarted'
    <3>1. UNCHANGED merge /\ (pc[r] = "batch" \/ task[r][t].st # "idle")
      BY <2>2 DEF Trial, SkipTrial, BeginTrial, WriteTrial, FinishTrial
    <3>2. pc[r] = "batch"  BY <3>1 DEF IInv, TrialsOnlyInBatch
    <3> QED BY <1>1, <3>1, <3>2 DEF EndPcs
  <2> QED BY <1>4, <2>1, <2>2 DEF RankStep
<1>5. CASE Reduce \/ Barrier
  BY <1>1, <1>2, <1>3, <1>5 DEF Reduce, Barrier, Running, BarrierPcs, EndPcs
<1>6. CASE Finalize \/ Crash  BY <1>6 DEF Finalize, Crash, Forget, MergeUnstarted, NoMerge
<1>7. ASSUME NEW r \in Rank, SigtermArrives(r)
      PROVE  UNCHANGED <<merge, disk>>
  BY <1>7 DEF SigtermArrives
<1>8. ASSUME NEW r \in Rank, NEW t \in Thread, FailTrial(r, t)
      PROVE  UNCHANGED <<merge, disk>>
  BY <1>8 DEF FailTrial
<1>9. ASSUME NEW n \in RankCounts, NEW again \in BOOLEAN, Launch(n, again)
      PROVE  UNCHANGED <<merge, disk>>
  BY <1>9 DEF Launch
<1>10. CASE DeleteUnreadable
  <2>1. UNCHANGED merge /\ pc[0] = "idle"  BY <1>3, <1>10 DEF DeleteUnreadable, Running
  <2>2. MergeUnstarted  BY <2>1 DEF MergedSoFar
  <2> QED BY <2>1, <2>2 DEF MergeUnstarted
<1>11. CASE UNCHANGED vars  BY <1>11 DEF vars
<1> QED BY <1>4, <1>5, <1>6, <1>7, <1>8, <1>9, <1>10, <1>11 DEF Next, Collective, Outside, Finished

\* Until it is closed the consolidated file only has what the directory has.
LEMMA CopiesStep ==
  ASSUME IInv, MergedSoFar, FilesNew, NoFileNoRows, DoneHasRows, CopiesOnly, [Next]_vars
  PROVE  CopiesOnly'
<1>1. ASSUME NEW r \in Rank, Merge(r)
      PROVE  CopiesOnly'
  BY <1>1, CopiesMerge
<1>2. CASE UNCHANGED <<merge, disk>>
  BY <1>2 DEF CopiesOnly, disk, MergeUnstarted, RanksIn, NotYetMerged
<1>3. ASSUME MergeUnstarted', ~UNCHANGED disk, \A r \in Rank : ~Merge(r)
      PROVE  CopiesOnly'
  <2>1. CASE ContentKept
    <3>1. ASSUME NEW c \in Chk, h5'[c].st \in {"open", "torn"}
          PROVE  h5[c].st \in {"open", "torn"}
      <4>1. CASE UNCHANGED h5  BY <3>1, <4>1
      <4>2. CASE Crash
        <5>1. h5'[c].st \in IF h5[c].st = "open" THEN {"torn", "closed"} ELSE {h5[c].st}
          BY <4>2, CrashEffect
        <5> QED BY <3>1, <5>1
      <4>3. CASE DeleteUnreadable
        <5>1. \A d \in Chk : h5'[d] \in {h5[d], NoFile}  BY <4>3, DeleteEffect
        <5> QED BY <3>1, <5>1 DEF NoFile
      <4>4. ASSUME NEW r \in Rank, MakeDir(r) \/ OpenFiles(r) \/ Close(r) \/ SyncWrite(r)
            PROVE  UNCHANGED h5
        BY <4>4, OpenEffect, CloseEffect, SyncEffect DEF MakeDir, CreateDirectory, OnlyFile
      <4>5. ASSUME NEW r \in Rank, NEW t \in Thread, WriteTrial(r, t) \/ FinishTrial(r, t)
            PROVE  UNCHANGED h5
        BY <4>5, WriteEffect, FinishEffect DEF OnlyFile
      <4> QED BY <1>3, <4>1, <4>2, <4>3, <4>4, <4>5, DiskSteps DEF DiskStep
    <3> QED BY <1>3, <2>1, <3>1, CopiesFrame DEF ContentKept
  <2>2. ASSUME NEW r \in Rank, NEW t \in Thread, WriteTrial(r, t)
        PROVE  CopiesOnly'
    <3>1. DoneKept /\ UNCHANGED h5  BY <2>2, WriteContent, WriteEffect DEF OnlyFile
    <3> QED BY <1>3, <3>1, CopiesFrame DEF DoneKept
  <2>3. ASSUME NEW r \in Rank, NEW t \in Thread, FinishTrial(r, t)
        PROVE  CopiesOnly'
    <3>1. \A c \in Chk : /\ h5'[c] = h5[c]
                         /\ \A q \in Rank : files[c][q].done \subseteq files'[c][q].done
      BY <2>3, FinishContent
    <3> QED BY <1>3, <3>1, CopiesFrame
  <2>4. CASE DeleteUnreadable
    <3>1. PICK m \in Chk : m = MaxCheckpoint  BY <2>4, DeleteEffect
    <3>2. \A c \in Chk : h5'[c].st \in {"open", "torn"} =>
            h5'[c] = h5[c] /\ \A q \in Rank : files'[c][q] = files[c][q]
      BY <2>4, <3>1, DeleteContent DEF NoFile
    <3> QED BY <1>3, <3>2, CopiesFrame
  <2> QED BY <1>3, <2>1, <2>2, <2>3, <2>4, ContentStep
<1>4. CASE UNCHANGED disk /\ MergeUnstarted'  BY <1>4, CopiesFrame DEF disk
<1> QED BY <1>1, <1>2, <1>3, <1>4, MergeStays

-----------------------------------------------------------------------------
(* The trials the threads are at work on.                                  *)

\* What a thread is doing changes only in what follows.
LEMMA TaskChange ==
  ASSUME IInv, [Next]_vars
  PROVE  \/ \E r \in Rank, t \in Thread :
              BeginTrial(r, t) \/ WriteTrial(r, t) \/ FinishTrial(r, t) \/ FailTrial(r, t)
         \/ Forget
         \/ /\ task' = task
            /\ \A q \in Rank : pc[q] = "batch" => chkNum'[q] = chkNum[q]
<1>1. chkNum \in [Rank -> Chk]  BY DEF IInv, TypeOK
<1>2. CASE UNCHANGED <<task, chkNum>>  BY <1>2
<1>3. ASSUME NEW r \in Rank, RankStep(r)
      PROVE  \/ UNCHANGED <<task, chkNum>>
             \/ SetupRestart(r)
             \/ \E t \in Thread : BeginTrial(r, t) \/ WriteTrial(r, t) \/ FinishTrial(r, t)
  <2>1. CASE Setup(r) \/ Open(r) \/ Batch(r) \/ Save(r)
    BY <2>1
    DEF Setup, SetupThrows, SetupFresh, Open, OpenThrows, OpenCheck, MakeDir,
        OpenFiles, Batch, BatchFailed, BatchDone, Save, Close, SyncRead, SyncWrite
  <2>2. CASE Merge(r)
    BY <2>2 DEF Merge, MergeSkip, MergeCopy, MergeAppend, MergeClose, MergeUnlink, MergeRemove, MergeDone
  <2>3. ASSUME NEW t \in Thread, Trial(r, t)
        PROVE  UNCHANGED <<task, chkNum>> \/ BeginTrial(r, t) \/ WriteTrial(r, t)
                 \/ FinishTrial(r, t)
    BY <2>3 DEF Trial, SkipTrial, TaskUnchanged
  <2> QED BY <1>3, <2>1, <2>2, <2>3 DEF RankStep
<1>4. ASSUME NEW r \in Rank, SetupRestart(r)
      PROVE  /\ task' = task
             /\ \A q \in Rank : pc[q] = "batch" => chkNum'[q] = chkNum[q]
  BY <1>1, <1>4 DEF SetupRestart
<1>5. CASE Barrier  BY <1>5 DEF Barrier
<1>6. CASE Reduce \/ DeleteUnreadable \/ (\E r \in Rank : SigtermArrives(r))
           \/ (\E n \in RankCounts, again \in BOOLEAN : Launch(n, again)) \/ UNCHANGED vars
  BY <1>2, <1>6 DEF Reduce, DeleteUnreadable, SigtermArrives, Launch, vars
<1>7. CASE Finalize \/ Crash  BY <1>7 DEF Finalize, Crash
<1> QED BY <1>2, <1>3, <1>4, <1>5, <1>6, <1>7 DEF Next, Collective, Outside, Finished

\* No thread is at work.
LEMMA TasksAside ==
  ASSUME \A r \in Rank, t \in Thread : task'[r][t].st = "idle"
  PROVE  TasksNotDone'
BY DEF TasksNotDone

\* A process that ends takes its threads with it.
LEMMA TasksForgotten ==
  ASSUME Forget
  PROVE  \A r \in Rank, t \in Thread : task'[r][t].st = "idle"
BY DEF Forget, Idle

\* The threads go on with what they do, and nothing is done in their rank's file.
LEMMA TasksFrame ==
  ASSUME TasksNotDone, task' = task,
         \A q \in Rank, t \in Thread : task[q][t].st # "idle" =>
           OwnFile(q)'.done = OwnFile(q).done /\ OwnFile(q)'.rows = OwnFile(q).rows
  PROVE  TasksNotDone'
<1> SUFFICES ASSUME NEW r \in Rank, NEW t \in Thread, task'[r][t].st # "idle"
             PROVE  /\ task'[r][t].trial \notin OwnFile(r)'.done
                    /\ \A u \in Thread \ {t} : task'[r][u].st # "idle" =>
                         task'[r][u].trial # task'[r][t].trial
                    /\ task'[r][t].st = "written" =>
                         task'[r][t].trial \in Trials(OwnFile(r)'.rows)
  BY DEF TasksNotDone
<1>1. OwnFile(r)'.done = OwnFile(r).done /\ OwnFile(r)'.rows = OwnFile(r).rows  OBVIOUS
<1> QED BY <1>1 DEF TasksNotDone

\* What r's threads do after one of them has taken a step, the other ranks' being the same.
LEMMA TasksOne ==
  ASSUME IInv, TasksNotDone, NEW r \in Rank, NEW t \in Thread, NEW task1,
         task' = [task EXCEPT ![r][t] = task1], UNCHANGED chkNum,
         \A q \in Rank \ {r} : OwnFile(q)' = OwnFile(q),
         \A u \in Thread \ {t} : task[r][u].st # "idle" =>
           /\ task[r][u].trial \notin OwnFile(r)'.done
           /\ OwnFile(r).rows \subseteq OwnFile(r)'.rows,
         task1.st # "idle" =>
           /\ task1.trial \notin OwnFile(r)'.done
           /\ \A u \in Thread \ {t} : task[r][u].st # "idle" => task[r][u].trial # task1.trial
           /\ task1.st = "written" => task1.trial \in Trials(OwnFile(r)'.rows)
  PROVE  TasksNotDone'
<1>1. /\ \A q \in Rank, u \in Thread : q # r \/ u # t => task'[q][u] = task[q][u]
      /\ task'[r][t] = task1
  BY DEF IInv, TypeOK
<1> SUFFICES ASSUME NEW q \in Rank, NEW u \in Thread, task'[q][u].st # "idle"
             PROVE  /\ task'[q][u].trial \notin OwnFile(q)'.done
                    /\ \A v \in Thread \ {u} : task'[q][v].st # "idle" =>
                         task'[q][v].trial # task'[q][u].trial
                    /\ task'[q][u].st = "written" =>
                         task'[q][u].trial \in Trials(OwnFile(q)'.rows)
  BY DEF TasksNotDone
<1>2. CASE q # r
  <2>1. OwnFile(q)' = OwnFile(q)  BY <1>2
  <2> QED BY <1>1, <1>2, <2>1 DEF TasksNotDone
<1>3. CASE q = r /\ u = t  BY <1>1, <1>3
<1>4. CASE q = r /\ u # t
  <2>1. task'[r][u] = task[r][u] /\ task[r][u].st # "idle"  BY <1>1, <1>4
  <2>2. /\ task[r][u].trial \notin OwnFile(r)'.done
        /\ OwnFile(r).rows \subseteq OwnFile(r)'.rows
    BY <1>4, <2>1
  <2>3. task[r][u].st = "written" => task[r][u].trial \in Trials(OwnFile(r)'.rows)
    BY <2>1, <2>2 DEF TasksNotDone, Trials
  <2>4. \A v \in Thread \ {u} : task'[r][v].st # "idle" => task'[r][v].trial # task[r][u].trial
    BY <1>1, <1>4, <2>1 DEF TasksNotDone
  <2> QED BY <1>4, <2>1, <2>2, <2>3, <2>4
<1> QED BY <1>2, <1>3, <1>4

\* A thread does not begin with a trial that is done.
LEMMA TasksStep ==
  ASSUME NumbersInv, NumbersInv', DoneHasRows, TasksNotDone, [Next]_vars
  PROVE  TasksNotDone'
<1>1. IInv /\ IInv' /\ FilesNew /\ NoFileNoRows /\ TasksTaken /\ RowsTaken
  BY DEF NumbersInv, DiskInv
<1>2. chkNum \in [Rank -> Chk] /\ task \in [Rank -> [Thread -> Task]] /\ nextTrial \in [Rank -> Nat]
  BY <1>1 DEF IInv, TypeOK
<1>3. ASSUME NEW r \in Rank, NEW t \in Thread, task[r][t].st # "idle"
      PROVE  pc[r] = "batch"
  BY <1>1, <1>3 DEF IInv, TrialsOnlyInBatch
<1>4. ASSUME NEW r \in Rank, NEW t \in Thread, BeginTrial(r, t)
      PROVE  TasksNotDone'
  <2> DEFINE n == nextTrial[r]
             new == [st |-> "begun", trial |-> n, uid |-> nextUid[r]]
  <2>1. /\ task' = [task EXCEPT ![r][t] = new] /\ UNCHANGED <<chkNum, files>>
        /\ pc[r] = "batch"
    BY <1>4 DEF BeginTrial, TaskUnchanged, disk
  <2>2. \A q \in Rank : OwnFile(q)' = OwnFile(q)  BY <2>1 DEF OwnFile
  <2>3. n \notin Taken(r)  BY <1>2 DEF Taken
  <2>4. \A u \in Thread : task[r][u].st # "idle" => task[r][u].trial # n
    BY <1>1, <2>3 DEF TasksTaken
  <2>5. n \notin OwnFile(r).done
    <3>1. OwnFile(r).done \subseteq Trials(OwnFile(r).rows)  BY <1>2 DEF DoneHasRows, OwnFile
    <3>2. \A row \in OwnFile(r).rows : row.trial # n  BY <1>1, <2>1, <2>3 DEF RowsTaken, HasFile
    <3> QED BY <3>1, <3>2 DEF Trials
  <2>6. \A u \in Thread : task[r][u].st # "idle" => task[r][u].trial \notin OwnFile(r)'.done
    BY <2>2 DEF TasksNotDone
  <2> HIDE DEF n
  <2>7. new.st = "begun" /\ new.trial = n  OBVIOUS
  <2> HIDE DEF new
  <2> QED BY <1>1, <2>1, <2>2, <2>4, <2>5, <2>6, <2>7, TasksOne
<1>5. ASSUME NEW r \in Rank, NEW t \in Thread, WriteTrial(r, t) \/ FinishTrial(r, t)
      PROVE  \A q \in Rank \ {r} : OwnFile(q)' = OwnFile(q)
  <2>1. OnlyFile(chkNum[r], r) /\ UNCHANGED chkNum
    BY <1>1, <1>5, WriteEffect, FinishEffect DEF WriteTrial, FinishTrial, TaskUnchanged
  <2>2. \A q \in Rank \ {r} : files'[chkNum[q]][q] = files[chkNum[q]][q]  BY <1>2, <2>1 DEF OnlyFile
  <2> QED BY <2>1, <2>2 DEF OwnFile
<1>6. ASSUME NEW r \in Rank, NEW t \in Thread, WriteTrial(r, t)
      PROVE  TasksNotDone'
  <2> DEFINE new == [task[r][t] EXCEPT !.st = "written"]
  <2>1. /\ task' = [task EXCEPT ![r][t].st = "written"] /\ UNCHANGED chkNum
        /\ task[r][t].st = "begun"
    BY <1>6 DEF WriteTrial, TaskUnchanged
  <2>2. task[r][t] \in Task  BY <1>2
  <2>3. task' = [task EXCEPT ![r][t] = new] /\ new.st = "written"
        /\ new.trial = task[r][t].trial
    BY <1>2, <2>1, <2>2 DEF Task
  <2>4. /\ OwnFile(r)'.rows = OwnFile(r).rows
             \cup {[trial |-> task[r][t].trial, uid |-> task[r][t].uid]}
        /\ OwnFile(r)'.done = OwnFile(r).done
    <3>1. files'[chkNum[r]][r].rows = files[chkNum[r]][r].rows
             \cup {[trial |-> task[r][t].trial, uid |-> task[r][t].uid]}
      BY <1>1, <1>6, WriteEffect
    <3>2. files'[chkNum[r]][r].done = files[chkNum[r]][r].done
      BY <1>1, <1>2, <1>6, WriteContent DEF DoneKept
    <3> QED BY <2>1, <3>1, <3>2 DEF OwnFile
  <2>5. \A u \in Thread : task[r][u].st # "idle" => task[r][u].trial \notin OwnFile(r)'.done
    BY <2>4 DEF TasksNotDone
  <2> HIDE DEF new
  <2>6. new.trial \in Trials(OwnFile(r)'.rows)
    <3>1. [trial |-> task[r][t].trial, uid |-> task[r][t].uid] \in OwnFile(r)'.rows  BY <2>4
    <3>2. [trial |-> task[r][t].trial, uid |-> task[r][t].uid].trial = new.trial  BY <2>3
    <3> QED BY <3>1, <3>2 DEF Trials
  <2>7. \A u \in Thread \ {t} : task[r][u].st # "idle" => task[r][u].trial # new.trial
    BY <2>1, <2>3 DEF TasksNotDone
  <2>8. new.trial \notin OwnFile(r)'.done  BY <2>1, <2>3, <2>5
  <2>9. OwnFile(r).rows \subseteq OwnFile(r)'.rows  BY <2>4
  <2>10. \A q \in Rank \ {r} : OwnFile(q)' = OwnFile(q)  BY <1>5, <1>6
  <2>11. UNCHANGED chkNum /\ IInv  BY <1>1, <2>1
  <2>12. task' = [task EXCEPT ![r][t] = new]  BY <2>3
  <2> QED BY <2>5, <2>6, <2>7, <2>8, <2>9, <2>10, <2>11, <2>12, TasksOne
<1>7. ASSUME NEW r \in Rank, NEW t \in Thread, FinishTrial(r, t)
      PROVE  TasksNotDone'
  <2>1. task' = [task EXCEPT ![r][t] = Idle] /\ UNCHANGED chkNum /\ Idle.st = "idle"
        /\ task[r][t].st = "written"
    BY <1>7 DEF FinishTrial, TaskUnchanged, Idle
  <2>2. /\ files'[chkNum[r]][r].rows = files[chkNum[r]][r].rows
        /\ files'[chkNum[r]][r].done = files[chkNum[r]][r].done \cup {task[r][t].trial}
    BY <1>1, <1>7, FinishContent
  <2>3. OwnFile(r)'.rows = OwnFile(r).rows /\ OwnFile(r)'.done = OwnFile(r).done \cup {task[r][t].trial}
    BY <2>1, <2>2 DEF OwnFile
  <2>4. \A u \in Thread \ {t} : task[r][u].st # "idle" =>
          task[r][u].trial \notin OwnFile(r)'.done
    BY <2>1, <2>3 DEF TasksNotDone
  <2> QED BY <1>1, <1>5, <1>7, <2>1, <2>3, <2>4, TasksOne
<1>8. ASSUME NEW r \in Rank, NEW t \in Thread, FailTrial(r, t)
      PROVE  TasksNotDone'
  <2>1. task' = [task EXCEPT ![r][t] = Idle] /\ UNCHANGED <<chkNum, files>> /\ Idle.st = "idle"
    BY <1>8 DEF FailTrial, TaskUnchanged, Idle, disk
  <2>2. \A q \in Rank : OwnFile(q)' = OwnFile(q)  BY <2>1 DEF OwnFile
  <2>3. \A u \in Thread \ {t} : task[r][u].st # "idle" =>
          task[r][u].trial \notin OwnFile(r)'.done
    BY <2>2 DEF TasksNotDone
  <2> QED BY <1>1, <2>1, <2>2, <2>3, TasksOne
<1>9. ASSUME task' = task, \A q \in Rank : pc[q] = "batch" => chkNum'[q] = chkNum[q],
             \A r \in Rank, t \in Thread : ~WriteTrial(r, t) /\ ~FinishTrial(r, t)
      PROVE  TasksNotDone'
  <2>1. CASE ContentKept
    <3>1. ASSUME NEW q \in Rank, NEW t \in Thread, task[q][t].st # "idle"
          PROVE  OwnFile(q)'.done = OwnFile(q).done /\ OwnFile(q)'.rows = OwnFile(q).rows
      <4>1. chkNum'[q] = chkNum[q] /\ chkNum[q] \in Chk  BY <1>2, <1>3, <1>9, <3>1
      <4>2. OwnFile(q)' = files'[chkNum[q]][q]  BY <4>1 DEF OwnFile
      <4> QED BY <2>1, <4>1, <4>2 DEF ContentKept, OwnFile
    <3> QED BY <1>9, <3>1, TasksFrame
  <2>2. ASSUME \A q \in Rank : pc[q] # "batch"
        PROVE  TasksNotDone'
    BY <1>3, <1>9, <2>2, TasksAside
  <2>3. CASE DeleteUnreadable  BY <1>1, <2>2, <2>3, DeleteEffect
  <2>4. ASSUME NEW r \in Rank, Merge(r)
        PROVE  TasksNotDone'
    <3>1. pc[r] = "merge"
      BY <2>4 DEF Merge, MergeSkip, MergeCopy, MergeAppend, MergeClose, MergeUnlink, MergeRemove, MergeDone
    <3> QED BY <1>1, <2>2, <3>1, MergeAlone DEF EndPcs
  <2> QED BY <1>1, <1>9, <2>1, <2>3, <2>4, ContentStep
<1>10. CASE Forget  BY <1>10, TasksAside, TasksForgotten
<1> QED BY <1>1, <1>4, <1>6, <1>7, <1>8, <1>9, <1>10, TaskChange

\* A rank has the file it had, or has just opened it.
LEMMA FileMoves ==
  ASSUME IInv, [Next]_vars, NEW r \in Rank, HasFile(r)'
  PROVE  OpenFiles(r) \/ (HasFile(r) /\ chkNum'[r] = chkNum[r])
<1>1. /\ chkNum \in [Rank -> Chk]
      /\ pc \in [Rank -> {"idle"} \cup CollectivePcs \cup LocalPcs]
  BY DEF IInv, TypeOK
<1> DEFINE Having == {"batch", "reduce", "close", "closed"} \cup SyncPcs
<1>2. pc'[r] \in Having  BY DEF HasFile
<1>3. CASE UNCHANGED <<pc, chkNum>>  BY <1>3 DEF HasFile
<1>4. ASSUME NEW q \in Rank, RankStep(q)
      PROVE  OpenFiles(r) \/ (HasFile(r) /\ chkNum'[r] = chkNum[r])
  <2>1. ASSUME NEW p, pc' = [pc EXCEPT ![q] = p], UNCHANGED chkNum,
               p \in Having => pc[q] \in Having
        PROVE  HasFile(r) /\ chkNum'[r] = chkNum[r]
    BY <1>1, <1>2, <2>1 DEF HasFile
  <2>2. CASE SetupThrows(q) \/ OpenThrows(q)
    <3>1. pc' = [pc EXCEPT ![q] = "finalize"] /\ UNCHANGED chkNum
      BY <2>2 DEF SetupThrows, OpenThrows, ConstructorThrows
    <3> QED BY <2>1, <3>1 DEF SyncPcs
  <2>3. CASE SetupFresh(q)  BY <2>1, <2>3 DEF SetupFresh, SyncPcs
  <2>4. CASE SetupRestart(q)  BY <1>1, <1>2, <2>4 DEF SetupRestart, HasFile, SyncPcs
  <2>5. CASE OpenCheck(q) \/ MakeDir(q)  BY <2>1, <2>5 DEF OpenCheck, MakeDir, SyncPcs
  <2>6. CASE OpenFiles(q)
    <3>1. CASE q = r  BY <2>6, <3>1
    <3>2. CASE q # r
      <4>1. pc'[r] = pc[r] /\ UNCHANGED chkNum  BY <1>1, <2>6, <3>2 DEF OpenFiles, EnterBatch
      <4> QED BY <1>2, <4>1 DEF HasFile
    <3> QED BY <3>1, <3>2
  <2>7. ASSUME NEW t \in Thread, Trial(q, t)
        PROVE  UNCHANGED <<pc, chkNum>>
    BY <2>7 DEF Trial, SkipTrial, BeginTrial, WriteTrial, FinishTrial, TaskUnchanged
  <2>8. CASE Batch(q)
    <3>1. pc[q] = "batch" /\ UNCHANGED chkNum /\ \E p : pc' = [pc EXCEPT ![q] = p]
      BY <2>8 DEF Batch, BatchFailed, BatchDone, BatchOver
    <3> QED BY <2>1, <3>1
  <2>9. CASE Save(q)
    <3>1. /\ pc[q] \in {"close", "sync_read", "sync_write"} /\ UNCHANGED chkNum
          /\ UNCHANGED pc \/ \E p : pc' = [pc EXCEPT ![q] = p]
      BY <2>9 DEF Save, Close, SyncRead, SyncWrite
    <3> QED BY <1>3, <2>1, <3>1 DEF SyncPcs
  <2>10. CASE Merge(q)
    <3>1. UNCHANGED chkNum /\ (UNCHANGED pc \/ pc' = [pc EXCEPT ![q] = "finalize"])
      BY <2>10
      DEF Merge, MergeSkip, MergeCopy, MergeAppend, MergeClose, MergeUnlink, MergeRemove, MergeDone
    <3> QED BY <1>3, <2>1, <3>1 DEF SyncPcs
  <2> QED
    BY <1>3, <1>4, <2>2, <2>3, <2>4, <2>5, <2>6, <2>7, <2>8, <2>9, <2>10
    DEF RankStep, Setup, Open
<1>5. CASE Reduce  BY <1>1, <1>2, <1>5 DEF Reduce, HasFile
<1>6. CASE Barrier  BY <1>1, <1>2, <1>6 DEF Barrier, AfterBarrier, HasFile, SyncPcs
<1>7. CASE Finalize \/ Crash  BY <1>2, <1>7 DEF Finalize, Crash, Forget, SyncPcs
<1>8. ASSUME NEW n \in RankCounts, NEW again \in BOOLEAN, Launch(n, again)
      PROVE  FALSE
  BY <1>2, <1>8 DEF Launch, SyncPcs
<1>9. CASE DeleteUnreadable \/ (\E q \in Rank : SigtermArrives(q)) \/ UNCHANGED vars
           \/ (\E q \in Rank, t \in Thread : FailTrial(q, t))
  BY <1>3, <1>9 DEF DeleteUnreadable, SigtermArrives, FailTrial, TaskUnchanged, vars
<1> QED BY <1>4, <1>5, <1>6, <1>7, <1>8, <1>9 DEF Next, Collective, Outside, Finished

\* A file of a directory is closed by its rank.
LEMMA ClosedMoves ==
  ASSUME IInv, [Next]_vars, NEW c \in Chk, NEW r \in Rank, files'[c][r].st = "closed"
  PROVE  \/ files[c][r].st = "closed" /\ (\A q \in Rank : Merge(q) => files'[c][r] = files[c][r])
         \/ Close(r) /\ c = chkNum[r]
<1>1. chkNum \in [Rank -> Chk] /\ sync.next \in Rank  BY DEF IInv, TypeOK
<1>2. CASE UNCHANGED files  BY <1>2
<1>3. ASSUME NEW q \in Rank, MakeDir(q)
      PROVE  UNCHANGED files
  BY <1>3 DEF MakeDir, CreateDirectory
<1>4. ASSUME NEW k \in Chk, NEW p \in Rank, OnlyFile(k, p),
             files'[k][p].st = files[k][p].st \/ files'[k][p].st # "closed"
      PROVE  files[c][r].st = "closed"
  BY <1>4 DEF OnlyFile
<1>5. ASSUME NEW q \in Rank, Merge(q)
      PROVE  files[c][r].st = "closed" /\ files'[c][r] = files[c][r]
  BY <1>5, MergeEffect DEF NoFile
<1>6. ASSUME NEW q \in Rank, OpenFiles(q) \/ SyncWrite(q)
             \/ \E t \in Thread : WriteTrial(q, t) \/ FinishTrial(q, t)
      PROVE  files[c][r].st = "closed"
  <2>1. CASE OpenFiles(q)  BY <1>1, <1>4, <2>1, OpenEffect
  <2>2. CASE SyncWrite(q)  BY <1>1, <1>4, <2>2, SyncEffect
  <2>3. ASSUME NEW t \in Thread, WriteTrial(q, t) \/ FinishTrial(q, t)
        PROVE  files[c][r].st = "closed"
    BY <1>1, <1>4, <2>3, WriteEffect, FinishEffect
  <2> QED BY <1>6, <2>1, <2>2, <2>3
<1>7. ASSUME NEW q \in Rank, Close(q)
      PROVE  files[c][r].st = "closed" \/ (Close(r) /\ c = chkNum[r])
  <2>1. OnlyFile(chkNum[q], q)  BY <1>1, <1>7, CloseEffect
  <2>2. CASE c # chkNum[q] \/ r # q
    <3>1. files'[c][r] = files[c][r]  BY <2>1, <2>2 DEF OnlyFile
    <3> QED BY <3>1
  <2>3. CASE c = chkNum[q] /\ r = q  BY <1>7, <2>3
  <2> QED BY <2>2, <2>3
<1>8. ASSUME Crash
      PROVE  files[c][r].st = "closed"
  BY <1>8, CrashEffect
<1>9. ASSUME DeleteUnreadable
      PROVE  files[c][r].st = "closed"
  BY <1>9, DeleteEffect DEF NoFile
<1> QED BY <1>2, <1>3, <1>5, <1>6, <1>7, <1>8, <1>9, DiskSteps DEF DiskStep, disk

\* A consolidated file is made by copying.
LEMMA H5Moves ==
  ASSUME IInv, [Next]_vars, NEW c \in Chk, HasH5(c)', ~HasH5(c)
  PROVE  \E r \in Rank : Merge(r)
<1>1. ASSUME NEW r \in Rank, MakeDir(r) \/ OpenFiles(r) \/ Close(r) \/ SyncWrite(r)
      PROVE  UNCHANGED h5
  BY <1>1, OpenEffect, CloseEffect, SyncEffect DEF MakeDir, CreateDirectory, OnlyFile
<1>2. ASSUME NEW r \in Rank, NEW t \in Thread, WriteTrial(r, t) \/ FinishTrial(r, t)
      PROVE  UNCHANGED h5
  BY <1>2, WriteEffect, FinishEffect DEF OnlyFile
<1>3. ASSUME Crash
      PROVE  h5'[c].st = "none"
  BY <1>3, CrashEffect DEF HasH5
<1>4. ASSUME DeleteUnreadable
      PROVE  h5'[c].st = "none"
  BY <1>4, DeleteEffect DEF HasH5, NoFile
<1> QED BY <1>1, <1>2, <1>3, <1>4, DiskSteps DEF DiskStep, HasH5, disk

\* A trial that has its row stays so until it is done.
LEMMA WrittenStays ==
  ASSUME IInv, [Next]_vars, "error" \notin Faults,
         NEW r \in Rank, NEW t \in Thread, task[r][t].st = "written", pc'[r] # "idle"
  PROVE  task'[r][t] = task[r][t] \/ FinishTrial(r, t)
<1>1. task \in [Rank -> [Thread -> Task]]  BY DEF IInv, TypeOK
<1>2. ASSUME NEW q \in Rank, NEW u \in Thread, BeginTrial(q, u)
      PROVE  task'[r][t] = task[r][t]
  BY <1>1, <1>2 DEF BeginTrial
<1>3. ASSUME NEW q \in Rank, NEW u \in Thread, WriteTrial(q, u)
      PROVE  task'[r][t] = task[r][t]
  BY <1>1, <1>3 DEF WriteTrial
<1>4. ASSUME NEW q \in Rank, NEW u \in Thread, FinishTrial(q, u)
      PROVE  task'[r][t] = task[r][t] \/ FinishTrial(r, t)
  BY <1>1, <1>4 DEF FinishTrial
<1>5. ~Forget  BY DEF Forget
<1> QED BY <1>2, <1>3, <1>4, <1>5, TaskChange DEF FailTrial

\* Consolidation puts whole files together.
LEMMA WholeMerge ==
  ASSUME NumbersInv, RowsWhole, "error" \notin Faults, NEW r \in Rank, Merge(r),
         NEW c \in Chk, h5'[c].st # "none"
  PROVE  Whole(h5'[c])
<1>1. IInv /\ MergedSoFar /\ EarlierSettled  BY DEF NumbersInv, DiskInv
<1>2. r = 0 /\ pc[0] = "merge"
  <2>1. pc[r] = "merge"
    BY DEF Merge, MergeSkip, MergeCopy, MergeAppend, MergeClose, MergeUnlink, MergeRemove, MergeDone
  <2> QED BY <1>1, <2>1 DEF IInv, RootOnly
<1>3. \A q \in RanksIn(c) : Whole(files[c][q])
  <2>1. \A q \in RanksIn(c) : HasAttrs(files[c][q])  BY <1>1, <1>2 DEF EarlierSettled, Settled
  <2> QED BY <2>1 DEF RowsWhole, HasAttrs, RanksIn
<1>4. h5[c].st # "none" => Whole(h5[c])  BY DEF RowsWhole
<1>5. CASE h5'[c] = h5[c]  BY <1>4, <1>5
<1>6. CASE Copied(c)  BY <1>3, <1>6 DEF Copied, Whole
<1>7. CASE Appended(c)
  <2>1. PICK q \in RanksIn(c) : /\ h5'[c].rows = h5[c].rows \cup files[c][q].rows
                                /\ h5'[c].done = h5[c].done \cup files[c][q].done
    BY <1>7 DEF Appended
  <2>2. Whole(h5[c]) /\ Whole(files[c][q])  BY <1>3, <1>4, <1>7 DEF Appended
  <2> QED BY <2>1, <2>2 DEF Whole, Trials
<1>8. CASE Completed(c)  BY <1>4, <1>8 DEF Completed, Whole
<1>9. CASE Removed(c)  BY <1>5, <1>9 DEF Removed
<1> QED BY <1>1, <1>5, <1>6, <1>7, <1>8, <1>9, MergeContent DEF disk

\* Where no trial throws, a row is that of a trial done or still running.
LEMMA RowsWholeStep ==
  ASSUME NumbersInv, NumbersInv', DoneHasRows, TasksNotDone, RowsWhole, [Next]_vars
  PROVE  RowsWhole'
<1> SUFFICES ASSUME "error" \notin Faults
             PROVE  RowsWhole'
  BY DEF RowsWhole
<1>1. IInv /\ IInv' /\ FilesNew /\ NoFileNoRows /\ MergedSoFar /\ FilesOpened
  BY DEF NumbersInv, DiskInv
<1>2. chkNum \in [Rank -> Chk]  BY <1>1 DEF IInv, TypeOK
<1>3. \A r \in Rank : ~failed'[r]
  <2>1. UNCHANGED failed \/ Forget
    <3>1. ASSUME NEW r \in Rank, RankStep(r)
          PROVE  UNCHANGED failed
      <4>1. CASE Setup(r) \/ Open(r) \/ Batch(r) \/ Save(r) \/ Merge(r)
        BY <4>1
        DEF Setup, SetupThrows, SetupFresh, SetupRestart, Open, OpenThrows, OpenCheck, MakeDir,
            OpenFiles, Batch, BatchFailed, BatchDone, Save, Close, SyncRead, SyncWrite,
            Merge, MergeSkip, MergeCopy, MergeAppend, MergeClose, MergeUnlink, MergeRemove, MergeDone
      <4>2. ASSUME NEW t \in Thread, Trial(r, t)
            PROVE  UNCHANGED failed
        BY <4>2 DEF Trial, SkipTrial, BeginTrial, WriteTrial, FinishTrial
      <4> QED BY <3>1, <4>1, <4>2 DEF RankStep
    <3>2. ASSUME Collective
          PROVE  UNCHANGED failed \/ Forget
      BY <3>2 DEF Collective, Reduce, Barrier, Finalize
    <3>3. ASSUME Outside
          PROVE  UNCHANGED failed \/ Forget
      BY <3>3 DEF Outside, Launch, SigtermArrives, FailTrial, Crash, DeleteUnreadable
    <3> QED BY <3>1, <3>2, <3>3 DEF Next, Finished, vars
  <2>2. \A r \in Rank : ~failed[r]  BY DEF RowsWhole
  <2> QED BY <2>1, <2>2 DEF Forget
<1>4. ASSUME NEW c \in Chk, h5'[c].st # "none"
      PROVE  Whole(h5'[c])
  <2>1. CASE \E r \in Rank : Merge(r)  BY <1>4, <2>1, WholeMerge
  <2>2. CASE h5'[c].rows = h5[c].rows /\ h5'[c].done = h5[c].done /\ ~(\E r \in Rank : Merge(r))
    <3>1. HasH5(c)  BY <1>1, <1>4, <2>2, H5Moves DEF HasH5
    <3> QED BY <2>2, <3>1 DEF RowsWhole, HasH5, Whole
  <2>3. CASE ContentKept /\ ~(\E r \in Rank : Merge(r))  BY <2>2, <2>3 DEF ContentKept
  <2>4. ASSUME NEW r \in Rank, NEW t \in Thread, WriteTrial(r, t) \/ FinishTrial(r, t),
               ~(\E q \in Rank : Merge(q))
        PROVE  Whole(h5'[c])
    BY <1>1, <2>2, <2>4, WriteContent, FinishContent DEF DoneKept
  <2>5. CASE DeleteUnreadable /\ ~(\E r \in Rank : Merge(r))
    <3>1. h5'[c] = h5[c] \/ h5'[c] = NoFile  BY <1>1, <2>5, DeleteEffect
    <3> QED BY <1>4, <2>2, <2>5, <3>1 DEF NoFile
  <2> QED BY <1>1, <2>1, <2>3, <2>4, <2>5, ContentStep
<1>5. ASSUME NEW c \in Chk, NEW r \in Rank, files'[c][r].st = "closed"
      PROVE  Whole(files'[c][r])
  <2>1. CASE Close(r) /\ c = chkNum[r]
    <3>1. pc[r] = "close" /\ HasFile(r)  BY <2>1 DEF Close, HasFile
    <3>2. \A t \in Thread : task[r][t].st = "idle"  BY <1>1, <3>1 DEF IInv, TrialsOnlyInBatch
    <3>3. Whole(files[c][r])  BY <2>1, <3>1, <3>2 DEF RowsWhole, OwnFile, Whole
    <3>4. files'[c][r].rows = files[c][r].rows /\ files'[c][r].done = files[c][r].done
      BY <1>1, <2>1, OwnFileContent DEF ContentKept
    <3> QED BY <3>3, <3>4 DEF Whole
  <2>2. CASE files[c][r].st = "closed" /\ \A q \in Rank : Merge(q) => files'[c][r] = files[c][r]
    <3>1. Whole(files[c][r])  BY <2>2 DEF RowsWhole
    <3>2. CASE files'[c][r].rows = files[c][r].rows /\ files[c][r].done \subseteq files'[c][r].done
      BY <3>1, <3>2 DEF Whole
    <3>3. CASE ContentKept  BY <3>2, <3>3 DEF ContentKept
    <3>4. ASSUME NEW q \in Rank, NEW t \in Thread, WriteTrial(q, t) \/ FinishTrial(q, t)
          PROVE  Whole(files'[c][r])
      <4>1. pc[q] = "batch"  BY <1>1, <3>4 DEF IInv, TrialsOnlyInBatch, WriteTrial, FinishTrial
      <4>2. files[chkNum[q]][q].st = "open"  BY <1>1, <4>1 DEF FilesOpened, HasFile, OwnFile
      <4>3. c # chkNum[q] \/ r # q  BY <2>2, <4>2
      <4>4. OnlyFile(chkNum[q], q)  BY <1>1, <3>4, WriteEffect, FinishEffect
      <4>5. files'[c][r] = files[c][r]  BY <4>3, <4>4 DEF OnlyFile
      <4> QED BY <3>1, <4>5
    <3>5. ASSUME NEW q \in Rank, Merge(q)
          PROVE  Whole(files'[c][r])
      BY <2>2, <3>1, <3>5
    <3>6. CASE DeleteUnreadable
      <4>1. files'[c][r] = files[c][r] \/ files'[c][r] = NoFile  BY <1>1, <3>6, DeleteEffect
      <4> QED BY <1>5, <3>1, <4>1 DEF NoFile
    <3> QED BY <1>1, <3>3, <3>4, <3>5, <3>6, ContentStep
  <2> QED BY <1>1, <1>5, <2>1, <2>2, ClosedMoves
<1>6. ASSUME NEW r \in Rank, HasFile(r)', NEW n \in Trials(OwnFile(r)'.rows), n \notin OwnFile(r)'.done
      PROVE  \E t \in Thread : task'[r][t].st = "written" /\ task'[r][t].trial = n
  <2>1. CASE OpenFiles(r)
    <3>1. OwnFile(r)'.rows = {}  BY <1>1, <2>1, OpenEffect DEF NoFile
    <3> QED BY <1>6, <3>1 DEF Trials
  <2>2. CASE HasFile(r) /\ chkNum'[r] = chkNum[r]
    <3>1. PICK c \in Chk : c = chkNum[r]  BY <1>2
    <3>2. OwnFile(r)' = files'[c][r] /\ OwnFile(r) = files[c][r]  BY <2>2, <3>1 DEF OwnFile
    <3>3. pc'[r] # "idle" /\ pc[r] \notin {"idle", "merge", "finalize"}
      BY <1>6, <2>2 DEF HasFile, SyncPcs
    <3>4. CASE /\ n \in Trials(OwnFile(r).rows) \ OwnFile(r).done
               /\ \A t \in Thread : FinishTrial(r, t) => task[r][t].trial \in OwnFile(r)'.done
      <4>1. PICK t \in Thread : task[r][t].st = "written" /\ task[r][t].trial = n
        BY <2>2, <3>4 DEF RowsWhole
      <4>2. task'[r][t] = task[r][t] \/ FinishTrial(r, t)  BY <1>1, <3>3, <4>1, WrittenStays
      <4>3. ~FinishTrial(r, t)  BY <1>6, <3>4, <4>1
      <4> QED BY <4>1, <4>2, <4>3
    <3>5. ASSUME NEW t \in Thread, FinishTrial(r, t)
          PROVE  task[r][t].trial \in OwnFile(r)'.done
      BY <1>1, <3>1, <3>2, <3>5, FinishContent
    <3>6. CASE /\ files'[c][r].rows = files[c][r].rows
               /\ files[c][r].done \subseteq files'[c][r].done
      BY <1>6, <3>2, <3>4, <3>5, <3>6
    <3>7. CASE ContentKept  BY <3>6, <3>7 DEF ContentKept
    <3>8. ASSUME NEW q \in Rank, NEW t \in Thread, FinishTrial(q, t)
          PROVE  \E u \in Thread : task'[r][u].st = "written" /\ task'[r][u].trial = n
      BY <1>1, <3>6, <3>8, FinishContent
    <3>9. ASSUME NEW q \in Rank, NEW t \in Thread, WriteTrial(q, t)
          PROVE  \E u \in Thread : task'[r][u].st = "written" /\ task'[r][u].trial = n
      <4>1. CASE q # r
        <5>1. OnlyFile(chkNum[q], q)  BY <1>1, <3>9, WriteEffect
        <5>2. files'[c][r] = files[c][r]  BY <4>1, <5>1 DEF OnlyFile
        <5> QED BY <3>6, <5>2
      <4>2. CASE q = r
        <5>1. /\ OwnFile(r)'.rows = OwnFile(r).rows
                  \cup {[trial |-> task[r][t].trial, uid |-> task[r][t].uid]}
              /\ OwnFile(r)'.done = OwnFile(r).done
          <6>1. WriteTrial(r, t)  BY <3>9, <4>2
          <6>2. files'[chkNum[r]][r].rows = files[chkNum[r]][r].rows
                  \cup {[trial |-> task[r][t].trial, uid |-> task[r][t].uid]}
            BY <1>1, <6>1, WriteEffect
          <6>3. files'[c][r].done = files[c][r].done  BY <1>1, <6>1, WriteContent DEF DoneKept
          <6> QED BY <3>1, <3>2, <6>2, <6>3
        <5>2. CASE n \in Trials(OwnFile(r).rows)  BY <1>6, <3>4, <3>5, <5>1, <5>2
        <5>3. CASE n = task[r][t].trial
          <6>1. task \in [Rank -> [Thread -> Task]]  BY <1>1 DEF IInv, TypeOK
          <6>2. task[r][t] \in Task /\ task' = [task EXCEPT ![r][t].st = "written"]
            BY <3>9, <4>2, <6>1 DEF WriteTrial
          <6>3. task'[r][t].st = "written" /\ task'[r][t].trial = n  BY <5>3, <6>1, <6>2 DEF Task
          <6> QED BY <6>3
        <5>4. n \in Trials(OwnFile(r).rows) \/ n = task[r][t].trial  BY <1>6, <5>1 DEF Trials
        <5> QED BY <5>2, <5>3, <5>4
      <4> QED BY <4>1, <4>2
    <3>10. ~DeleteUnreadable  BY <1>1, <3>3, DeleteEffect
    <3>11. \A q \in Rank : ~Merge(q)
      <4> SUFFICES ASSUME NEW q \in Rank, Merge(q)
                   PROVE  FALSE
        OBVIOUS
      <4>1. pc[q] = "merge"
        BY DEF Merge, MergeSkip, MergeCopy, MergeAppend, MergeClose, MergeUnlink, MergeRemove, MergeDone
      <4> QED BY <1>1, <3>3, <4>1, MergeAlone DEF EndPcs
    <3> QED BY <1>1, <3>7, <3>8, <3>9, <3>10, <3>11, ContentStep
  <2> QED BY <1>1, <1>6, <2>1, <2>2, FileMoves
<1> QED BY <1>3, <1>4, <1>5, <1>6 DEF RowsWhole

-----------------------------------------------------------------------------
(* What a rank knows of its session.                                       *)

\* r goes on with the same checkpoint and batch, having known its checkpoint, or
\* having just looked.
StaysOn(r) ==
  /\ UNCHANGED <<size, restart>>
  /\ prior'[r] = prior[r] /\ restartMax'[r] = restartMax[r] /\ chkNum'[r] = chkNum[r]
  /\ Knows(r) \/ (OpenCheck(r) /\ ~inRun[r])
  /\ GoingOn(r)' => GoingOn(r) /\ BatchFirst(r)' = BatchFirst(r)

\* r rolls over to its next checkpoint and batch.
RollsOver(r) ==
  /\ Barrier /\ pc[r] = "synced" /\ exit[r] = "none"
  /\ UNCHANGED <<size, restart>>
  /\ prior'[r] = prior[r] /\ restartMax'[r] = restartMax[r] /\ chkNum'[r] = chkNum[r] + 1
  /\ Knows(r) /\ GoingOn(r) /\ Closing(r) /\ inRun[r]
  /\ BatchFirst(r) = batchStart[r] /\ BatchFirst(r)' = batchStart[r] + BatchSize(r)

\* A rank that knows its checkpoint after a step did so before, or has just found it.
LEMMA KnowsMoves ==
  ASSUME IInv, [Next]_vars, NEW r \in Rank, Knows(r)'
  PROVE  r \in Active /\ (StaysOn(r) \/ RollsOver(r))
<1> USE DEF Knows, NameFree, DirPcs, RunPcs, SyncPcs, GoingOn, Constructed, Closing
<1>1. /\ pc \in [Rank -> {"idle"} \cup CollectivePcs \cup LocalPcs]
      /\ exit \in [Rank -> {"none", "done", "sigterm", "error"}]
      /\ inRun \in [Rank -> BOOLEAN] /\ batchStart \in [Rank -> Nat]
      /\ \A q \in Rank : q \in Active \/ pc[q] = "idle"
      /\ prior \in [Rank -> Nat] /\ restartMax \in [Rank -> Nat] /\ chkNum \in [Rank -> Chk]
  BY ActiveRanks DEF IInv, TypeOK
<1>2. pc'[r] \notin {"idle", "setup", "finalize", "merge"}  OBVIOUS
<1>3. ASSUME UNCHANGED <<restart, prior, restartMax, batchStart>>
      PROVE  \A q \in Rank : /\ NumberingStart(q)' = NumberingStart(q)
                             /\ BatchSize(q)' = BatchSize(q)
                             /\ pc'[q] = pc[q] /\ inRun'[q] = inRun[q] => BatchFirst(q)' = BatchFirst(q)
  <2>1. \A q \in Rank : NumberingStart(q)' = NumberingStart(q) /\ BatchSize(q)' = BatchSize(q)
    BY <1>3, NumberingSame
  <2> QED BY <1>3, <2>1 DEF BatchFirst
<1>4. ASSUME NEW n \in RankCounts, NEW again \in BOOLEAN, Launch(n, again)
      PROVE  FALSE
  BY <1>2, <1>4 DEF Launch
<1>5. ASSUME Forget
      PROVE  FALSE
  BY <1>2, <1>5 DEF Forget
<1>6. CASE DeleteUnreadable  BY <1>2, <1>6, DeleteEffect
<1>7. CASE Reduce
  <2>1. /\ UNCHANGED <<size, restart, inRun, prior, restartMax, chkNum, batchStart>>
        /\ \A q \in Rank : IF q \in Active THEN pc[q] = "reduce" /\ pc'[q] = "close"
                           ELSE pc'[q] = pc[q] /\ exit'[q] = exit[q]
    BY <1>7 DEF Reduce
  <2>2. BatchFirst(r)' = BatchFirst(r)  BY <1>1, <1>2, <1>3, <2>1 DEF BatchFirst
  <2> QED BY <1>1, <1>2, <2>1, <2>2 DEF StaysOn
<1>8. CASE Barrier
  <2>1. /\ UNCHANGED <<size, restart, inRun, exit, prior, restartMax, batchStart>>
        /\ \A q \in Active : pc[q] \in BarrierPcs
        /\ pc'[r] = AfterBarrier(r)
        /\ chkNum'[r] = IF pc[r] = "synced" /\ exit[r] = "none" THEN chkNum[r] + 1 ELSE chkNum[r]
    BY <1>8 DEF Barrier, NextCheckpointNumber
  <2>2. r \in Active  BY <1>1, <1>2, <2>1 DEF AfterBarrier
  <2>3. CASE pc[r] # "synced"
    <3>1. BatchFirst(r)' = BatchFirst(r)
      BY <1>1, <1>2, <1>3, <2>1, <2>2, <2>3 DEF BatchFirst, AfterBarrier, BarrierPcs
    <3> QED BY <1>1, <1>2, <2>1, <2>2, <2>3, <3>1 DEF StaysOn, AfterBarrier, BarrierPcs
  <2>4. CASE pc[r] = "synced"
    <3>1. pc'[r] = "open_check" /\ exit[r] = "none" /\ inRun[r]
      BY <1>2, <2>1, <2>4 DEF AfterBarrier, IInv, InRunWhenClosing
    <3>2. BatchFirst(r) = batchStart[r] /\ BatchFirst(r)' = batchStart[r] + BatchSize(r)
      BY <1>3, <2>1, <2>4, <3>1 DEF BatchFirst
    <3> QED BY <1>8, <2>1, <2>2, <2>4, <3>1, <3>2 DEF RollsOver
  <2> QED BY <2>3, <2>4
<1>9. ASSUME NEW q \in Rank, Setup(q)
      PROVE  r \in Active /\ (StaysOn(r) \/ RollsOver(r))
  <2>1. /\ UNCHANGED <<size, restart, inRun, batchStart>>
        /\ pc[q] = "setup" /\ \E p \in {"open_check", "finalize"} : pc' = [pc EXCEPT ![q] = p]
        /\ \A p \in Rank \ {q} : /\ prior'[p] = prior[p] /\ restartMax'[p] = restartMax[p]
                                 /\ chkNum'[p] = chkNum[p] /\ exit'[p] = exit[p]
    BY <1>1, <1>9 DEF Setup, SetupThrows, SetupFresh, SetupRestart, ConstructorThrows
  <2>2. ~inRun[q]  BY <2>1 DEF IInv, FreshUntilSetup
  <2>3. r # q  BY <1>1, <2>1, <2>2
  <2>4. NumberingStart(r)' = NumberingStart(r) /\ BatchSize(r)' = BatchSize(r) /\ pc'[r] = pc[r]
    BY <1>1, <2>1, <2>3 DEF NumberingStart, BatchSize, TrialsRemaining
  <2>5. BatchFirst(r)' = BatchFirst(r)  BY <2>1, <2>4 DEF BatchFirst
  <2> QED BY <1>1, <1>2, <2>1, <2>3, <2>4, <2>5 DEF StaysOn
<1>10. ASSUME NEW q \in Rank, OpenThrows(q) \/ OpenCheck(q) \/ MakeDir(q)
       PROVE  r \in Active /\ (StaysOn(r) \/ RollsOver(r))
  <2>1. /\ UNCHANGED <<size, restart, inRun, prior, restartMax, chkNum, batchStart>>
        /\ \/ OpenThrows(q) /\ pc' = [pc EXCEPT ![q] = "finalize"]
           \/ OpenCheck(q) /\ pc[q] = "open_check" /\ pc' = [pc EXCEPT ![q] = "open_checked"]
           \/ MakeDir(q) /\ pc[q] = "make_dir" /\ pc' = [pc EXCEPT ![q] = "dir_made"]
        /\ \A p \in Rank : p # q => exit'[p] = exit[p]
        /\ exit' = exit \/ pc'[q] = "finalize"
    <3>1. CASE OpenThrows(q)  BY <1>1, <3>1 DEF OpenThrows, ConstructorThrows
    <3>2. CASE OpenCheck(q)
      <4>1. /\ pc[q] = "open_check" /\ pc' = [pc EXCEPT ![q] = "open_checked"]
            /\ UNCHANGED <<size, restart, inRun, exit, prior, restartMax, chkNum, batchStart>>
        BY <3>2 DEF OpenCheck
      <4> QED BY <3>2, <4>1
    <3>3. CASE MakeDir(q)
      <4>1. /\ pc[q] = "make_dir" /\ pc' = [pc EXCEPT ![q] = "dir_made"]
            /\ UNCHANGED <<size, restart, inRun, exit, prior, restartMax, chkNum, batchStart>>
        BY <3>3 DEF MakeDir
      <4> QED BY <3>3, <4>1
    <3> QED BY <1>10, <3>1, <3>2, <3>3
  <2>2. BatchFirst(r)' = BatchFirst(r)  BY <1>1, <1>2, <1>3, <2>1 DEF BatchFirst
  <2>3. Knows(r) \/ (OpenCheck(r) /\ ~inRun[r])
    <3>1. CASE pc'[r] = pc[r]
      <4>1. inRun'[r] = inRun[r]  BY <2>1
      <4> QED BY <3>1, <4>1
    <3>4. r # q => pc'[r] = pc[r]  BY <1>1, <2>1
    <3>2. CASE q = r /\ OpenCheck(q) /\ pc[q] = "open_check"
      <4>1. OpenCheck(r)  BY <3>2
      <4> QED BY <3>2, <4>1
    <3>3. CASE q = r /\ pc[q] = "make_dir"  BY <3>3
    <3>5. pc'[q] = "finalize" => r # q  BY <1>2
    <3>6. r # q \/ (OpenCheck(q) /\ pc[q] = "open_check") \/ pc[q] = "make_dir"
      <4>1. OpenThrows(q) /\ pc' = [pc EXCEPT ![q] = "finalize"] => pc'[q] = "finalize"  BY <1>1
      <4> QED BY <2>1, <3>5, <4>1
    <3> QED BY <3>1, <3>2, <3>3, <3>4, <3>6
  <2>4. GoingOn(r)' => GoingOn(r)  BY <1>1, <1>2, <2>1
  <2>5. r \in Active  BY <1>1, <1>2, <2>3 DEF OpenCheck
  <2> QED BY <2>1, <2>2, <2>3, <2>4, <2>5 DEF StaysOn
<1>11. ASSUME NEW q \in Rank, OpenFiles(q)
       PROVE  r \in Active /\ (StaysOn(r) \/ RollsOver(r))
  <2> DEFINE first == IF inRun[q] THEN batchStart[q] + BatchSize(q) ELSE NumberingStart(q)
  <2>1. /\ UNCHANGED <<size, restart, prior, restartMax, chkNum>>
        /\ pc[q] = "open_files" /\ inRun' = [inRun EXCEPT ![q] = TRUE]
        /\ EnterBatch(q, first)
    BY <1>11 DEF OpenFiles
  <2>2. BatchFirst(q) = first  BY <2>1 DEF BatchFirst
  <2>3. \/ /\ pc' = [pc EXCEPT ![q] = "batch"] /\ exit' = exit
           /\ batchStart' = [batchStart EXCEPT ![q] = first]
        \/ /\ pc' = [pc EXCEPT ![q] = "close"] /\ exit' = [exit EXCEPT ![q] = "done"]
           /\ batchStart' = batchStart
    BY <2>1 DEF EnterBatch
  <2> HIDE DEF first
  <2>4. \A p \in Rank : NumberingStart(p)' = NumberingStart(p) /\ BatchSize(p)' = BatchSize(p)
    BY <2>1, NumberingSame
  <2>5. CASE q # r  BY <1>1, <1>2, <2>1, <2>3, <2>4, <2>5 DEF StaysOn, BatchFirst
  <2>6. CASE q = r
    <3>1. Knows(r) /\ GoingOn(r) /\ r \in Active  BY <1>1, <2>1, <2>6
    <3>2. GoingOn(r)' => BatchFirst(r)' = BatchFirst(r)
      BY <1>1, <2>1, <2>2, <2>3, <2>6 DEF BatchFirst
    <3> QED BY <2>1, <3>1, <3>2 DEF StaysOn
  <2> QED BY <2>5, <2>6
<1>12. ASSUME NEW q \in Rank, NEW t \in Thread, Trial(q, t) \/ FailTrial(q, t)
       PROVE  r \in Active /\ (StaysOn(r) \/ RollsOver(r))
  <2>1. UNCHANGED <<size, restart, pc, inRun, exit, prior, restartMax, chkNum, batchStart>>
    BY <1>12 DEF Trial, SkipTrial, BeginTrial, WriteTrial, FinishTrial, FailTrial, TaskUnchanged
  <2> QED BY <1>1, <1>2, <1>3, <2>1 DEF StaysOn
<1>13. ASSUME NEW q \in Rank, SigtermArrives(q)
       PROVE  r \in Active /\ (StaysOn(r) \/ RollsOver(r))
  BY <1>1, <1>2, <1>3, <1>13 DEF StaysOn, SigtermArrives
<1>14. ASSUME NEW q \in Rank, Batch(q) \/ Save(q) \/ Merge(q)
       PROVE  r \in Active /\ (StaysOn(r) \/ RollsOver(r))
  <2>1. /\ UNCHANGED <<size, restart, inRun, prior, restartMax, chkNum, batchStart>>
        /\ \/ pc' = pc
           \/ pc[q] = "batch" /\ \E p \in {"reduce", "close"} : pc' = [pc EXCEPT ![q] = p]
           \/ pc[q] = "close" /\ pc' = [pc EXCEPT ![q] = "closed"]
           \/ pc[q] \in SyncPcs /\ \E p \in SyncPcs : pc' = [pc EXCEPT ![q] = p]
           \/ pc' = [pc EXCEPT ![q] = "finalize"]
        /\ exit' = exit \/ (pc[q] = "batch" /\ \A p \in Rank : p # q => exit'[p] = exit[p])
    <3>1. CASE Batch(q)  BY <1>1, <3>1 DEF Batch, BatchDone, BatchFailed, BatchOver
    <3>2. CASE Close(q)  BY <3>2 DEF Close
    <3>3. CASE SyncRead(q) \/ SyncWrite(q)  BY <3>3 DEF SyncRead, SyncWrite
    <3>4. CASE Merge(q)
      BY <3>4
      DEF Merge, MergeSkip, MergeCopy, MergeAppend, MergeClose, MergeUnlink, MergeRemove, MergeDone
    <3> QED BY <1>14, <3>1, <3>2, <3>3, <3>4 DEF Save
  <2>2. BatchFirst(r)' = BatchFirst(r)  BY <1>1, <1>2, <1>3, <2>1 DEF BatchFirst
  <2>3. Knows(r) /\ (GoingOn(r)' => GoingOn(r))  BY <1>1, <1>2, <2>1
  <2>4. r \in Active  BY <1>1, <2>3
  <2> QED BY <2>1, <2>2, <2>3, <2>4 DEF StaysOn
<1>15. CASE UNCHANGED vars  BY <1>1, <1>2, <1>3, <1>15 DEF StaysOn, vars
<1> QED
  BY <1>4, <1>5, <1>6, <1>7, <1>8, <1>9, <1>10, <1>11, <1>12, <1>13, <1>14, <1>15
  DEF Next, RankStep, Open, Collective, Finalize, Outside, Crash, Finished

-----------------------------------------------------------------------------
(* The trials of a batch.                                                  *)

\* Trials are done one at a time, and only the user deletes any.
LEMMA DoneMoves ==
  ASSUME IInv, MergedSoFar, FilesNew, NoFileNoRows, DoneHasRows, CopiesOnly, [Next]_vars
  PROVE  \/ (\A c \in Chk : DoneIn(c)' = DoneIn(c)) /\ DoneOnDisk' = DoneOnDisk
         \/ \E r \in Rank, t \in Thread : FinishTrial(r, t)
         \/ DeleteUnreadable
<1>1. CASE ContentKept
  <2>1. DoneKept  BY <1>1 DEF ContentKept, DoneKept
  <2> QED BY <2>1, DoneSame
<1>2. ASSUME NEW r \in Rank, NEW t \in Thread, WriteTrial(r, t)
      PROVE  (\A c \in Chk : DoneIn(c)' = DoneIn(c)) /\ DoneOnDisk' = DoneOnDisk
  BY <1>2, WriteContent, DoneSame
<1>3. ASSUME NEW r \in Rank, Merge(r)
      PROVE  (\A c \in Chk : DoneIn(c)' = DoneIn(c)) /\ DoneOnDisk' = DoneOnDisk
  BY <1>3, MergeDoneSame
<1> QED BY <1>1, <1>2, <1>3, ContentStep

\* While a rank runs no trial that is done is lost.
LEMMA DoneGrows ==
  ASSUME IInv, MergedSoFar, FilesNew, NoFileNoRows, DoneHasRows, CopiesOnly, [Next]_vars,
         NEW r \in Rank, pc'[r] # "idle"
  PROVE  DoneOnDisk \subseteq DoneOnDisk'
<1>1. ~DeleteUnreadable  BY DeleteEffect
<1>2. ASSUME NEW q \in Rank, NEW t \in Thread, FinishTrial(q, t)
      PROVE  DoneOnDisk \subseteq DoneOnDisk'
  BY <1>2, FinishDone
<1> QED BY <1>1, <1>2, DoneMoves

\* A step of another rank: q stays where it is in the loop.
LoopKept(q) ==
  /\ UNCHANGED <<size, restart>>
  /\ pc'[q] = pc[q] /\ prior'[q] = prior[q] /\ restartMax'[q] = restartMax[q]
  /\ chkNum'[q] = chkNum[q] /\ batchStart'[q] = batchStart[q]
  /\ nextTrial'[q] = nextTrial[q] /\ task'[q] = task[q] /\ vote'[q] = vote[q]
  /\ sigterm[q] => sigterm'[q]
  /\ failed[q] => failed'[q]

\* In its loop a rank moves by its own steps only.
LEMMA LoopMoves ==
  ASSUME IInv, [Next]_vars, NEW q \in Rank, pc'[q] \in {"batch", "reduce"}
  PROVE  \/ OpenFiles(q) \/ BatchDone(q)
         \/ \E t \in Thread : Trial(q, t) \/ FailTrial(q, t)
         \/ LoopKept(q)
<1>1. /\ pc \in [Rank -> {"idle"} \cup CollectivePcs \cup LocalPcs]
      /\ q \in Active \/ pc[q] = "idle"
      /\ prior \in [Rank -> Nat] /\ restartMax \in [Rank -> Nat] /\ chkNum \in [Rank -> Chk]
      /\ batchStart \in [Rank -> Nat] /\ nextTrial \in [Rank -> Nat]
      /\ task \in [Rank -> [Thread -> Task]]
      /\ sigterm \in [Rank -> BOOLEAN] /\ vote \in [Rank -> BOOLEAN]
      /\ failed \in [Rank -> BOOLEAN]
  BY ActiveRanks DEF IInv, TypeOK
<1>2. CASE /\ UNCHANGED <<size, restart, prior, restartMax, chkNum, batchStart, nextTrial, task,
                         vote, failed>>
           /\ pc'[q] = pc[q] /\ (sigterm[q] => sigterm'[q])
  BY <1>2 DEF LoopKept
<1>3. ASSUME NEW r \in Rank, Setup(r)
      PROVE  LoopKept(q)
  <2>1. pc[r] = "setup" /\ \E p \in {"open_check", "finalize"} : pc' = [pc EXCEPT ![r] = p]
    BY <1>3 DEF Setup, SetupThrows, SetupFresh, SetupRestart, ConstructorThrows
  <2>2. q # r /\ pc'[q] = pc[q]  BY <1>1, <2>1
  <2> QED
    BY <1>1, <1>3, <2>2
    DEF Setup, SetupThrows, SetupFresh, SetupRestart, ConstructorThrows, LoopKept
<1>4. ASSUME NEW r \in Rank, OpenThrows(r) \/ OpenCheck(r) \/ MakeDir(r) \/ BatchFailed(r) \/ Save(r)
             \/ Merge(r)
      PROVE  LoopKept(q)
  <2>1. UNCHANGED <<size, restart, prior, restartMax, chkNum, batchStart, nextTrial, task,
                    vote, failed, sigterm>>
    BY <1>4
    DEF OpenThrows, OpenCheck, MakeDir, BatchFailed, Save, Close, SyncRead, SyncWrite,
        Merge, MergeSkip, MergeCopy, MergeAppend, MergeClose, MergeUnlink, MergeRemove, MergeDone
  <2>2. UNCHANGED pc \/ \E p : p \notin {"batch", "reduce"} /\ pc' = [pc EXCEPT ![r] = p]
    BY <1>4
    DEF OpenThrows, OpenCheck, MakeDir, ConstructorThrows, BatchFailed, Save, Close, SyncRead,
        SyncWrite, Merge, MergeSkip, MergeCopy, MergeAppend, MergeClose, MergeUnlink, MergeRemove, MergeDone
  <2>3. pc'[q] = pc[q]  BY <1>1, <2>2
  <2> QED BY <2>1, <2>3 DEF LoopKept
<1>5. ASSUME NEW r \in Rank, r # q, OpenFiles(r)
      PROVE  LoopKept(q)
  BY <1>1, <1>5 DEF OpenFiles, EnterBatch, LoopKept
<1>6. ASSUME NEW r \in Rank, r # q, BatchDone(r)
      PROVE  LoopKept(q)
  BY <1>1, <1>6 DEF BatchDone, LoopKept
<1>7. ASSUME NEW r \in Rank, r # q, NEW t \in Thread, Trial(r, t) \/ FailTrial(r, t)
      PROVE  LoopKept(q)
  BY <1>1, <1>7
  DEF Trial, SkipTrial, BeginTrial, WriteTrial, FinishTrial, FailTrial, TaskUnchanged, LoopKept
<1>8. ASSUME NEW r \in Rank, SigtermArrives(r)
      PROVE  LoopKept(q)
  BY <1>1, <1>8 DEF SigtermArrives, LoopKept
<1>9. CASE Reduce  BY <1>1, <1>9 DEF Reduce
<1>10. CASE Barrier  BY <1>1, <1>10 DEF Barrier, AfterBarrier, BarrierPcs
<1>11. CASE Finalize \/ Crash  BY <1>11 DEF Finalize, Crash, Forget
<1>12. ASSUME NEW n \in RankCounts, NEW again \in BOOLEAN, Launch(n, again)
       PROVE  FALSE
  BY <1>12 DEF Launch
<1>13. CASE DeleteUnreadable  BY <1>13, DeleteEffect
<1>14. CASE UNCHANGED vars  BY <1>2, <1>14 DEF vars
<1> QED
  BY <1>3, <1>4, <1>5, <1>6, <1>7, <1>8, <1>9, <1>10, <1>11, <1>12, <1>13, <1>14
  DEF Next, RankStep, Open, Batch, Collective, Outside, Finished

\* What is done in q's file meanwhile stays so.
LEMMA LoopFile ==
  ASSUME NumbersInv, DoneHasRows, [Next]_vars, NEW q \in Rank, pc[q] \in {"batch", "reduce"},
         chkNum'[q] = chkNum[q], pc'[q] # "idle",
         \A t \in Thread : ~FinishTrial(q, t)
  PROVE  OwnFile(q)'.done = OwnFile(q).done
<1>1. IInv /\ FilesNew /\ NoFileNoRows  BY DEF NumbersInv, DiskInv
<1>2. PICK k \in Chk : k = chkNum[q]  BY <1>1 DEF IInv, TypeOK
<1>3. OwnFile(q) = files[k][q] /\ OwnFile(q)' = files'[k][q]  BY <1>2 DEF OwnFile
<1>4. CASE ContentKept  BY <1>3, <1>4 DEF ContentKept
<1>5. ASSUME NEW r \in Rank, NEW t \in Thread, WriteTrial(r, t)
      PROVE  files'[k][q].done = files[k][q].done
  BY <1>1, <1>5, WriteContent DEF DoneKept
<1>6. ASSUME NEW r \in Rank, NEW t \in Thread, FinishTrial(r, t)
      PROVE  files'[k][q].done = files[k][q].done
  <2>1. CASE r = q
    <3>1. FinishTrial(q, t)  BY <1>6, <2>1
    <3> QED BY <3>1
  <2>2. CASE r # q
    <3>1. files'[k][q] = files[k][q]  BY <1>1, <1>6, <2>2, FinishContent
    <3> QED BY <3>1
  <2> QED BY <2>1, <2>2
<1>7. ~DeleteUnreadable  BY <1>1, DeleteEffect
<1>8. ASSUME NEW r \in Rank, Merge(r)
      PROVE  FALSE
  <2>1. pc[r] = "merge"
    BY <1>8 DEF Merge, MergeSkip, MergeCopy, MergeAppend, MergeClose, MergeUnlink, MergeRemove, MergeDone
  <2> QED BY <1>1, <2>1, MergeAlone DEF EndPcs
<1> QED BY <1>1, <1>3, <1>4, <1>5, <1>6, <1>7, <1>8, ContentStep

\* The slice of a rank depends on the batch only.
LEMMA SliceKept ==
  ASSUME NEW q, UNCHANGED <<size, restart>>, prior'[q] = prior[q],
         restartMax'[q] = restartMax[q], batchStart'[q] = batchStart[q]
  PROVE  /\ OwnSlice(q)' = OwnSlice(q) /\ BatchEnd(q)' = BatchEnd(q)
         /\ NumberingStart(q)' = NumberingStart(q) /\ NumberingEnd(q)' = NumberingEnd(q)
         /\ BatchSize(q)' = BatchSize(q)
<1>1. /\ NumberingStart(q)' = NumberingStart(q) /\ BatchSize(q)' = BatchSize(q)
      /\ NumberingEnd(q)' = NumberingEnd(q)
  BY DEF NumberingStart, NumberingEnd, BatchSize, TrialsRemaining
<1>2. BatchEnd(q)' = BatchEnd(q)  BY <1>1 DEF BatchEnd
<1> QED BY <1>1, <1>2 DEF OwnSlice, SliceFirst, SliceLast

\* A rank that begins a batch has taken no trial of it.
LEMMA OpenTakes ==
  ASSUME IInv, IInv', BatchInv', NEW r \in Rank, OpenFiles(r), pc'[r] = "batch"
  PROVE  Taken(r)' = {}
<1> DEFINE first == IF inRun[r] THEN batchStart[r] + BatchSize(r) ELSE NumberingStart(r)
<1>1. /\ pc[r] = "open_files" /\ EnterBatch(r, first)
      /\ UNCHANGED <<size, restart, prior, restartMax, chkNum, task>>
  BY DEF OpenFiles
<1>2. \A q : NumberingEnd(q)' = NumberingEnd(q) /\ BatchSize(q)' = BatchSize(q)
  BY <1>1, NumberingSame
<1>3. /\ pc \in [Rank -> {"idle"} \cup CollectivePcs \cup LocalPcs]
      /\ batchStart \in [Rank -> Nat] /\ nextTrial \in [Rank -> Nat]
  BY DEF IInv, TypeOK
<1>4. first < NumberingEnd(r)  BY <1>1, <1>3 DEF EnterBatch
<1>5. /\ batchStart'[r] = first
      /\ nextTrial'[r] = SliceFirst(r, first, Lesser(first + BatchSize(r), NumberingEnd(r)))
  BY <1>1, <1>3, <1>4 DEF EnterBatch
<1>6. BatchEnd(r)' = Lesser(first + BatchSize(r), NumberingEnd(r))  BY <1>2, <1>5 DEF BatchEnd
<1>7. nextTrial'[r] = SliceFirst(r, batchStart[r], BatchEnd(r))'
  <2> HIDE DEF first
  <2> QED BY <1>1, <1>5, <1>6 DEF SliceFirst
<1>8. nextTrial'[r] \in Nat  BY DEF IInv, TypeOK
<1>9. OwnSlice(r)' = SliceFirst(r, batchStart[r], BatchEnd(r))' .. SliceLast(r)' - 1
  BY DEF OwnSlice
<1>10. SliceLast(r)' \in Int
  <2>1. NumberingEnd(r) \in Nat /\ NumberingStart(r) \in Nat /\ BatchSize(r) \in Nat
    BY NumberingType DEF IInv
  <2>2. size \in Nat /\ r \in Nat /\ r < size
    BY <1>1, OutputAssumption DEF IInv, TypeOK, OnlyActiveRun, Rank
  <2>3. first \in Nat  BY <1>3, <2>1
  <2> HIDE DEF first
  <2>4. PICK last \in Nat : last = BatchEnd(r)' /\ first <= last
    BY <1>4, <1>6, <2>1, <2>3 DEF Lesser
  <2>5. PICK k \in Nat : k = last - first  BY <2>3, <2>4
  <2>6. size \in Nat \ {0} /\ Base(k, size) \in Nat
    <3>1. size \in Nat \ {0}  BY <2>2
    <3> QED BY <3>1, DivMod
  <2>7. MyCount(r, k, size) \in Nat  BY <2>6 DEF MyCount
  <2>8. SliceLast(r)' = RankLast(r, size, first, last)  BY <1>1, <1>5, <2>4 DEF SliceLast
  <2>9. RankFirst(r, size, first, last) = nextTrial'[r]  BY <1>1, <1>5, <1>6, <2>4 DEF SliceFirst
  <2>10. SliceLast(r)' = nextTrial'[r] + MyCount(r, k, size)  BY <2>5, <2>8, <2>9 DEF RankLast
  <2> QED BY <1>8, <2>7, <2>10
<1> QED BY <1>7, <1>8, <1>9, <1>10 DEF Taken

\* n is done in r's file, or a thread of r is at work on it.
InHand(r, n) ==
  n \in OwnFile(r).done \/ \E t \in Thread : task[r][t].st # "idle" /\ task[r][t].trial = n

TakenAt(r) ==
  /\ pc[r] = "batch" /\ ~sigterm[r] /\ ~failed[r] => \A n \in Taken(r) : InHand(r, n)
  /\ pc[r] = "reduce" /\ ~vote[r] => OwnSlice(r) \subseteq OwnFile(r).done

\* The numbers of a rank's slice.
LEMMA SliceInt ==
  ASSUME NumbersInv, NEW r \in Rank, pc[r] = "batch"
  PROVE  SliceLast(r) \in Nat /\ \A n \in OwnSlice(r) : n \in Nat /\ n < SliceLast(r)
<1>1. r \in Active  BY ActiveRanks DEF NumbersInv, DiskInv
<1>2. batchStart[r] <= NumberingEnd(r)
  <2>1. batchStart[r] < NumberingEnd(r)  BY <1>1 DEF NumbersInv, BatchesTogether
  <2> QED BY <2>1, NumberingType DEF NumbersInv, DiskInv, IInv, TypeOK
<1>3. SliceLast(r) \in Nat /\ SliceFirst(r, batchStart[r], BatchEnd(r)) \in Nat
  BY <1>1, <1>2, SliceBounds DEF NumbersInv, DiskInv
<1> QED BY <1>3 DEF OwnSlice

\* The loop of r goes on with the batch it is in.
LEMMA TakenMore ==
  ASSUME NumbersInv, TakenDone, NEW r \in Rank, NEW t \in Thread,
         Trial(r, t) \/ FailTrial(r, t), [Next]_vars
  PROVE  TakenAt(r)'
<1>1. /\ task \in [Rank -> [Thread -> Task]] /\ nextTrial \in [Rank -> Nat]
      /\ failed \in [Rank -> BOOLEAN] /\ IInv /\ FilesNew /\ NoFileNoRows
  BY DEF NumbersInv, DiskInv, IInv, TypeOK
<1>2. pc[r] = "batch" /\ pc' = pc /\ sigterm' = sigterm /\ UNCHANGED chkNum
  <2>1. task[r][t].st # "idle" => pc[r] = "batch"  BY <1>1 DEF IInv, TrialsOnlyInBatch
  <2> QED BY <2>1 DEF Trial, SkipTrial, BeginTrial, WriteTrial, FinishTrial, FailTrial, TaskUnchanged
<1>3. OwnSlice(r)' = OwnSlice(r)
  <2>1. UNCHANGED <<size, restart>> /\ prior' = prior /\ restartMax' = restartMax
        /\ batchStart' = batchStart
    BY DEF Trial, SkipTrial, BeginTrial, WriteTrial, FinishTrial, FailTrial, TaskUnchanged
  <2> QED BY <2>1, SliceKept
<1>4. SUFFICES ASSUME ~sigterm[r], ~failed'[r], NEW n \in Taken(r)'
               PROVE  InHand(r, n)'
  BY <1>2 DEF TakenAt
<1>5. ~FailTrial(r, t) /\ ~SkipTrial(r, t)  BY <1>1, <1>4 DEF FailTrial, SkipTrial
<1>6. PICK k \in Chk : k = chkNum[r]  BY <1>1 DEF IInv, TypeOK
<1>7. OwnFile(r)'.done = files'[k][r].done /\ OwnFile(r).done = files[k][r].done
  BY <1>2, <1>6 DEF OwnFile
<1>8. failed' = failed  BY <1>5 DEF Trial, BeginTrial, WriteTrial, FinishTrial
<1>9. n \in Taken(r) => InHand(r, n)  BY <1>2, <1>4, <1>8 DEF TakenDone, InHand
<1>10. CASE BeginTrial(r, t)
  <2>1. /\ nextTrial'[r] = nextTrial[r] + 1 /\ task[r][t].st = "idle"
        /\ task'[r] = [task[r] EXCEPT ![t] =
                         [st |-> "begun", trial |-> nextTrial[r], uid |-> nextUid[r]]]
        /\ UNCHANGED disk
    BY <1>1, <1>10 DEF BeginTrial
  <2>2. task'[r][t].st = "begun" /\ task'[r][t].trial = nextTrial[r]  BY <1>1, <2>1
  <2>3. \A u \in Thread : u # t => task'[r][u] = task[r][u]  BY <1>1, <2>1
  <2>4. n \in Int /\ n \in OwnSlice(r) /\ n < nextTrial[r] + 1
    <3>1. n \in OwnSlice(r) /\ n < nextTrial'[r]  BY <1>3, <1>4 DEF Taken
    <3> QED BY <1>2, <2>1, <3>1, SliceInt
  <2>5. n \in Taken(r) \/ n = nextTrial[r]
    <3>1. nextTrial[r] \in Int  BY <1>1
    <3>2. n < nextTrial[r] \/ n = nextTrial[r]  BY <2>4, <3>1
    <3> QED BY <2>4, <3>2 DEF Taken
  <2>6. files' = files  BY <2>1 DEF disk
  <2> QED BY <1>7, <1>9, <2>1, <2>2, <2>3, <2>5, <2>6 DEF InHand
<1>11. CASE WriteTrial(r, t)
  <2>1. /\ UNCHANGED nextTrial /\ task[r][t].st = "begun"
        /\ task' = [task EXCEPT ![r][t].st = "written"]
    BY <1>11 DEF WriteTrial
  <2>2. task'[r][t].st = "written" /\ task'[r][t].trial = task[r][t].trial  BY <1>1, <2>1
  <2>3. \A u \in Thread : u # t => task'[r][u] = task[r][u]  BY <1>1, <2>1
  <2>4. n \in Taken(r)  BY <1>3, <1>4, <2>1 DEF Taken
  <2>5. files'[k][r].done = files[k][r].done  BY <1>1, <1>11, WriteContent DEF DoneKept
  <2> QED BY <1>7, <1>9, <2>2, <2>3, <2>4, <2>5 DEF InHand
<1>12. CASE FinishTrial(r, t)
  <2>1. UNCHANGED nextTrial /\ task' = [task EXCEPT ![r][t] = Idle]  BY <1>12 DEF FinishTrial
  <2>2. \A u \in Thread : u # t => task'[r][u] = task[r][u]  BY <1>1, <2>1
  <2>3. n \in Taken(r)  BY <1>3, <1>4, <2>1 DEF Taken
  <2>4. files'[k][r].done = files[k][r].done \cup {task[r][t].trial}
    BY <1>1, <1>6, <1>12, FinishContent
  <2> QED BY <1>7, <1>9, <2>2, <2>3, <2>4 DEF InHand
<1> QED BY <1>5, <1>10, <1>11, <1>12 DEF Trial

\* The batch is handed out: what was taken is done.
LEMMA TakenAll ==
  ASSUME NumbersInv, DoneHasRows, TakenDone, NEW r \in Rank, BatchDone(r), [Next]_vars
  PROVE  TakenAt(r)'
<1>1. /\ pc \in [Rank -> {"idle"} \cup CollectivePcs \cup LocalPcs]
      /\ nextTrial \in [Rank -> Nat] /\ vote \in [Rank -> BOOLEAN]
  BY DEF NumbersInv, DiskInv, IInv, TypeOK
<1>2. /\ pc[r] = "batch" /\ nextTrial[r] >= SliceLast(r) /\ ~failed[r]
      /\ \A t \in Thread : task[r][t].st = "idle"
  BY DEF BatchDone, BatchOver
<1>3. /\ pc'[r] = "reduce" /\ vote'[r] = sigterm[r] /\ UNCHANGED <<chkNum, count>>
      /\ UNCHANGED <<size, restart, prior, restartMax, batchStart>>
  BY <1>1 DEF BatchDone
<1>4. SUFFICES ASSUME ~sigterm[r], NEW n \in OwnSlice(r)'
               PROVE  n \in OwnFile(r)'.done
  BY <1>3 DEF TakenAt
<1>5. n \in OwnSlice(r)  BY <1>3, <1>4, SliceKept
<1>6. n \in Taken(r)  BY <1>1, <1>2, <1>5, SliceInt DEF Taken
<1>7. n \in OwnFile(r).done  BY <1>2, <1>4, <1>6 DEF TakenDone
<1>8. \A t \in Thread : ~FinishTrial(r, t)  BY <1>2 DEF FinishTrial
<1>9. OwnFile(r)'.done = OwnFile(r).done  BY <1>2, <1>3, <1>8, LoopFile
<1> QED BY <1>7, <1>9

\* What a rank has taken of a batch is done, or being done, when nothing stops it.
LEMMA TakenDoneStep ==
  ASSUME NumbersInv, NumbersInv', DoneHasRows, TakenDone, [Next]_vars
  PROVE  TakenDone'
<1>1. SUFFICES ASSUME NEW r \in Rank, pc'[r] \in {"batch", "reduce"}
               PROVE  TakenAt(r)'
  BY DEF TakenDone, TakenAt, InHand
<1>2. IInv /\ IInv' /\ BatchInv'  BY DEF NumbersInv, DiskInv, BatchInv
<1>3. CASE OpenFiles(r)
  <2>1. pc'[r] = "batch"
    <3>1. pc \in [Rank -> {"idle"} \cup CollectivePcs \cup LocalPcs]  BY <1>2 DEF IInv, TypeOK
    <3> QED BY <1>1, <1>3, <3>1 DEF OpenFiles, EnterBatch
  <2> QED BY <1>2, <1>3, <2>1, OpenTakes DEF TakenAt
<1>4. CASE BatchDone(r)  BY <1>4, TakenAll
<1>5. ASSUME NEW t \in Thread, Trial(r, t) \/ FailTrial(r, t)
      PROVE  TakenAt(r)'
  BY <1>5, TakenMore
<1>6. CASE LoopKept(r) /\ \A t \in Thread : ~FinishTrial(r, t)
  <2>1. pc[r] \in {"batch", "reduce"} /\ chkNum'[r] = chkNum[r]  BY <1>1, <1>6 DEF LoopKept
  <2>2. OwnFile(r)'.done = OwnFile(r).done  BY <1>1, <1>6, <2>1, LoopFile
  <2>3. OwnSlice(r)' = OwnSlice(r)  BY <1>6, SliceKept DEF LoopKept
  <2>4. Taken(r)' = Taken(r)  BY <1>6, <2>3 DEF Taken, LoopKept
  <2>5. (pc[r] = "batch" /\ ~sigterm[r] /\ ~failed[r]) => \A n \in Taken(r) : InHand(r, n)
    BY DEF TakenDone, InHand
  <2>6. (pc[r] = "reduce" /\ ~vote[r]) => OwnSlice(r) \subseteq OwnFile(r).done  BY DEF TakenDone
  <2>7. \A n : InHand(r, n) => InHand(r, n)'  BY <1>6, <2>2 DEF InHand, LoopKept
  <2>8. (pc'[r] = "batch" /\ ~sigterm'[r] /\ ~failed'[r]) => \A n \in Taken(r)' : InHand(r, n)'
    BY <1>6, <2>4, <2>5, <2>7 DEF LoopKept
  <2>9. (pc'[r] = "reduce" /\ ~vote'[r]) => OwnSlice(r)' \subseteq OwnFile(r)'.done
    BY <1>6, <2>2, <2>3, <2>6 DEF LoopKept
  <2> QED BY <2>8, <2>9 DEF TakenAt
<1>7. ASSUME NEW t \in Thread, FinishTrial(r, t)
      PROVE  TakenAt(r)'
  BY <1>5, <1>7 DEF Trial
<1> QED BY <1>1, <1>2, <1>3, <1>4, <1>5, <1>6, <1>7, LoopMoves

\* A rank closes its files to go on when all ranks are through with the batch.
LEMMA ClosingMoves ==
  ASSUME IInv, [Next]_vars, NEW r \in Rank, Closing(r)', exit'[r] = "none"
  PROVE  (Reduce /\ r \in Active) \/ (Closing(r) /\ exit[r] = "none")
<1> USE DEF Closing, SyncPcs
<1>1. /\ pc \in [Rank -> {"idle"} \cup CollectivePcs \cup LocalPcs]
      /\ exit \in [Rank -> {"none", "done", "sigterm", "error"}]
      /\ r \in Active \/ pc[r] = "idle"
  BY ActiveRanks DEF IInv, TypeOK
<1>2. CASE UNCHANGED <<pc, exit>>  BY <1>2
<1>3. ASSUME NEW q \in Rank, Setup(q) \/ OpenThrows(q) \/ OpenCheck(q) \/ MakeDir(q)
      PROVE  Closing(r) /\ exit[r] = "none"
  <2>1. /\ \E p \in {"open_check", "open_checked", "dir_made", "finalize"} : pc' = [pc EXCEPT ![q] = p]
        /\ \A p \in Rank : p # q => exit'[p] = exit[p]
    BY <1>1, <1>3
    DEF Setup, SetupThrows, SetupFresh, SetupRestart, ConstructorThrows, OpenThrows, OpenCheck,
        MakeDir
  <2> QED BY <1>1, <2>1
<1>4. ASSUME NEW q \in Rank, OpenFiles(q)
      PROVE  Closing(r) /\ exit[r] = "none"
  BY <1>1, <1>4 DEF OpenFiles, EnterBatch
<1>5. ASSUME NEW q \in Rank, NEW t \in Thread, Trial(q, t) \/ FailTrial(q, t)
      PROVE  UNCHANGED <<pc, exit>>
  BY <1>5 DEF Trial, SkipTrial, BeginTrial, WriteTrial, FinishTrial, FailTrial, TaskUnchanged
<1>6. ASSUME NEW q \in Rank, Batch(q)
      PROVE  Closing(r) /\ exit[r] = "none"
  BY <1>1, <1>6 DEF Batch, BatchDone, BatchFailed
<1>7. ASSUME NEW q \in Rank, Save(q) \/ Merge(q)
      PROVE  Closing(r) /\ exit[r] = "none"
  <2>1. /\ UNCHANGED exit
        /\ \/ UNCHANGED pc
           \/ Closing(q) /\ \E p : pc' = [pc EXCEPT ![q] = p]
           \/ pc' = [pc EXCEPT ![q] = "finalize"]
    <3>1. CASE Close(q)  BY <3>1 DEF Close
    <3>2. CASE SyncRead(q) \/ SyncWrite(q)  BY <3>2 DEF SyncRead, SyncWrite
    <3>3. CASE Merge(q)
      BY <3>3 DEF Merge, MergeSkip, MergeCopy, MergeAppend, MergeClose, MergeUnlink, MergeRemove, MergeDone
    <3> QED BY <1>7, <3>1, <3>2, <3>3 DEF Save
  <2> QED BY <1>1, <2>1
<1>8. CASE Reduce  BY <1>1, <1>8 DEF Reduce
<1>9. CASE Barrier  BY <1>1, <1>9 DEF Barrier, AfterBarrier, BarrierPcs
<1>10. ASSUME NEW n \in RankCounts, NEW again \in BOOLEAN, Launch(n, again)
       PROVE  FALSE
  BY <1>10 DEF Launch
<1>11. ASSUME Forget
       PROVE  FALSE
  BY <1>11 DEF Forget
<1>12. ASSUME NEW q \in Rank, SigtermArrives(q)
       PROVE  UNCHANGED <<pc, exit>>
  BY <1>12 DEF SigtermArrives
<1>13. CASE DeleteUnreadable \/ UNCHANGED vars  BY <1>2, <1>13 DEF DeleteUnreadable, vars
<1> QED
  BY <1>2, <1>3, <1>4, <1>5, <1>6, <1>7, <1>8, <1>9, <1>10, <1>11, <1>12, <1>13
  DEF Next, RankStep, Open, Collective, Finalize, Outside, Crash, Finished

\* The ranks have done the batch they agree to leave.
LEMMA ReduceDone ==
  ASSUME NumbersInv, TakenDone, BatchesDone, Reduce, NEW r \in Active,
         exit'[r] \in {"none", "done"}
  PROVE  NumberingStart(r) .. BatchEnd(r) - 1 \subseteq DoneOnDisk
<1>1. /\ IInv /\ size \in Nat \ {0} /\ r \in Rank /\ Active \subseteq Rank
      /\ \A q \in Active : pc[q] = "reduce" /\ GoingOn(q) /\ Knows(q) /\ BatchFirst(q) = batchStart[q]
  <2>1. IInv /\ Active \subseteq Rank /\ \A q \in Active : pc[q] = "reduce"
    BY ActiveRanks DEF NumbersInv, DiskInv, Reduce
  <2>2. size \in Nat \ {0}  BY <2>1, OutputAssumption DEF IInv, TypeOK, Reduce, Running
  <2> QED BY <2>1, <2>2 DEF GoingOn, Constructed, Closing, SyncPcs, Knows, NameFree, RunPcs, BatchFirst
<1>2. \A q \in Active : ~vote[q]  BY <1>1 DEF Reduce, SigtermAgreed
<1>3. SUFFICES ASSUME NEW n \in NumberingStart(r) .. BatchEnd(r) - 1
               PROVE  n \in DoneOnDisk
  OBVIOUS
<1>4. \A q \in Active : batchStart[q] < NumberingEnd(q)  BY <1>1 DEF NumbersInv, BatchesTogether
<1>5. \A q \in Active : batchStart[q] \in Nat /\ NumberingEnd(q) \in Nat /\ NumberingStart(q) \in Nat
  BY <1>1, NumberingType DEF IInv, TypeOK
<1>6. \A q \in Active : batchStart[q] <= NumberingEnd(q)  BY <1>4, <1>5
<1>7. BatchEnd(r) \in Nat /\ batchStart[r] <= BatchEnd(r)  BY <1>1, <1>6, SliceBounds
<1>8. CASE n < batchStart[r]
  <2>1. n \in NumberingStart(r) .. batchStart[r] - 1  BY <1>3, <1>5, <1>8, <1>7
  <2> QED BY <1>1, <2>1 DEF BatchesDone
<1>9. CASE n >= batchStart[r]
  <2>1. n \in batchStart[r] .. BatchEnd(r) - 1  BY <1>3, <1>5, <1>9, <1>7
  <2>2. PICK q \in Active : n \in Slice(q, size, batchStart[r], BatchEnd(r))
    <3>1. batchStart[r] \in Nat  BY <1>5
    <3>2. n \in UNION {Slice(q, size, batchStart[r], BatchEnd(r)) : q \in 0 .. size - 1}
      BY <1>1, <1>7, <2>1, <3>1, SlicesCover
    <3> QED BY <3>2 DEF Active
  <2>3. batchStart[q] = batchStart[r] /\ BatchEnd(q) = BatchEnd(r)  BY <1>1, SameBatch DEF BatchEnd
  <2>4. n \in OwnSlice(q)  BY <1>1, <1>6, <2>2, <2>3, SliceBounds
  <2>5. n \in OwnFile(q).done  BY <1>1, <1>2, <2>4 DEF TakenDone
  <2>6. chkNum[q] \in Chk  BY <1>1 DEF IInv, TypeOK
  <2> QED BY <1>1, <2>5, <2>6 DEF OwnFile, DoneOnDisk, DoneIn
<1>10. n \in Int  BY <1>3, <1>5, <1>7
<1> QED BY <1>5, <1>8, <1>9, <1>10

\* Where the ranks go on, the session's trials so far are done.
LEMMA BatchesDoneStep ==
  ASSUME NumbersInv, DoneHasRows, CopiesOnly, TakenDone, BatchesDone, [Next]_vars
  PROVE  BatchesDone'
<1>1. IInv /\ MergedSoFar /\ FilesNew /\ NoFileNoRows  BY DEF NumbersInv, DiskInv
<1>2. SUFFICES ASSUME NEW r \in Rank, Knows(r)', GoingOn(r)'
               PROVE  /\ NumberingStart(r)' <= BatchFirst(r)'
                      /\ NumberingStart(r)' .. BatchFirst(r)' - 1 \subseteq DoneOnDisk'
                      /\ Closing(r)' => NumberingStart(r)' .. BatchEnd(r)' - 1 \subseteq DoneOnDisk'
  <2>1. \A r \in Rank : Closing(r)' /\ exit'[r] = "none" => Knows(r)' /\ GoingOn(r)'
    BY DEF Closing, Knows, GoingOn, Constructed, SyncPcs, RunPcs
  <2>2. \A r \in Rank : Knows(r)' /\ GoingOn(r)' /\ Closing(r)' => exit'[r] = "none"  BY DEF GoingOn
  <2> QED BY <2>1, <2>2 DEF BatchesDone
<1>3. DoneOnDisk \subseteq DoneOnDisk'  BY <1>1, <1>2, DoneGrows DEF GoingOn, Constructed
<1>4. r \in Active /\ (StaysOn(r) \/ RollsOver(r))  BY <1>1, <1>2, KnowsMoves
<1>5. NumberingStart(r)' = NumberingStart(r) /\ NumberingEnd(r)' = NumberingEnd(r)
      /\ BatchSize(r)' = BatchSize(r)
  BY <1>4 DEF StaysOn, RollsOver, NumberingStart, NumberingEnd, BatchSize, TrialsRemaining
<1>6. NumberingStart(r) \in Nat /\ NumberingEnd(r) \in Nat /\ BatchSize(r) \in Nat /\ batchStart[r] \in Nat
  BY <1>1, NumberingType DEF IInv, TypeOK
<1>7. /\ NumberingStart(r)' <= BatchFirst(r)'
      /\ NumberingStart(r)' .. BatchFirst(r)' - 1 \subseteq DoneOnDisk'
  <2>1. CASE StaysOn(r) /\ Knows(r)
    <3>1. GoingOn(r) /\ BatchFirst(r)' = BatchFirst(r)  BY <1>2, <2>1 DEF StaysOn
    <3>2. /\ NumberingStart(r) <= BatchFirst(r)
          /\ NumberingStart(r) .. BatchFirst(r) - 1 \subseteq DoneOnDisk
      BY <2>1, <3>1 DEF BatchesDone
    <3> QED BY <1>3, <1>5, <3>1, <3>2
  <2>2. CASE StaysOn(r) /\ OpenCheck(r) /\ ~inRun[r]
    <3>1. BatchFirst(r)' = BatchFirst(r)  BY <1>2, <2>2 DEF StaysOn
    <3>2. BatchFirst(r) = NumberingStart(r)  BY <2>2 DEF OpenCheck, BatchFirst, Closing, SyncPcs
    <3> QED BY <1>5, <1>6, <3>1, <3>2
  <2>3. CASE RollsOver(r)
    <3>1. /\ BatchFirst(r)' = batchStart[r] + BatchSize(r) /\ BatchFirst(r) = batchStart[r]
          /\ GoingOn(r) /\ Knows(r) /\ Closing(r) /\ exit[r] = "none" /\ inRun[r] /\ pc[r] = "synced"
      BY <2>3 DEF RollsOver
    <3>2. batchStart[r] + BatchSize(r) < NumberingEnd(r)  BY <3>1 DEF NumbersInv, RolloverGoesOn
    <3>3. BatchEnd(r) = batchStart[r] + BatchSize(r)  BY <3>2 DEF BatchEnd, Lesser
    <3>4. /\ NumberingStart(r) <= batchStart[r]
          /\ NumberingStart(r) .. BatchEnd(r) - 1 \subseteq DoneOnDisk
      BY <3>1 DEF BatchesDone
    <3> QED BY <1>3, <1>5, <1>6, <3>1, <3>3, <3>4
  <2> QED BY <1>4, <2>1, <2>2, <2>3 DEF StaysOn
<1>8. ASSUME Closing(r)'
      PROVE  NumberingStart(r)' .. BatchEnd(r)' - 1 \subseteq DoneOnDisk'
  <2>1. exit'[r] = "none"  BY <1>2, <1>8 DEF GoingOn
  <2>2. CASE Reduce
    <3>1. BatchEnd(r)' = BatchEnd(r)  BY <1>5, <2>2 DEF Reduce, BatchEnd
    <3> QED BY <1>3, <1>4, <1>5, <2>1, <2>2, <3>1, ReduceDone
  <2>3. CASE Closing(r) /\ exit[r] = "none"
    <3>1. StaysOn(r)
      <4>1. RollsOver(r) => pc'[r] = "open_check"
        BY <1>1, <1>2 DEF RollsOver, Barrier, AfterBarrier
      <4> QED BY <1>4, <1>8, <4>1 DEF Closing, SyncPcs
    <3>2. batchStart'[r] = batchStart[r]  BY <1>2, <1>8, <2>3, <3>1 DEF StaysOn, BatchFirst
    <3>3. BatchEnd(r)' = BatchEnd(r)  BY <1>5, <3>2 DEF BatchEnd
    <3> QED BY <1>3, <1>5, <2>3, <3>3 DEF BatchesDone
  <2> QED BY <1>1, <1>8, <2>1, <2>2, <2>3, ClosingMoves
<1> QED BY <1>7, <1>8

-----------------------------------------------------------------------------
(* The files of a checkpoint are closed before another is made.            *)

\* Every file in the directory of c is closed.
FilesClosed(c) == \A r \in RanksIn(c) : HasAttrs(files[c][r])

\* Nothing on disk changes.
LEMMA ClosedSame ==
  ASSUME EarlierClosed, UNCHANGED disk, SyncOver' => SyncOver
  PROVE  EarlierClosed'
<1>1. \A c : FilesClosed(c)' = FilesClosed(c) /\ HasH5(c)' = HasH5(c)
  BY DEF FilesClosed, RanksIn, HasAttrs, HasH5, disk
<1>2. FoundCheckpoints' = FoundCheckpoints  BY DiskSame
<1>3. \A c \in Chk : HasH5(c)' \/ (\E d \in FoundCheckpoints' : c < d) \/ SyncOver' => FilesClosed(c)
  BY <1>1, <1>2 DEF EarlierClosed, SyncOver, FilesClosed
<1> QED BY <1>1, <1>3 DEF EarlierClosed, SyncOver, FilesClosed

\* A rank finds the name of its checkpoint free: of those before it a restart
\* has read the last.
LEMMA ClosedCheck ==
  ASSUME DiskInv, SetupReads, EarlierClosed, NEW r \in Rank, OpenCheck(r)
  PROVE  EarlierClosed'
<1>1. /\ pc[r] = "open_check" /\ pc' = [pc EXCEPT ![r] = "open_checked"]
      /\ UNCHANGED <<inRun, disk>> /\ ~Exists(chkNum[r])
  BY DEF OpenCheck
<1>2. /\ pc \in [Rank -> {"idle"} \cup CollectivePcs \cup LocalPcs]
      /\ \A q \in Rank : chkNum[q] \in Chk
      /\ IInv /\ r \in Active
  BY <1>1, ActiveRanks DEF DiskInv, IInv, TypeOK
<1>3. CASE r # 0 \/ inRun[0]
  <2>1. SyncOver' => SyncOver  BY <1>1, <1>2, <1>3 DEF SyncOver, NameFree
  <2> QED BY <1>1, <2>1, ClosedSame
<1>4. CASE r = 0 /\ ~inRun[0]
  <2> SUFFICES ASSUME NEW c \in Chk
               PROVE  FilesClosed(c)'
    BY DEF EarlierClosed, FilesClosed
  <2> SUFFICES FilesClosed(c)
    BY <1>1 DEF FilesClosed, RanksIn, HasAttrs, disk
  <2>1. CASE c \notin FoundCheckpoints  BY <2>1, NothingBeyond DEF DiskInv, RanksIn, FilesClosed
  <2>2. CASE HasH5(c) \/ \E d \in FoundCheckpoints : c < d  BY <2>2 DEF EarlierClosed, FilesClosed
  <2>3. CASE c \in FoundCheckpoints /\ ~HasH5(c) /\ ~\E d \in FoundCheckpoints : c < d
    <3>1. /\ MaxCheckpoint \in FoundCheckpoints /\ c <= MaxCheckpoint
          /\ MaxCheckpoint \in Chk
      BY <2>3, MaxCheckpointLast, MaxCheckpointType
    <3>2. c = MaxCheckpoint  BY <2>3, <3>1, OutputAssumption DEF Chk
    <3>3. restart
      <4>1. SUFFICES ASSUME ~restart
                     PROVE  FALSE
        OBVIOUS
      <4>2. chkNum[0] = 0  BY <1>1, <1>2, <1>4, <4>1 DEF IInv, SetupReadsDisk
      <4>3. 0 \in FoundCheckpoints  BY <2>3, OutputAssumption DEF DiskInv, NoGaps, Chk
      <4> QED BY <1>1, <1>4, <4>2, <4>3 DEF FoundCheckpoints
    <3>4. Readable(c)  BY <1>1, <1>4, <2>3, <3>2, <3>3 DEF SetupReads
    <3>5. RestartSource(c) = {files[c][q] : q \in RanksIn(c)}  BY <2>3 DEF RestartSource
    <3> QED BY <3>4, <3>5 DEF Readable, AttrsAgree, FilesClosed
  <2> QED BY <2>1, <2>2, <2>3
<1> QED BY <1>3, <1>4

\* A rank works on a file of the checkpoint being written.
LEMMA ClosedElsewhere ==
  ASSUME DiskInv, OwnInv, EarlierClosed, NEW r \in Rank, pc[r] \in RunPcs \cup SyncPcs,
         NEW q, OnlyFile(chkNum[r], q), ~SyncOver'
  PROVE  EarlierClosed'
<1> DEFINE k == chkNum[r]
<1>1. /\ k \in Chk /\ FoundCheckpoints = 0 .. k /\ ~HasH5(k)
      /\ \A c \in Chk : c > k => ~HasH5(c) /\ RanksIn(c) = {}
  BY LastOne
<1>2. /\ FoundCheckpoints' = FoundCheckpoints /\ \A c : HasH5(c)' = HasH5(c)
      /\ \A c \in Chk : c # k => \A p \in Rank : files'[c][p] = files[c][p]
  BY FoundSame DEF OnlyFile, HasH5
<1> SUFFICES ASSUME NEW c \in Chk, HasH5(c) \/ \E d \in FoundCheckpoints : c < d
             PROVE  FilesClosed(c)'
  BY <1>2 DEF EarlierClosed, SyncOver, FilesClosed
<1>3. c # k  BY <1>1, OutputAssumption DEF Chk
<1>4. FilesClosed(c)  BY DEF EarlierClosed, FilesClosed
<1> QED BY <1>2, <1>3, <1>4 DEF FilesClosed, RanksIn, HasAttrs

\* Rank 0 is done synchronising: all files of the checkpoint are closed.
LEMMA ClosedSync ==
  ASSUME DiskInv, OwnInv, EarlierClosed, NEW r \in Rank, SyncWrite(r)
  PROVE  EarlierClosed'
<1>0. PICK k \in Chk, n \in Rank : k = chkNum[r] /\ n = sync.next  BY DEF DiskInv, IInv, TypeOK
<1>1. pc[r] = "sync_write" /\ r \in Active /\ pc[r] \in SyncPcs /\ IInv
  BY ActiveRanks DEF SyncWrite, DiskInv, SyncPcs
<1>2. OnlyFile(k, n) /\ files'[k][n].st = files[k][n].st  BY <1>0, <1>1, SyncEffect
<1>3. \A q \in Active : q \in Rank /\ files[k][q].st = "closed"
  <2> SUFFICES ASSUME NEW q \in Active
               PROVE  q \in Rank /\ files[k][q].st = "closed"
    OBVIOUS
  <2>1. pc[q] \in SyncPcs /\ chkNum[q] = k /\ q \in Rank  BY <1>0, <1>1, ActiveRanks, Together
  <2> QED BY <2>1 DEF OwnInv, FilesOpened, HasFile, OwnFile, SyncPcs
<1>4. /\ FoundCheckpoints = 0 .. k
      /\ \A d \in Chk : d > k => RanksIn(d) = {}
      /\ \A q \in RanksIn(k) : q \in Active
  BY <1>0, <1>1, LastOne
<1>5. \A c \in Chk, q \in Rank : files'[c][q].st = files[c][q].st  BY <1>2 DEF OnlyFile
<1> SUFFICES ASSUME NEW c \in Chk
             PROVE  FilesClosed(c)'
  BY DEF EarlierClosed, FilesClosed
<1> SUFFICES FilesClosed(c)
  BY <1>5 DEF FilesClosed, RanksIn, HasAttrs
<1>6. CASE c < k
  <2>1. k \in FoundCheckpoints  BY <1>4, OutputAssumption DEF Chk
  <2> QED BY <1>6, <2>1 DEF EarlierClosed, FilesClosed
<1>7. CASE c > k  BY <1>4, <1>7 DEF FilesClosed
<1>8. CASE c = k  BY <1>3, <1>4, <1>8 DEF FilesClosed, HasAttrs
<1> QED BY <1>6, <1>7, <1>8, OutputAssumption DEF Chk

\* Files and directories may go, and a file that is not closed be torn.
LEMMA ClosedFewer ==
  ASSUME EarlierClosed, FoundCheckpoints' \subseteq FoundCheckpoints, ~SyncOver' \/ SyncOver,
         \A c \in Chk : HasH5(c)' => HasH5(c) \/ SyncOver,
         \A c \in Chk, q \in Rank : files'[c][q].st # "none" =>
           files[c][q].st # "none" /\ (HasAttrs(files[c][q]) => HasAttrs(files'[c][q]))
  PROVE  EarlierClosed'
<1> SUFFICES ASSUME NEW c \in Chk,
                    HasH5(c)' \/ (\E d \in FoundCheckpoints' : c < d) \/ SyncOver'
             PROVE  FilesClosed(c)'
  BY DEF EarlierClosed, SyncOver, FilesClosed
<1>1. FilesClosed(c)  BY DEF EarlierClosed, SyncOver, FilesClosed
<1> QED BY <1>1 DEF FilesClosed, RanksIn

\* Every step leaves the files of a checkpoint closed before another is made.
LEMMA ClosedStep ==
  ASSUME DiskInv, OwnInv, SetupReads, EarlierClosed, [Next]_vars
  PROVE  EarlierClosed'
<1>1. /\ IInv /\ 0 \in Rank
      /\ pc \in [Rank -> {"idle"} \cup CollectivePcs \cup LocalPcs]
      /\ inRun \in [Rank -> BOOLEAN]
  <2>1. 0 \in Rank  BY OutputAssumption DEF Rank
  <2> QED BY <2>1 DEF DiskInv, IInv, TypeOK
<1> USE DEF SyncOver, NameFree
<1>2. ASSUME NEW n \in RankCounts, NEW again \in BOOLEAN, Launch(n, again)
      PROVE  EarlierClosed'
  <2>1. UNCHANGED disk /\ pc'[0] \in {"setup", "idle"}  BY <1>1, <1>2 DEF Launch
  <2> QED BY <2>1, ClosedSame
<1>3. ASSUME NEW r \in Rank, Setup(r) \/ OpenThrows(r)
      PROVE  EarlierClosed'
  <2>1. /\ UNCHANGED <<disk, inRun>>
        /\ \/ pc[r] = "setup" /\ pc' = [pc EXCEPT ![r] = "open_check"]
           \/ pc' = [pc EXCEPT ![r] = "finalize"]
    BY <1>3
    DEF Setup, SetupThrows, SetupFresh, SetupRestart, OpenThrows, ConstructorThrows
  <2>2. pc[r] = "setup" => ~inRun[r]  BY <1>1 DEF IInv, FreshUntilSetup
  <2> QED BY <1>1, <2>1, <2>2, ClosedSame
<1>4. ASSUME NEW r \in Rank,
             \/ Batch(r) \/ SyncRead(r) \/ SigtermArrives(r)
             \/ \E t \in Thread : SkipTrial(r, t) \/ BeginTrial(r, t) \/ FailTrial(r, t)
      PROVE  EarlierClosed'
  <2>1. /\ UNCHANGED <<disk, inRun>>
        /\ pc' = pc \/ \E p \in {"reduce", "close", "sync_write"} : pc' = [pc EXCEPT ![r] = p]
    BY <1>4
    DEF Batch, BatchDone, BatchFailed, SyncRead, SigtermArrives, SkipTrial, BeginTrial,
        FailTrial, TaskUnchanged
  <2> QED BY <1>1, <2>1, ClosedSame
<1>5. CASE Reduce
  <2>1. UNCHANGED <<disk, inRun>> /\ (pc'[0] = pc[0] \/ pc'[0] = "close")  BY <1>1, <1>5 DEF Reduce
  <2> QED BY <2>1, ClosedSame
<1>6. CASE Barrier
  <2>1. UNCHANGED <<disk, inRun>> /\ pc'[0] = AfterBarrier(0)  BY <1>1, <1>6 DEF Barrier
  <2>2. SyncOver' => SyncOver  BY <2>1 DEF AfterBarrier
  <2> QED BY <2>1, <2>2, ClosedSame
<1>7. CASE Finalize
  <2>1. UNCHANGED disk /\ pc'[0] = "idle"  BY <1>1, <1>7 DEF Finalize, Forget
  <2> QED BY <2>1, ClosedSame
<1>8. CASE UNCHANGED vars
  <2>1. UNCHANGED <<disk, inRun, pc>>  BY <1>8 DEF vars
  <2> QED BY <2>1, ClosedSame
<1>9. ASSUME NEW r \in Rank, MakeDir(r)
      PROVE  EarlierClosed'
  <2>1. pc[r] = "make_dir" /\ UNCHANGED <<files, h5>>  BY <1>9 DEF MakeDir, CreateDirectory
  <2>2. r = 0  BY <1>1, <2>1 DEF IInv, RootOnly
  <2>3. \A c \in Chk : FilesClosed(c)  BY <2>1, <2>2 DEF EarlierClosed, FilesClosed
  <2>4. \A c \in Chk : FilesClosed(c)'  BY <2>1, <2>3 DEF FilesClosed, RanksIn, HasAttrs
  <2> QED BY <2>4 DEF EarlierClosed, FilesClosed
<1>10. ASSUME NEW r \in Rank, OpenFiles(r) \/ Close(r) \/ \E t \in Thread : WriteTrial(r, t) \/ FinishTrial(r, t)
       PROVE  EarlierClosed'
  <2>1. /\ pc[r] \in RunPcs /\ OnlyFile(chkNum[r], r)
        /\ pc' = pc \/ \E p \in {"batch", "close", "closed"} : pc' = [pc EXCEPT ![r] = p]
    <3>1. CASE OpenFiles(r)  BY <1>1, <3>1, OpenEffect DEF OpenFiles, EnterBatch, RunPcs
    <3>2. CASE Close(r)  BY <1>1, <3>2, CloseEffect DEF Close, RunPcs
    <3>3. ASSUME NEW t \in Thread, WriteTrial(r, t) \/ FinishTrial(r, t)
          PROVE  pc[r] \in RunPcs /\ OnlyFile(chkNum[r], r) /\ pc' = pc
      <4>1. pc[r] = "batch" /\ pc' = pc
        BY <1>1, <3>3 DEF WriteTrial, FinishTrial, IInv, TrialsOnlyInBatch, TaskUnchanged
      <4> QED BY <1>1, <3>3, <4>1, WriteEffect, FinishEffect DEF RunPcs
    <3> QED BY <1>10, <3>1, <3>2, <3>3
  <2>2. 0 \in Active
    <3>1. r \in Active  BY <1>1, <2>1, ActiveRanks DEF RunPcs
    <3>2. size \in Nat  BY <1>1 DEF IInv, TypeOK
    <3> QED BY <3>1, <3>2 DEF Active
  <2>3. pc[0] \in RunPcs  BY <1>1, <2>1, <2>2, Together
  <2>4. ~SyncOver'  BY <1>1, <2>1, <2>3 DEF RunPcs
  <2> QED BY <2>1, <2>4, ClosedElsewhere
<1>11. ASSUME NEW r \in Rank, Merge(r)
       PROVE  EarlierClosed'
  <2>1. pc[0] = "merge"
    BY <1>1, <1>11, MergeAlone
    DEF Merge, MergeSkip, MergeCopy, MergeAppend, MergeClose, MergeUnlink, MergeRemove, MergeDone
  <2>2. NoFile.st = "none"  BY DEF NoFile
  <2>3. \A c \in Chk, q \in Rank : files'[c][q] = files[c][q] \/ files'[c][q] = NoFile
    BY <1>1, <1>11, MergeEffect
  <2>4. \A c \in Chk : FilesClosed(c)  BY <2>1 DEF EarlierClosed, FilesClosed
  <2>5. \A c \in Chk : FilesClosed(c)'  BY <2>2, <2>3, <2>4 DEF FilesClosed, RanksIn, HasAttrs
  <2> QED BY <2>5 DEF EarlierClosed, FilesClosed
<1>12. CASE Crash
  <2>1. /\ hasDir' = hasDir
        /\ \A c \in Chk, q \in Rank :
             files'[c][q].st = IF files[c][q].st = "open" THEN "torn" ELSE files[c][q].st
        /\ \A c \in Chk : h5'[c].st \in IF h5[c].st = "open" THEN {"torn", "closed"} ELSE {h5[c].st}
    BY <1>1, <1>12, CrashEffect
  <2>2. \A c \in Chk : HasH5(c)' = HasH5(c)  BY <2>1 DEF HasH5
  <2>3. FoundCheckpoints' = FoundCheckpoints  BY <2>1, <2>2 DEF FoundCheckpoints, Exists
  <2>4. pc'[0] = "idle"  BY <1>1, <1>12 DEF Crash, Forget
  <2> QED BY <2>1, <2>2, <2>3, <2>4, ClosedFewer DEF HasAttrs
<1>13. CASE DeleteUnreadable
  <2>1. /\ \A c \in Chk : h5'[c] \in {h5[c], NoFile}
        /\ \A c \in Chk, q \in Rank : files'[c][q] \in {files[c][q], NoFile}
        /\ \A c \in Chk : hasDir'[c] => hasDir[c]
        /\ pc'[0] = "idle"
    <3>1. CASE HasH5(MaxCheckpoint)  BY <1>1, <1>13, <3>1, DeleteEffect
    <3>2. CASE ~HasH5(MaxCheckpoint)  BY <1>1, <1>13, <3>2, DeleteEffect
    <3> QED BY <3>1, <3>2
  <2>2. NoFile.st = "none"  BY DEF NoFile
  <2>3. FoundCheckpoints' \subseteq FoundCheckpoints /\ \A c \in Chk : HasH5(c)' => HasH5(c)
    BY <2>1, <2>2 DEF FoundCheckpoints, Exists, HasH5
  <2> QED BY <2>1, <2>2, <2>3, ClosedFewer DEF HasAttrs
<1> QED BY <1>1, <1>2, <1>3, <1>4, <1>5, <1>6, <1>7, <1>8, ClosedCheck, <1>9, <1>10, <1>11, ClosedSync,
     <1>12, <1>13
  DEF Next, RankStep, Open, Trial, Save, Collective, Outside, Finished

-----------------------------------------------------------------------------
(* The IDs of the ranks, and the rows that have them.                      *)

\* The IDs of a rank come after all those of the ranks before it.
LEMMA IdsAscend ==
  ASSUME NEW q \in Rank, NEW r \in Rank, q < r
  PROVE  FirstUid(q) + UidStride <= FirstUid(r)
<1>1. PICK d \in Nat : r = q + 1 + d
  <2>1. r - q - 1 \in Nat /\ r = q + 1 + (r - q - 1)  BY DEF Rank
  <2> QED BY <2>1
<1>2. q \in Nat /\ UidStride \in Nat  BY OutputAssumption DEF Rank
<1>3. d * UidStride \in Nat  BY <1>1, <1>2
<1>4. r * UidStride = q * UidStride + UidStride + d * UidStride  BY <1>1, <1>2
<1>5. q * UidStride \in Nat  BY <1>2
<1> QED BY <1>2, <1>3, <1>4, <1>5 DEF FirstUid

LEMMA IdTypes ==
  /\ UidStride \in Nat
  /\ FirstUid(0) = 0
  /\ \A r \in Rank : FirstUid(r) \in Nat /\ \A u \in OwnIds(r) : u \in Nat /\ FirstUid(r) <= u
<1>1. UidStride \in Nat  BY OutputAssumption
<1>2. ASSUME NEW r \in Rank
      PROVE  FirstUid(r) \in Nat
  <2>1. r \in Nat  BY DEF Rank
  <2> QED BY <1>1, <2>1 DEF FirstUid
<1>3. FirstUid(0) = 0  BY <1>1 DEF FirstUid
<1>4. ASSUME NEW r \in Rank, NEW u \in OwnIds(r)
      PROVE  u \in Nat /\ FirstUid(r) <= u
  <2>1. u \in FirstUid(r) .. FirstUid(r) + UidStride - 1  BY DEF OwnIds
  <2>2. PICK f \in Nat : f = FirstUid(r)  BY <1>2
  <2> QED BY <1>1, <2>1, <2>2
<1> QED BY <1>1, <1>2, <1>3, <1>4

LEMMA IdsApart ==
  ASSUME NEW q \in Rank, NEW r \in Rank, q # r, NEW u \in OwnIds(q)
  PROVE  u \notin OwnIds(r) /\ (q < r => u < FirstUid(r))
<1>1. PICK f \in Nat, g \in Nat : f = FirstUid(q) /\ g = FirstUid(r)  BY IdTypes
<1>2. UidStride \in Nat /\ q \in Nat /\ r \in Nat  BY OutputAssumption DEF Rank
<1>3. (q < r => f + UidStride <= g) /\ (r < q => g + UidStride <= f)  BY <1>1, IdsAscend
<1>4. u \in f .. f + UidStride - 1 /\ OwnIds(r) = g .. g + UidStride - 1  BY <1>1 DEF OwnIds
<1> QED BY <1>1, <1>2, <1>3, <1>4

\* The IDs of rows are numbers.
LEMMA RowUids ==
  ASSUME DiskTypeOK
  PROVE  \A c \in Chk : \A row \in RowsIn(c) : row.uid \in Nat
  BY DEF DiskTypeOK, RowsIn, File, Row

LEMMA NoneKept ==
  ASSUME NoNewRows, NEW n, NEW r, NEW c \in 0 .. MaxChk, NoneFrom(n, r, c)
  PROVE  NoneFrom(n, r, c)'
<1>1. \A d \in 0 .. c : d \in Chk  BY OutputAssumption DEF Chk
<1> QED BY <1>1 DEF NoneFrom, NoNewRows, OwnIds, FirstUid

\* Above n there is none above a higher number.
LEMMA NoneHigher ==
  ASSUME DiskTypeOK, NEW n \in Nat, NEW m \in Nat, n <= m, NEW r, NEW c \in Chk, NoneFrom(n, r, c)
  PROVE  NoneFrom(m, r, c)
<1>1. \A d \in 0 .. c : d \in Chk  BY OutputAssumption DEF Chk
<1>2. \A d \in 0 .. c : \A row \in RowsIn(d) : row.uid \in Nat  BY <1>1, RowUids
<1> QED BY <1>2 DEF NoneFrom

\* Where the rank has no file, and nothing is consolidated, it has left no ID.
LEMMA NoOwnIds ==
  ASSUME NoFileNoRows, RowsHaveOwnIds, NEW d \in Chk, ~HasH5(d), NEW r \in Rank,
         files[d][r].st = "none", NEW row \in RowsIn(d)
  PROVE  row.uid \notin OwnIds(r)
<1>1. PICK q \in Rank : row \in files[d][q].rows  BY DEF NoFileNoRows, HasH5, RowsIn
<1>2. q # r  BY <1>1 DEF NoFileNoRows
<1>3. row.uid \in OwnIds(q)  BY <1>1 DEF RowsHaveOwnIds
<1> QED BY <1>2, <1>3, IdsApart

-----------------------------------------------------------------------------
(* The ID a rank draws next, and those its threads have.                   *)

\* The row a trial writes has an ID of its rank, below the next one.
LEMMA NewRow ==
  ASSUME DiskInv, WithinStride, NEW q \in Rank, NEW t \in Thread, WriteTrial(q, t)
  PROVE  /\ pc[q] = "batch" /\ chkNum[q] \in Chk
         /\ task[q][t].uid \in OwnIds(q)
         /\ OnlyFile(chkNum[q], q)
         /\ files'[chkNum[q]][q].rows = files[chkNum[q]][q].rows
              \cup {[trial |-> task[q][t].trial, uid |-> task[q][t].uid]}
         /\ \A c \in Chk : \A x \in RowsIn(c)' :
              x \in RowsIn(c)
                \/ (c = chkNum[q] /\ x = [trial |-> task[q][t].trial, uid |-> task[q][t].uid])
         /\ \A c \in Chk, p \in Rank : \A x \in files'[c][p].rows :
              x \in files[c][p].rows
                \/ (c = chkNum[q] /\ p = q
                     /\ x = [trial |-> task[q][t].trial, uid |-> task[q][t].uid])
<1>1. IInv  BY DEF DiskInv
<1>2. task[q][t].st = "begun" /\ pc[q] = "batch"  BY <1>1 DEF WriteTrial, IInv, TrialsOnlyInBatch
<1>0. PICK k \in Chk : k = chkNum[q]  BY <1>1 DEF IInv, TypeOK
<1> DEFINE new == [trial |-> task[q][t].trial, uid |-> task[q][t].uid]
<1>3. OnlyFile(k, q) /\ files'[k][q].rows = files[k][q].rows \cup {new}  BY <1>0, <1>1, WriteEffect
<1>4. task[q][t].uid \in OwnIds(q)  BY <1>2 DEF WithinStride
<1> HIDE DEF new
<1>5. ASSUME NEW c \in Chk, NEW p \in Rank, NEW x \in files'[c][p].rows
      PROVE  x \in files[c][p].rows \/ (c = k /\ p = q /\ x = new)
  BY <1>3, <1>5 DEF OnlyFile
<1>6. ASSUME NEW c \in Chk, NEW x \in RowsIn(c)'
      PROVE  x \in RowsIn(c) \/ (c = k /\ x = new)
  <2>1. CASE x \in h5'[c].rows  BY <1>3, <2>1 DEF OnlyFile, RowsIn
  <2>2. CASE \E p \in Rank : x \in files'[c][p].rows  BY <1>5, <2>2 DEF RowsIn
  <2> QED BY <1>6, <2>1, <2>2 DEF RowsIn
<1> QED BY <1>0, <1>2, <1>3, <1>4, <1>5, <1>6 DEF new

\* No rank's files get rows with the IDs of another.
LEMMA OwnIdsStep ==
  ASSUME DiskInv, WithinStride, RowsHaveOwnIds, [Next]_vars
  PROVE  RowsHaveOwnIds'
<1>1. CASE \A r \in Rank, t \in Thread : ~WriteTrial(r, t)
  BY <1>1, StepRows DEF DiskInv, NoNewRows, RowsHaveOwnIds, OwnIds, FirstUid
<1>2. ASSUME NEW q \in Rank, NEW t \in Thread, WriteTrial(q, t)
      PROVE  RowsHaveOwnIds'
  <2>1. \A c \in Chk, p \in Rank : \A x \in files'[c][p].rows :
          x \in files[c][p].rows \/ (p = q /\ x.uid \in OwnIds(q))
    BY <1>2, NewRow
  <2> QED BY <2>1 DEF RowsHaveOwnIds, OwnIds, FirstUid
<1> QED BY <1>1, <1>2

\* The next ID goes up by one when a trial begins; a constructor sets it.
LEMMA NextUidMoves ==
  ASSUME IInv, [Next]_vars, NEW r \in Rank, Constructed(r)'
  PROVE  \/ Constructed(r) /\ restart' = restart
              /\ \/ nextUid'[r] = nextUid[r]
                 \/ nextUid'[r] = nextUid[r] + 1 /\ \E t \in Thread : BeginTrial(r, t)
         \/ SetupFresh(r) \/ SetupRestart(r)
<1>1. /\ pc \in [Rank -> {"idle"} \cup CollectivePcs \cup LocalPcs]
      /\ nextUid \in [Rank -> Nat]
  BY DEF IInv, TypeOK
<1> USE DEF Constructed
<1>2. ASSUME NEW n \in RankCounts, NEW again \in BOOLEAN, Launch(n, again)
      PROVE  FALSE
  BY <1>2 DEF Launch
<1>3. Forget => FALSE  BY DEF Forget
<1>4. CASE Finalize \/ Crash  BY <1>3, <1>4 DEF Finalize, Crash
<1>5. CASE \E q \in Rank : Setup(q)
  BY <1>1, <1>5 DEF Setup, SetupThrows, SetupFresh, SetupRestart, ConstructorThrows, sessionVars,
     trialVars
<1>6. CASE \E q \in Rank : Open(q)
  BY <1>1, <1>6 DEF Open, OpenThrows, OpenCheck, MakeDir, OpenFiles, ConstructorThrows, EnterBatch,
     sessionVars, trialVars
<1>7. ASSUME NEW q \in Rank, NEW t \in Thread, Trial(q, t) \/ FailTrial(q, t)
      PROVE  /\ UNCHANGED <<pc, restart>>
             /\ \/ nextUid'[r] = nextUid[r]
                \/ nextUid'[r] = nextUid[r] + 1 /\ BeginTrial(r, t)
  <2>1. CASE BeginTrial(q, t)  BY <1>1, <2>1 DEF BeginTrial, TaskUnchanged, sessionVars
  <2>2. CASE ~BeginTrial(q, t)
    BY <1>7, <2>2 DEF Trial, SkipTrial, WriteTrial, FinishTrial, FailTrial, TaskUnchanged,
       sessionVars
  <2> QED BY <2>1, <2>2
<1>8. CASE \E q \in Rank : Batch(q) \/ Save(q) \/ Merge(q)
  BY <1>1, <1>8 DEF Batch, BatchFailed, BatchDone, Save, Close, SyncRead, SyncWrite, Merge,
     MergeSkip, MergeCopy, MergeAppend, MergeClose, MergeUnlink, MergeRemove, MergeDone, sessionVars, trialVars,
     BatchOver
<1>9. CASE Reduce \/ Barrier
  BY <1>1, <1>9 DEF Reduce, Barrier, AfterBarrier, sessionVars, trialVars, Active
<1>10. CASE DeleteUnreadable \/ (\E q \in Rank : SigtermArrives(q)) \/ UNCHANGED vars
  BY <1>10 DEF DeleteUnreadable, SigtermArrives, vars, sessionVars, trialVars
<1> QED
  BY <1>2, <1>4, <1>5, <1>6, <1>7, <1>8, <1>9, <1>10
  DEF Next, RankStep, Collective, Outside, Finished

\* NoneFrom(n, r, MaxChk) after a step, n being what it is after it.
NoneAfter(n, r) ==
  \A d \in Chk : \A row \in RowsIn(d)' : row.uid \in OwnIds(r) => row.uid < n

\* With no checkpoint on disk there is no row.
LEMMA NoRowsWithout ==
  ASSUME DiskInv, NoFileNoRows, FoundCheckpoints = {}
  PROVE  \A c \in Chk : RowsIn(c) = {}
<1> SUFFICES ASSUME NEW c \in Chk
             PROVE  RowsIn(c) = {}
  OBVIOUS
<1>1. ~HasH5(c) /\ \A q \in Rank : files[c][q].st = "none"  BY NothingBeyond DEF DiskInv
<1>2. h5[c].rows = {} /\ \A q \in Rank : files[c][q].rows = {}  BY <1>1 DEF HasH5, NoFileNoRows
<1> QED BY <1>2 DEF RowsIn

\* A restart goes on with an ID above those its rank has left.
LEMMA RestartUidNew ==
  ASSUME DiskInv, NoFileNoRows, RowsHaveOwnIds, UidsSaved, NEW r \in Active, r \in Rank,
         ~UidRefused(r, size)
  PROVE  RestartUid(r) \in Nat /\ FirstUid(r) <= RestartUid(r) /\ NoneFrom(RestartUid(r), r, MaxChk)
<1>0. /\ DiskTypeOK /\ size \in Nat /\ MaxChk \in Chk /\ MaxChk \in Nat
  BY OutputAssumption DEF DiskInv, IInv, TypeOK, Chk
<1>1. CASE UidCheckpoints(r) = {}
  <2>1. \A d \in Chk : ~HasH5(d) /\ files[d][r].st = "none"  BY <1>1 DEF UidCheckpoints
  <2>2. RestartUid(r) = FirstUid(r) /\ FirstUid(r) \in Nat  BY <1>1, IdTypes DEF RestartUid
  <2>3. NoneFrom(RestartUid(r), r, MaxChk)  BY <2>1, NoOwnIds DEF NoneFrom, Chk
  <2> QED BY <2>2, <2>3
<1>2. CASE UidCheckpoints(r) # {}
  <2> DEFINE c == Max(UidCheckpoints(r))
  <2>1. /\ c \in UidCheckpoints(r) /\ c \in Chk
        /\ \A d \in UidCheckpoints(r) : d <= c
    BY <1>2, LastUidCheckpoint DEF UidCheckpoints
  <2>2. \A d \in Chk : d > c => ~HasH5(d) /\ files[d][r].st = "none"
    BY <2>1, OutputAssumption DEF UidCheckpoints, Chk
  <2>3. RestartUid(r) = UidFile(r).uid /\ HasAttrs(UidFile(r))  BY <1>2 DEF RestartUid, UidRefused
  <2>4. UidFile(r) = IF HasH5(c) THEN h5[c] ELSE files[c][r]  BY DEF UidFile
  <2>5. HasH5(c) => r = 0
    <3>1. HasH5(c) => ~(size > 1)  BY <1>2 DEF UidRefused
    <3> QED BY <1>0, <3>1 DEF Active
  <2> HIDE DEF c
  <2>6. UidFile(r).uid \in Nat
    <3>1. h5[c] \in File /\ files[c][r] \in File  BY <1>0, <2>1 DEF DiskTypeOK
    <3>2. \A f \in File : f.uid \in Nat  BY DEF File
    <3> QED BY <2>4, <3>1, <3>2
  <2>7. FirstUid(r) <= RestartUid(r) /\ NoneFrom(RestartUid(r), r, c)
    <3>1. CASE HasH5(c)
      <4>1. h5[c].st = "closed" /\ RestartUid(r) = h5[c].uid  BY <2>3, <2>4, <3>1 DEF HasAttrs
      <4> QED BY <2>1, <2>5, <3>1, <4>1 DEF UidsSaved
    <3>2. CASE ~HasH5(c)
      <4>1. files[c][r].st = "closed" /\ RestartUid(r) = files[c][r].uid
        BY <2>3, <2>4, <3>2 DEF HasAttrs
      <4> QED BY <2>1, <4>1 DEF UidsSaved
    <3> QED BY <3>1, <3>2
  <2>8. ASSUME NEW d \in 0 .. MaxChk, NEW row \in RowsIn(d), row.uid \in OwnIds(r)
        PROVE  row.uid < RestartUid(r)
    <3>1. d \in Chk /\ c \in Int  BY <2>1, OutputAssumption DEF Chk
    <3>2. CASE d > c  BY <2>2, <2>8, <3>1, <3>2, NoOwnIds
    <3>3. CASE d <= c
      <4>1. d \in 0 .. c  BY <3>1, <3>3
      <4> QED BY <2>7, <2>8, <4>1 DEF NoneFrom
    <3> QED BY <3>1, <3>2, <3>3
  <2>9. NoneFrom(RestartUid(r), r, MaxChk)  BY <2>8 DEF NoneFrom
  <2> QED BY <2>3, <2>6, <2>7, <2>9
<1> QED BY <1>1, <1>2

\* What a rank draws next is not on disk.
LEMMA NextUidStep ==
  ASSUME DiskInv, NoFileNoRows, RowsHaveOwnIds, UidsSaved, NextUidNew, TaskUidsNew,
         WithinStride, [Next]_vars
  PROVE  NextUidNew'
<1>0. /\ DiskTypeOK /\ IInv /\ nextUid \in [Rank -> Nat] /\ MaxChk \in 0 .. MaxChk
      /\ MaxChk \in Chk
      /\ pc \in [Rank -> {"idle"} \cup CollectivePcs \cup LocalPcs]
      /\ inRun \in [Rank -> BOOLEAN]
  BY OutputAssumption DEF DiskInv, IInv, TypeOK, Chk
<1> SUFFICES ASSUME NEW r \in Rank, Constructed(r)'
             PROVE  FirstUid(r) <= nextUid'[r]
                      /\ (restart' \/ Knows(r)' => NoneAfter(nextUid'[r], r))
  BY DEF NextUidNew, FirstUid, NoneFrom, NoneAfter, OwnIds, Chk
<1>1. FirstUid(r) \in Nat  BY IdTypes
<1>2. CASE SetupFresh(r)
  <2>1. /\ nextUid'[r] = FirstUid(r) /\ restart' = restart /\ pc'[r] = "open_check"
        /\ inRun' = inRun /\ pc[r] = "setup" /\ UNCHANGED disk
        /\ ~restart \/ FoundCheckpoints = {}
    BY <1>0, <1>2 DEF SetupFresh, sessionVars
  <2>2. ~Knows(r)'
    BY <1>0, <2>1 DEF Knows, NameFree, DirPcs, RunPcs, SyncPcs, IInv, FreshUntilSetup
  <2>3. restart => \A c \in Chk : RowsIn(c)' = {}
    <3>1. restart => \A c \in Chk : RowsIn(c) = {}  BY <2>1, NoRowsWithout
    <3> QED BY <2>1, <3>1 DEF RowsIn, disk
  <2>4. restart => NoneAfter(nextUid'[r], r)  BY <2>3 DEF NoneAfter
  <2> QED BY <1>1, <2>1, <2>2, <2>4
<1>3. CASE SetupRestart(r)
  <2>1. /\ nextUid'[r] = RestartUid(r) /\ UNCHANGED disk /\ ~UidRefused(r, size)
        /\ r \in Active
    <3>1. pc[r] = "setup" /\ ~SetupRefused(r) /\ restart /\ FoundCheckpoints # {}
      BY <1>3 DEF SetupRestart
    <3>2. r \in Active  BY <1>0, <3>1, ActiveRanks
    <3> QED BY <1>0, <1>3, <3>1, <3>2 DEF SetupRestart, SetupRefused
  <2>2. FirstUid(r) <= RestartUid(r) /\ NoneFrom(RestartUid(r), r, MaxChk)  BY <2>1, RestartUidNew
  <2>3. \A c \in Chk : RowsIn(c)' = RowsIn(c)  BY <2>1 DEF RowsIn, disk
  <2>4. NoneAfter(nextUid'[r], r)  BY <2>1, <2>2, <2>3 DEF NoneFrom, NoneAfter, Chk
  <2> QED BY <2>1, <2>2, <2>4
<1>4. CASE /\ Constructed(r) /\ restart' = restart
           /\ \/ nextUid'[r] = nextUid[r]
              \/ nextUid'[r] = nextUid[r] + 1 /\ \E t \in Thread : BeginTrial(r, t)
  <2>1. nextUid[r] \in Nat /\ nextUid'[r] \in Nat /\ nextUid[r] <= nextUid'[r]  BY <1>0, <1>4
  <2>2. FirstUid(r) <= nextUid[r]  BY <1>4 DEF NextUidNew
  <2> SUFFICES ASSUME restart' \/ Knows(r)'
               PROVE  NoneAfter(nextUid'[r], r)
    BY <1>1, <2>1, <2>2
  <2>3. NoneFrom(nextUid[r], r, MaxChk)
    <3>1. CASE restart \/ Knows(r)  BY <1>4, <3>1 DEF NextUidNew
    <3>2. CASE ~restart /\ ~Knows(r)
      <4>1. r \in Active /\ OpenCheck(r) /\ ~inRun[r]
        BY <1>0, <1>4, <3>2, KnowsMoves DEF StaysOn, RollsOver
      <4>2. pc[r] = "open_check" /\ ~Exists(chkNum[r])  BY <4>1 DEF OpenCheck
      <4>3. chkNum[r] = 0  BY <1>0, <3>2, <4>1, <4>2 DEF IInv, SetupReadsDisk
      <4>4. 0 \notin FoundCheckpoints  BY <4>2, <4>3 DEF FoundCheckpoints
      <4>5. FoundCheckpoints = {}
        BY <4>4, OutputAssumption DEF DiskInv, NoGaps, FoundCheckpoints, Chk
      <4>6. \A c \in Chk : RowsIn(c) = {}  BY <4>5, NoRowsWithout
      <4> QED BY <4>6 DEF NoneFrom, Chk
    <3> QED BY <3>1, <3>2
  <2>4. NoneFrom(nextUid'[r], r, MaxChk)  BY <1>0, <2>1, <2>3, NoneHigher
  <2>5. CASE \A q \in Rank, t \in Thread : ~WriteTrial(q, t)
    <3>1. NoNewRows  BY <1>0, <2>5, StepRows
    <3>2. PICK m \in Nat : m = nextUid'[r]  BY <2>1
    <3>3. NoneAfter(m, r)  BY <2>4, <3>1, <3>2 DEF NoneFrom, NoneAfter, NoNewRows, Chk
    <3> QED BY <3>2, <3>3
  <2>6. ASSUME NEW q \in Rank, NEW t \in Thread, WriteTrial(q, t)
        PROVE  NoneAfter(nextUid'[r], r)
    <3>1. \A c \in Chk : \A x \in RowsIn(c)' :
            x \in RowsIn(c) \/ x = [trial |-> task[q][t].trial, uid |-> task[q][t].uid]
      BY <2>6, NewRow
    <3>2. task[q][t].uid \in OwnIds(q) /\ task[q][t].st # "idle"  BY <2>6, NewRow DEF WriteTrial
    <3>3. q = r => task[q][t].uid < nextUid[r]  BY <3>2 DEF TaskUidsNew
    <3>4. task[q][t].uid \in Nat  BY <3>2, IdTypes
    <3>5. ASSUME NEW c \in Chk, NEW x \in RowsIn(c)', x.uid \in OwnIds(r)
          PROVE  x.uid < nextUid'[r]
      <4>1. CASE x \in RowsIn(c)  BY <2>4, <3>5, <4>1 DEF NoneFrom, Chk
      <4>2. CASE x.uid = task[q][t].uid
        <5>1. q = r  BY <3>2, <3>5, <4>2, IdsApart
        <5> QED BY <2>1, <3>3, <3>4, <4>2, <5>1
      <4> QED BY <3>1, <3>5, <4>1, <4>2
    <3> QED BY <3>5 DEF NoneAfter
  <2> QED BY <2>5, <2>6
<1> QED BY <1>0, <1>2, <1>3, <1>4, NextUidMoves

\* The ID of a trial that has no row yet is new.
LEMMA TaskUidsStep ==
  ASSUME DiskInv, IInv', WithinStride, WithinStride', NextUidNew, TaskUidsNew, [Next]_vars
  PROVE  TaskUidsNew'
<1>0. /\ IInv /\ nextUid \in [Rank -> Nat] /\ task \in [Rank -> [Thread -> Task]]
      /\ \A r \in Rank : FirstUid(r) \in Nat
      /\ \A r \in Rank, t \in Thread : task[r][t].uid \in Nat
  <2>1. task \in [Rank -> [Thread -> Task]]  BY DEF DiskInv, IInv, TypeOK
  <2>2. \A r \in Rank, t \in Thread : task[r][t] \in Task  BY <2>1
  <2>3. \A r \in Rank, t \in Thread : task[r][t].uid \in Nat  BY <2>2 DEF Task
  <2> QED BY <2>1, <2>3, IdTypes DEF DiskInv, IInv, TypeOK
<1>1. ASSUME NEW q \in Rank, NEW u \in Thread, BeginTrial(q, u)
      PROVE  TaskUidsNew'
  <2> DEFINE new == [st |-> "begun", trial |-> nextTrial[q], uid |-> nextUid[q]]
  <2>1. /\ pc[q] = "batch" /\ task' = [task EXCEPT ![q][u] = new]
        /\ nextUid' = [nextUid EXCEPT ![q] = @ + 1] /\ UNCHANGED disk
    BY <1>1 DEF BeginTrial
  <2>2. new.st = "begun" /\ new.uid = nextUid[q]  OBVIOUS
  <2> HIDE DEF new
  <2>3. task'[q][u] = new  BY <1>0, <2>1
  <2>4. \A r \in Rank, t \in Thread : r # q \/ t # u => task'[r][t] = task[r][t]  BY <1>0, <2>1
  <2>5. nextUid[q] \in OwnIds(q)  BY <2>2, <2>3 DEF WithinStride, OwnIds, FirstUid
  <2>6. FirstUid(q) <= nextUid[q] /\ NoneFrom(nextUid[q], q, MaxChk)
    BY <2>1 DEF NextUidNew, Constructed, Knows, RunPcs
  <2>7. ASSUME NEW c \in Chk, NEW row \in RowsIn(c)
        PROVE  row.uid # nextUid[q]
    <3>1. row.uid \in OwnIds(q) => row.uid < nextUid[q]  BY <2>6 DEF NoneFrom, Chk
    <3> QED BY <1>0, <2>5, <3>1
  <2>8. \A c \in Chk : RowsIn(c)' = RowsIn(c)  BY <2>1 DEF RowsIn, disk
  <2>9. /\ nextUid'[q] = nextUid[q] + 1
        /\ \A r \in Rank \ {q} : nextUid'[r] = nextUid[r]
    BY <1>0, <2>1
  <2>10. ASSUME NEW r \in Rank, NEW t \in Thread, task'[r][t].st # "idle"
         PROVE  /\ FirstUid(r) <= task'[r][t].uid /\ task'[r][t].uid < nextUid'[r]
                /\ \A p \in Thread \ {t} :
                     task'[r][p].st # "idle" => task'[r][p].uid # task'[r][t].uid
                /\ task'[r][t].st = "begun" =>
                     \A c \in Chk : \A row \in RowsIn(c)' : row.uid # task'[r][t].uid
    <3>1. CASE r = q /\ t = u
      <4>1. \A p \in Thread \ {t} : task[r][p].st # "idle" => task[r][p].uid < nextUid[q]
        BY <3>1 DEF TaskUidsNew
      <4>2. \A p \in Thread \ {t} : task'[r][p].st # "idle" => task'[r][p].uid # nextUid[q]
        BY <1>0, <2>4, <3>1, <4>1
      <4> QED BY <1>0, <2>2, <2>3, <2>6, <2>7, <2>8, <2>9, <3>1, <4>2
    <3>2. CASE r # q \/ t # u
      <4>1. task'[r][t] = task[r][t] /\ task[r][t].st # "idle"  BY <2>4, <2>10, <3>2
      <4>2. /\ FirstUid(r) <= task[r][t].uid /\ task[r][t].uid < nextUid[r]
            /\ \A p \in Thread \ {t} : task[r][p].st # "idle" => task[r][p].uid # task[r][t].uid
            /\ task[r][t].st = "begun" =>
                 \A c \in Chk : \A row \in RowsIn(c) : row.uid # task[r][t].uid
        BY <4>1 DEF TaskUidsNew, RowsOnDisk
      <4>3. task[r][t].uid < nextUid'[r]  BY <1>0, <2>9, <4>2
      <4>4. \A p \in Thread \ {t} : task'[r][p].st # "idle" => task'[r][p].uid # task[r][t].uid
        <5>1. ASSUME NEW p \in Thread \ {t}, task'[r][p].st # "idle"
              PROVE  task'[r][p].uid # task[r][t].uid
          <6>1. CASE r = q /\ p = u  BY <1>0, <2>2, <2>3, <4>2, <6>1
          <6>2. CASE r # q \/ p # u  BY <2>4, <4>2, <5>1, <6>2
          <6> QED BY <6>1, <6>2
        <5> QED BY <5>1
      <4> QED BY <2>8, <4>1, <4>2, <4>3, <4>4
    <3> QED BY <3>1, <3>2
  <2> QED BY <2>10 DEF TaskUidsNew, RowsOnDisk, FirstUid
<1>2. CASE Forget  BY <1>2, TasksForgotten DEF TaskUidsNew
<1>3. ASSUME NEW q \in Rank, NEW u \in Thread, WriteTrial(q, u)
      PROVE  TaskUidsNew'
  <2>1. /\ task' = [task EXCEPT ![q][u].st = "written"] /\ nextUid' = nextUid
        /\ task[q][u].st = "begun"
    BY <1>3 DEF WriteTrial
  <2>2. \A r \in Rank, t \in Thread :
          /\ task'[r][t].uid = task[r][t].uid
          /\ task'[r][t].st # "idle" => task[r][t].st # "idle"
          /\ task'[r][t].st = "begun" => task[r][t].st = "begun" /\ (r # q \/ t # u)
    <3>1. \A r \in Rank, t \in Thread :
            task'[r][t] = IF r = q /\ t = u THEN [task[r][t] EXCEPT !.st = "written"]
                          ELSE task[r][t]
      BY <1>0, <2>1
    <3>2. \A r \in Rank, t \in Thread : task[r][t] \in Task  BY <1>0
    <3> QED BY <2>1, <3>1, <3>2 DEF Task
  <2>3. \A c \in Chk : \A x \in RowsIn(c)' :
          x \in RowsIn(c) \/ x = [trial |-> task[q][u].trial, uid |-> task[q][u].uid]
    BY <1>3, NewRow
  <2>4. ASSUME NEW r \in Rank, NEW t \in Thread, task[r][t].st = "begun", r # q \/ t # u
        PROVE  task[r][t].uid # task[q][u].uid
    <3>1. CASE r = q  BY <2>1, <2>4, <3>1 DEF TaskUidsNew
    <3>2. CASE r # q  BY <2>1, <2>4, <3>2, IdsApart DEF WithinStride
    <3> QED BY <3>1, <3>2
  <2>5. ASSUME NEW r \in Rank, NEW t \in Thread, task'[r][t].st = "begun", NEW c \in Chk,
               NEW row \in RowsIn(c)'
        PROVE  row.uid # task[r][t].uid
    <3>1. task[r][t].st = "begun" /\ (r # q \/ t # u)  BY <2>2, <2>5
    <3>2. CASE row \in RowsIn(c)  BY <3>1, <3>2 DEF TaskUidsNew, RowsOnDisk
    <3> QED BY <2>3, <2>4, <2>5, <3>1, <3>2
  <2> QED BY <2>1, <2>2, <2>5 DEF TaskUidsNew, RowsOnDisk, FirstUid
<1>4. CASE ~Forget /\ (\A q \in Rank, u \in Thread : ~WriteTrial(q, u) /\ ~BeginTrial(q, u))
  <2>1. NoNewRows  BY <1>0, <1>4, StepRows
  <2>2. \A r \in Rank, t \in Thread : task'[r][t] = task[r][t] \/ task'[r][t].st = "idle"
    <3>1. ASSUME NEW q \in Rank, NEW u \in Thread, FinishTrial(q, u) \/ FailTrial(q, u)
          PROVE  \A r \in Rank, t \in Thread :
                   task'[r][t] = task[r][t] \/ task'[r][t].st = "idle"
      <4>1. task' = [task EXCEPT ![q][u] = Idle] /\ Idle.st = "idle"
        BY <3>1 DEF FinishTrial, FailTrial, Idle
      <4> QED BY <1>0, <4>1
    <3> QED BY <1>0, <1>4, <3>1, TaskChange
  <2>3. ASSUME NEW r \in Rank, NEW t \in Thread, task'[r][t].st # "idle"
        PROVE  nextUid'[r] = nextUid[r]
    <3>1. pc'[r] = "batch"  BY <2>3 DEF IInv, TrialsOnlyInBatch
    <3>2. pc[r] = "batch"  BY <1>0, <2>2, <2>3 DEF IInv, TrialsOnlyInBatch
    <3> QED BY <1>0, <1>4, <3>1, <3>2, NextUidMoves DEF Constructed, SetupFresh, SetupRestart
  <2>4. \A c \in Chk : RowsIn(c)' \subseteq RowsIn(c)  BY <2>1 DEF NoNewRows
  <2> QED BY <2>2, <2>3, <2>4 DEF TaskUidsNew, RowsOnDisk, FirstUid
<1> QED BY <1>1, <1>2, <1>3, <1>4

-----------------------------------------------------------------------------
(* The ID a restart goes on with.                                          *)

\* A closed file keeps the ID a restart goes on with.
LEMMA FileUidKept ==
  ASSUME IInv, FilesOpened, [Next]_vars, NEW c \in Chk, NEW r \in Rank,
         files[c][r].st = "closed", files'[c][r].st = "closed"
  PROVE  files'[c][r].uid = files[c][r].uid
<1>1. /\ chkNum \in [Rank -> Chk] /\ sync.next \in Rank
      /\ \A d \in Chk, q \in Rank : files[d][q] \in File
  BY DEF IInv, TypeOK, DiskTypeOK
<1>2. CASE UNCHANGED files  BY <1>2
<1>3. ASSUME NEW q \in Rank, MakeDir(q)
      PROVE  UNCHANGED files
  BY <1>3 DEF MakeDir, CreateDirectory
<1>4. ASSUME NEW q \in Rank, OpenFiles(q) \/ Close(q) \/ \E t \in Thread : WriteTrial(q, t)
      PROVE  files'[c][r] = files[c][r]
  <2>1. /\ OnlyFile(chkNum[q], q)
        /\ files[chkNum[q]][q].st # "closed" \/ files'[chkNum[q]][q].st # "closed"
    <3>1. CASE OpenFiles(q)  BY <1>1, <3>1, OpenEffect
    <3>2. CASE Close(q)
      <4>1. pc[q] = "close" /\ OnlyFile(chkNum[q], q)  BY <3>2, CloseEffect DEF Close
      <4> QED BY <4>1 DEF FilesOpened, HasFile, OwnFile
    <3>3. ASSUME NEW t \in Thread, WriteTrial(q, t)
          PROVE  /\ OnlyFile(chkNum[q], q) /\ files[chkNum[q]][q].st # "closed"
      <4>1. pc[q] = "batch" /\ OnlyFile(chkNum[q], q)
        BY <3>3, WriteEffect DEF WriteTrial, IInv, TrialsOnlyInBatch
      <4> QED BY <4>1 DEF FilesOpened, HasFile, OwnFile
    <3> QED BY <1>4, <3>1, <3>2, <3>3
  <2> QED BY <2>1 DEF OnlyFile
<1>5. ASSUME NEW q \in Rank, NEW t \in Thread, FinishTrial(q, t)
      PROVE  files'[c][r].uid = files[c][r].uid
  <2>1. PICK k \in Chk : k = chkNum[q]  BY <1>1
  <2>2. /\ OnlyFile(k, q)
        /\ files'[k][q] = [files[k][q] EXCEPT !.done = files[k][q].done \cup {task[q][t].trial}]
    BY <1>5, <2>1, FinishEffect
  <2>3. files[k][q] \in File  BY <1>1
  <2>4. files'[k][q].uid = files[k][q].uid  BY <2>2, <2>3 DEF File
  <2> QED BY <2>2, <2>4 DEF OnlyFile
<1>6. ASSUME NEW q \in Rank, SyncWrite(q)
      PROVE  files'[c][r].uid = files[c][r].uid
  <2>1. PICK k \in Chk, n \in Rank : k = chkNum[q] /\ n = sync.next  BY <1>1
  <2>2. /\ OnlyFile(k, n)
        /\ files'[k][n] = [files[k][n] EXCEPT !.tc = sync.tc, !.mx = sync.mx]
    BY <1>6, <2>1, SyncEffect
  <2>3. files[k][n] \in File  BY <1>1
  <2>4. files'[k][n].uid = files[k][n].uid  BY <2>2, <2>3 DEF File
  <2> QED BY <2>2, <2>4 DEF OnlyFile
<1>7. ASSUME NEW q \in Rank, Merge(q)
      PROVE  files'[c][r] = files[c][r]
  BY <1>7, MergeEffect DEF NoFile
<1>8. ASSUME Crash
      PROVE  files'[c][r].uid = files[c][r].uid
  <2>1. files'[c][r] = [files[c][r] EXCEPT !.st = files'[c][r].st] /\ files[c][r] \in File
    BY <1>1, <1>8, CrashEffect
  <2> QED BY <2>1 DEF File
<1>9. ASSUME DeleteUnreadable
      PROVE  files'[c][r] = files[c][r]
  BY <1>9, DeleteEffect DEF NoFile
<1> QED BY <1>2, <1>3, <1>4, <1>5, <1>6, <1>7, <1>8, <1>9, DiskSteps DEF DiskStep, disk

\* A consolidated file has the ID of the file that was copied first.
LEMMA H5UidMoves ==
  ASSUME IInv, [Next]_vars, NEW c \in Chk, h5'[c].st \in {"open", "closed"}
  PROVE  \/ h5[c].st \in {"open", "closed"} /\ h5'[c].uid = h5[c].uid
         \/ /\ pc[0] = "merge" /\ RanksIn(c) # {}
            /\ h5'[c].uid = files[c][Min(RanksIn(c))].uid
<1>1. \A d \in Chk : h5[d] \in File /\ \A q \in Rank : files[d][q] \in File
  BY DEF IInv, TypeOK, DiskTypeOK
<1>2. CASE UNCHANGED h5  BY <1>2
<1>3. ASSUME NEW r \in Rank, MakeDir(r) \/ OpenFiles(r) \/ Close(r) \/ SyncWrite(r)
      PROVE  UNCHANGED h5
  BY <1>3, OpenEffect, CloseEffect, SyncEffect DEF MakeDir, CreateDirectory, OnlyFile
<1>4. ASSUME NEW r \in Rank, NEW t \in Thread, WriteTrial(r, t) \/ FinishTrial(r, t)
      PROVE  UNCHANGED h5
  BY <1>4, WriteEffect, FinishEffect DEF OnlyFile
<1>5. ASSUME NEW r \in Rank, Merge(r)
      PROVE  \/ h5[c].st \in {"open", "closed"} /\ h5'[c].uid = h5[c].uid
             \/ /\ pc[0] = "merge" /\ RanksIn(c) # {}
                /\ h5'[c].uid = files[c][Min(RanksIn(c))].uid
  <2>1. pc[0] = "merge"
    BY <1>5, MergeAlone
    DEF Merge, MergeSkip, MergeCopy, MergeAppend, MergeClose, MergeUnlink, MergeRemove, MergeDone
  <2>2. CASE UNCHANGED h5 \/ c # merge.chk
    <3>1. h5'[c] = h5[c]  BY <1>5, <2>2, MergeEffect
    <3> QED BY <3>1
  <2>3. CASE c = merge.chk /\ ~UNCHANGED h5
    <3>1. \/ /\ MergeCopy(r) /\ Min(RanksIn(c)) \in RanksIn(c)
             /\ h5'[c] = [files[c][Min(RanksIn(c))] EXCEPT !.st = "open"]
          \/ h5'[c].st = h5[c].st /\ h5'[c].uid = h5[c].uid
          \/ h5[c].st = "open" /\ h5'[c] = [h5[c] EXCEPT !.st = "closed"]
      BY <1>5, <2>3, MergeEffect
    <3>2. CASE /\ MergeCopy(r) /\ Min(RanksIn(c)) \in RanksIn(c)
               /\ h5'[c] = [files[c][Min(RanksIn(c))] EXCEPT !.st = "open"]
      <4>1. PICK q \in Rank : q = Min(RanksIn(c)) /\ q \in RanksIn(c)  BY <3>2 DEF RanksIn
      <4>2. h5'[c] = [files[c][q] EXCEPT !.st = "open"] /\ files[c][q] \in File  BY <1>1, <3>2, <4>1
      <4>3. h5'[c].uid = files[c][q].uid  BY <4>2 DEF File
      <4> QED BY <2>1, <4>1, <4>3
    <3>3. CASE h5[c].st = "open" /\ h5'[c] = [h5[c] EXCEPT !.st = "closed"]
      <4>1. h5[c] \in File  BY <1>1
      <4>2. h5'[c].uid = h5[c].uid  BY <3>3, <4>1 DEF File
      <4> QED BY <3>3, <4>2
    <3> QED BY <3>1, <3>2, <3>3
  <2> QED BY <2>2, <2>3
<1>6. ASSUME Crash
      PROVE  h5[c].st \in {"open", "closed"} /\ h5'[c].uid = h5[c].uid
  <2>1. /\ h5'[c] = [h5[c] EXCEPT !.st = h5'[c].st]
        /\ h5'[c].st \in IF h5[c].st = "open" THEN {"torn", "closed"} ELSE {h5[c].st}
    BY <1>6, CrashEffect
  <2>2. h5[c] \in File  BY <1>1
  <2>3. h5'[c].uid = h5[c].uid  BY <2>1, <2>2 DEF File
  <2> QED BY <2>1, <2>3
<1>7. ASSUME DeleteUnreadable
      PROVE  h5'[c] = h5[c]
  BY <1>7, DeleteEffect DEF NoFile
<1> QED BY <1>2, <1>3, <1>4, <1>5, <1>6, <1>7, DiskSteps DEF DiskStep, disk

\* What is saved as the next ID of a rank: no row before, or in that checkpoint, has
\* one as high, and none gets one.
LEMMA NoneStays ==
  ASSUME DiskInv, OwnInv, WithinStride, [Next]_vars, NEW c \in Chk, NEW r \in Rank,
         NEW n \in Nat, NoneFrom(n, r, c),
         HasH5(c) \/ files[c][r].st = "closed"
  PROVE  NoneFrom(n, r, c)'
<1>1. CASE \A q \in Rank, t \in Thread : ~WriteTrial(q, t)
  <2>1. NoNewRows /\ c \in 0 .. MaxChk  BY <1>1, StepRows DEF DiskInv, Chk
  <2> QED BY <2>1, NoneKept
<1>2. ASSUME NEW q \in Rank, NEW t \in Thread, WriteTrial(q, t)
      PROVE  NoneFrom(n, r, c)'
  <2>1. /\ pc[q] = "batch" /\ chkNum[q] \in Chk /\ task[q][t].uid \in OwnIds(q)
        /\ \A d \in Chk : \A x \in RowsIn(d)' :
             x \in RowsIn(d) \/ (d = chkNum[q] /\ x.uid = task[q][t].uid)
    BY <1>2, NewRow
  <2>2. CASE q # r
    <3>1. ASSUME NEW d \in Chk, NEW x \in RowsIn(d)', x.uid \in OwnIds(r)
          PROVE  x \in RowsIn(d)
      BY <2>1, <2>2, <3>1, IdsApart
    <3> QED BY <3>1, OutputAssumption DEF NoneFrom, Chk, OwnIds, FirstUid
  <2>3. CASE q = r
    <3>1. /\ \A d \in Chk : d > chkNum[q] => ~HasH5(d) /\ RanksIn(d) = {}
          /\ ~HasH5(chkNum[q])
      BY <2>1, LastOne DEF RunPcs
    <3>2. files[chkNum[r]][r].st = "open"  BY <2>1, <2>3 DEF OwnInv, FilesOpened, HasFile, OwnFile
    <3>3. c < chkNum[q]  BY <2>1, <2>3, <3>1, <3>2, OutputAssumption DEF RanksIn, Chk
    <3>4. \A d \in 0 .. c : d \in Chk /\ d # chkNum[q]  BY <2>1, <3>3, OutputAssumption DEF Chk
    <3> QED BY <2>1, <3>4 DEF NoneFrom, OwnIds, FirstUid
  <2> QED BY <2>2, <2>3
<1> QED BY <1>1, <1>2

\* Every file that can be read has an ID to go on with.
LEMMA UidsSavedStep ==
  ASSUME DiskInv, OwnInv, WithinStride, NextUidNew, EarlierClosed, UidsSaved, [Next]_vars
  PROVE  UidsSaved'
<1>0. /\ IInv /\ FilesOpened /\ DiskTypeOK /\ nextUid \in [Rank -> Nat] /\ 0 \in Rank
      /\ \A c \in Chk : h5[c].uid \in Nat /\ \A q \in Rank : files[c][q].uid \in Nat
  <2>1. DiskTypeOK  BY DEF DiskInv, IInv, TypeOK
  <2>2. \A c \in Chk : h5[c] \in File /\ \A q \in Rank : files[c][q] \in File
    BY <2>1 DEF DiskTypeOK
  <2>3. \A c \in Chk : h5[c].uid \in Nat /\ \A q \in Rank : files[c][q].uid \in Nat
    BY <2>2 DEF File
  <2>4. 0 \in Rank  BY OutputAssumption DEF Rank
  <2> QED BY <2>1, <2>3, <2>4 DEF DiskInv, IInv, TypeOK, OwnInv
<1>1. ASSUME NEW c \in Chk, NEW r \in Rank, files'[c][r].st = "closed"
      PROVE  \E n \in Nat : n = files'[c][r].uid /\ FirstUid(r) <= n /\ NoneFrom(n, r, c)'
  <2>1. CASE files[c][r].st = "closed"
    <3>1. PICK n \in Nat : n = files[c][r].uid  BY <1>0
    <3>2. files'[c][r].uid = n  BY <1>0, <1>1, <2>1, <3>1, FileUidKept
    <3>3. FirstUid(r) <= n /\ NoneFrom(n, r, c)  BY <2>1, <3>1 DEF UidsSaved
    <3>4. NoneFrom(n, r, c)'  BY <2>1, <3>3, NoneStays
    <3> QED BY <3>2, <3>3, <3>4
  <2>2. CASE Close(r) /\ c = chkNum[r]
    <3>1. PICK n \in Nat : n = nextUid[r]  BY <1>0
    <3>2. files'[c][r] = [files[c][r] EXCEPT !.st = "closed", !.tc = TrialsCompleted(r),
                                             !.mx = maxTrial[r], !.uid = n]
      BY <1>0, <2>2, <3>1, CloseEffect
    <3>3. files[c][r] \in File  BY <1>0 DEF DiskTypeOK
    <3>4. files'[c][r].uid = n  BY <3>2, <3>3 DEF File
    <3>5. pc[r] = "close"  BY <2>2 DEF Close
    <3>6. FirstUid(r) <= n /\ NoneFrom(n, r, MaxChk)
      BY <3>1, <3>5 DEF NextUidNew, Constructed, Knows, RunPcs
    <3>7. \A q \in Rank, t \in Thread : ~WriteTrial(q, t)
      <4>1. SUFFICES ASSUME NEW q \in Rank, NEW t \in Thread, WriteTrial(q, t)
                     PROVE  FALSE
        OBVIOUS
      <4>2. pc[q] = "batch" /\ pc' = pc
        BY <1>0, <4>1 DEF WriteTrial, IInv, TrialsOnlyInBatch, TaskUnchanged
      <4>3. pc' = [pc EXCEPT ![r] = "closed"] /\ pc[r] = "close" /\ r \in DOMAIN pc
        BY <1>0, <2>2 DEF Close, IInv, TypeOK
      <4> QED BY <4>2, <4>3
    <3>8. NoNewRows  BY <1>0, <3>7, StepRows
    <3>9. \A d \in 0 .. c : d \in Chk /\ d \in 0 .. MaxChk  BY OutputAssumption DEF Chk
    <3>10. NoneFrom(n, r, c)'  BY <3>6, <3>8, <3>9 DEF NoneFrom, NoNewRows, OwnIds, FirstUid
    <3> QED BY <3>4, <3>6, <3>10
  <2> QED BY <1>0, <1>1, <2>1, <2>2, ClosedMoves
<1>2. ASSUME NEW c \in Chk, h5'[c].st \in {"open", "closed"}
      PROVE  \E n \in Nat : n = h5'[c].uid /\ FirstUid(0) <= n /\ NoneFrom(n, 0, c)'
  <2>1. CASE h5[c].st \in {"open", "closed"} /\ h5'[c].uid = h5[c].uid
    <3>1. PICK n \in Nat : n = h5[c].uid  BY <1>0
    <3>2. FirstUid(0) <= n /\ NoneFrom(n, 0, c) /\ HasH5(c)  BY <2>1, <3>1 DEF UidsSaved, HasH5
    <3>3. NoneFrom(n, 0, c)'  BY <1>0, <3>2, NoneStays
    <3> QED BY <2>1, <3>1, <3>2, <3>3
  <2>2. CASE /\ pc[0] = "merge" /\ RanksIn(c) # {}
             /\ h5'[c].uid = files[c][Min(RanksIn(c))].uid
    <3>1. PICK q \in Rank : q \in RanksIn(c) /\ q = Min(RanksIn(c))
      <4>1. RanksIn(c) \in SUBSET Rank  BY DEF RanksIn
      <4> QED BY <2>2, <4>1, MinOfRanks
    <3>2. files[c][q].st = "closed"  BY <2>2, <3>1 DEF EarlierClosed, HasAttrs
    <3>3. PICK n \in Nat : n = files[c][q].uid  BY <1>0
    <3>4. FirstUid(q) <= n /\ NoneFrom(n, q, c) /\ h5'[c].uid = n
      BY <2>2, <3>1, <3>2, <3>3 DEF UidsSaved
    <3>5. NoneFrom(n, 0, c)
      <4>1. CASE q = 0  BY <3>4, <4>1
      <4>2. CASE q # 0
        <5>1. 0 < q  BY <4>2, OutputAssumption DEF Rank
        <5>2. \A u \in OwnIds(0) : u < FirstUid(q) /\ u \in Nat  BY <1>0, <5>1, IdsApart, IdTypes
        <5>3. FirstUid(q) \in Nat  BY IdTypes
        <5>4. \A u \in OwnIds(0) : u < n  BY <3>4, <5>2, <5>3
        <5> QED BY <5>4 DEF NoneFrom
      <4> QED BY <4>1, <4>2
    <3>6. FirstUid(0) <= n  BY IdTypes
    <3>7. \A p \in Rank, t \in Thread : ~WriteTrial(p, t)
      <4>1. SUFFICES ASSUME NEW p \in Rank, NEW t \in Thread, WriteTrial(p, t)
                     PROVE  FALSE
        OBVIOUS
      <4>2. pc[p] = "batch"  BY <1>0, <4>1 DEF WriteTrial, IInv, TrialsOnlyInBatch
      <4>3. pc[p] \in EndPcs \cup {"idle"}  BY <1>0, <2>2, MergeAlone
      <4> QED BY <4>2, <4>3 DEF EndPcs
    <3>8. NoneFrom(n, 0, c)'
      <4>1. NoNewRows /\ c \in 0 .. MaxChk  BY <1>0, <3>7, StepRows DEF Chk
      <4> QED BY <3>5, <4>1, NoneKept
    <3> QED BY <3>4, <3>6, <3>8
  <2> QED BY <1>0, <1>2, <2>1, <2>2, H5UidMoves
<1> QED BY <1>1, <1>2 DEF UidsSaved, NoneFrom, OwnIds, FirstUid

LEMMA UidsMean ==
  UidsUnique <=>
    /\ \A c, d \in Chk : \A x \in RowsIn(c), y \in RowsIn(d) :
         x.uid = y.uid => c = d /\ x = y
    /\ \A c \in Chk, q, r \in Rank : q # r =>
         \A x \in files[c][q].rows, y \in files[c][r].rows : x.uid # y.uid
  BY DEF UidsUnique, OneOwner, OneRank

\* A trial brings no ID twice.
LEMMA UidsUniqueStep ==
  ASSUME DiskInv, WithinStride, TaskUidsNew, UidsUnique, [Next]_vars
  PROVE  UidsUnique'
<1>1. CASE \A r \in Rank, t \in Thread : ~WriteTrial(r, t)
  <2>1. NoNewRows  BY <1>1, StepRows DEF DiskInv
  <2>2. /\ \A c, d \in Chk : \A x \in RowsIn(c)', y \in RowsIn(d)' :
             x.uid = y.uid => c = d /\ x = y
        /\ \A c \in Chk, q, r \in Rank : q # r =>
             \A x \in files'[c][q].rows, y \in files'[c][r].rows : x.uid # y.uid
    BY <2>1, UidsMean DEF NoNewRows
  <2> QED BY <2>2 DEF UidsUnique, OneOwner, OneRank
<1>2. ASSUME NEW r \in Rank, NEW t \in Thread, WriteTrial(r, t)
      PROVE  UidsUnique'
  <2> DEFINE new == [trial |-> task[r][t].trial, uid |-> task[r][t].uid]
  <2>1. PICK k \in Chk : k = chkNum[r]  BY <1>2, NewRow
  <2>2. /\ \A c \in Chk : \A x \in RowsIn(c)' : x \in RowsIn(c) \/ (c = k /\ x = new)
        /\ \A c \in Chk, p \in Rank : \A x \in files'[c][p].rows :
             x \in files[c][p].rows \/ (c = k /\ p = r /\ x = new)
    BY <1>2, <2>1, NewRow
  <2>3. \A d \in Chk : \A y \in RowsIn(d) : y.uid # new.uid
    BY <1>2 DEF WriteTrial, TaskUidsNew, RowsOnDisk
  <2> HIDE DEF new
  <2>4. \A c, d \in Chk : \A x \in RowsIn(c)', y \in RowsIn(d)' :
          x.uid = y.uid => c = d /\ x = y
    BY <2>2, <2>3, UidsMean
  <2>5. \A c \in Chk, p, q \in Rank : p # q =>
          \A x \in files'[c][p].rows, y \in files'[c][q].rows : x.uid # y.uid
    BY <2>2, <2>3, UidsMean, RowsOfFile
  <2> QED BY <2>4, <2>5 DEF UidsUnique, OneOwner, OneRank
<1> QED BY <1>1, <1>2

-----------------------------------------------------------------------------

LEMMA InitUids == Init => UidInv
<1> SUFFICES ASSUME Init
             PROVE  UidInv
  OBVIOUS
<1>1. DiskInv  BY InitDisk
<1>2. /\ \A c \in Chk : ~HasH5(c) /\ h5[c].rows = {} /\ h5[c].st = "none"
      /\ \A c \in Chk, q \in Rank : files[c][q].st = "none" /\ files[c][q].rows = {}
      /\ FoundCheckpoints = {}
  BY DEF Init, DiskInit, NoFile, HasH5, FoundCheckpoints, Exists
<1>3. \A r \in Rank : pc[r] = "idle" /\ ~inRun[r] /\ \A t \in Thread : task[r][t].st = "idle"
  BY DEF Init, Idle
<1>4. \A r \in Rank : ~HasFile(r) /\ ~Knows(r) /\ ~Constructed(r)
  BY <1>3 DEF HasFile, Knows, NameFree, DirPcs, RunPcs, SyncPcs, Constructed
<1>5. NoFileNoRows /\ FilesOpened /\ OnlyOurFiles /\ SetupReads
  BY <1>2, <1>3, <1>4 DEF NoFileNoRows, FilesOpened, OnlyOurFiles, SetupReads
<1>6. \A c \in Chk : RanksIn(c) = {} /\ RowsIn(c) = {}  BY <1>2 DEF RanksIn, RowsIn
<1>7. RowsHaveOwnIds /\ NextUidNew /\ TaskUidsNew /\ EarlierClosed /\ UidsSaved
  BY <1>2, <1>3, <1>4, <1>6
  DEF RowsHaveOwnIds, NextUidNew, TaskUidsNew, EarlierClosed, UidsSaved
<1>8. UidsUnique  BY <1>2, <1>6, UidsMean
<1> QED BY <1>1, <1>5, <1>7, <1>8 DEF UidInv

LEMMA NextUids == UidInv /\ WithinStride /\ WithinStride' /\ [Next]_vars => UidInv'
<1> SUFFICES ASSUME UidInv, WithinStride, WithinStride', [Next]_vars
             PROVE  UidInv'
  OBVIOUS
<1>1. /\ DiskInv /\ IInv /\ MergedSoFar /\ NoFileNoRows /\ FilesOpened /\ OwnInv /\ SetupReads
      /\ RowsHaveOwnIds /\ NextUidNew /\ TaskUidsNew /\ EarlierClosed /\ UidsSaved /\ UidsUnique
  BY DEF UidInv, DiskInv, OwnInv
<1>2. DiskInv' /\ IInv'  BY <1>1, NextDisk DEF DiskInv
<1>3. NoFileNoRows' /\ OwnInv' /\ SetupReads' /\ EarlierClosed'
  BY <1>1, NoFileStep, OwnStep, SetupReadsStep, ClosedStep
<1>4. RowsHaveOwnIds' /\ NextUidNew' /\ TaskUidsNew'
  BY <1>1, <1>2, OwnIdsStep, NextUidStep, TaskUidsStep
<1>5. UidsSaved' /\ UidsUnique'  BY <1>1, UidsSavedStep, UidsUniqueStep
<1> QED BY <1>2, <1>3, <1>4, <1>5 DEF UidInv, OwnInv

\* Whatever faults there are, what the unique IDs rest on holds in every session of a run.
THEOREM UidsInductive == Spec /\ []WithinStride => []UidInv
  BY InitUids, NextUids, PTL DEF Spec

\* No two trials on disk have the same unique ID: neither of two ranks, nor of a rank
\* before and after a restart on another number of ranks, after a crash or a trial
\* that threw, or from a consolidated checkpoint.
THEOREM UidsAreUnique == Spec /\ []WithinStride => []UidsUnique
<1>1. UidInv => UidsUnique  BY DEF UidInv
<1> QED BY <1>1, UidsInductive, PTL

=============================================================================
