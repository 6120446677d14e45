---------------------------- MODULE LedgerProofs ----------------------------
(***************************************************************************)
(* How many trials are done: what the ranks count, what they write into    *)
(* the files of a checkpoint and what a restart reads there. No run does   *)
(* more trials than it was asked for, a restart finds as many as were      *)
(* done, and the checkpoints of a run implement the ledger of TrialLedger. *)
(* The ranks of a session are never left waiting for each other in         *)
(* collectives of different kinds, and a session that ends by itself can   *)
(* be followed by one on any number of ranks.                              *)
(***************************************************************************)
EXTENDS TrialsDoneProofs

USE DEF sessionVars, setupVars, trialVars, signalVars, rootVars

-----------------------------------------------------------------------------
(* The trials of earlier sessions and of this one.                         *)

\* A trial a thread is at work on: above all earlier checkpoints' rows, and there
\* are no later checkpoints.
LEMMA RunningTrial ==
  ASSUME NumbersInv, NEW r \in Rank, NEW t \in Thread, task[r][t].st # "idle"
  PROVE  /\ pc[r] = "batch" /\ r \in Active /\ Knows(r) /\ GoingOn(r) /\ HasFile(r) /\ inRun[r]
         /\ chkNum[r] \in Chk /\ task[r][t].trial \in Nat
         /\ BatchFirst(r) <= task[r][t].trial /\ task[r][t].trial < NumberingEnd(r)
         /\ \A c \in Chk : c > chkNum[r] => RowsIn(c) = {}
         /\ \A c \in Chk : c < chkNum[r] => \A y \in RowsIn(c) : y.trial < task[r][t].trial
<1>1. IInv /\ DiskInv /\ OwnInv /\ pc[r] = "batch"
  BY DEF NumbersInv, DiskInv, IInv, TrialsOnlyInBatch, OwnInv
<1>2. r \in Active /\ Knows(r) /\ GoingOn(r) /\ HasFile(r) /\ inRun[r]
  BY <1>1, ActiveRanks
  DEF Knows, RunPcs, GoingOn, Constructed, Closing, SyncPcs, HasFile, IInv, InRunWhenClosing
<1>3. PICK k \in Chk, n \in Nat : k = chkNum[r] /\ n = task[r][t].trial
  BY <1>1 DEF IInv, TypeOK, Task
<1>4. batchStart[r] < NumberingEnd(r) /\ batchStart[r] \in Nat /\ NumberingEnd(r) \in Nat
      /\ BatchFirst(r) = batchStart[r]
  BY <1>1, <1>2, NumberingType DEF NumbersInv, BatchesTogether, IInv, TypeOK, BatchFirst
<1>5. n \in Taken(r)  BY <1>3 DEF NumbersInv, TasksTaken
<1>6. /\ SliceFirst(r, batchStart[r], BatchEnd(r)) \in Nat /\ SliceLast(r) \in Nat
      /\ batchStart[r] <= SliceFirst(r, batchStart[r], BatchEnd(r))
      /\ SliceLast(r) <= BatchEnd(r)
      /\ BatchEnd(r) \in Nat /\ BatchEnd(r) <= NumberingEnd(r)
  <2>1. batchStart[r] <= NumberingEnd(r)  BY <1>4
  <2> QED BY <1>1, <1>2, <2>1, SliceBounds
<1>7. SliceFirst(r, batchStart[r], BatchEnd(r)) <= n /\ n <= SliceLast(r) - 1
  BY <1>5, <1>6 DEF Taken, OwnSlice
<1>8. BatchFirst(r) <= n /\ n < NumberingEnd(r)  BY <1>4, <1>6, <1>7
<1>9. ASSUME NEW c \in Chk, c > k
      PROVE  RowsIn(c) = {}
  <2>1. ~HasH5(c) /\ RanksIn(c) = {}  BY <1>1, <1>3, <1>9, LastOne DEF RunPcs
  <2> QED BY <2>1 DEF RowsIn, RanksIn, HasH5, NumbersInv, NoFileNoRows
<1>10. ASSUME NEW c \in Chk, c < k, NEW y \in RowsIn(c)
       PROVE  y.trial < n
  <2>1. y \in EarlierRows(r)  BY <1>3, <1>10 DEF EarlierRows
  <2>2. y.trial < BatchFirst(r) /\ y.trial \in Nat
    BY <1>1, <1>2, <2>1, RowTypes DEF NumbersInv, EarlierLower, IInv, TypeOK
  <2> QED BY <1>4, <1>8, <2>2
<1> QED BY <1>1, <1>2, <1>3, <1>8, <1>9, <1>10

\* A later checkpoint has higher numbers.
LEMMA AscendingStep ==
  ASSUME NumbersInv, Ascending, [Next]_vars
  PROVE  Ascending'
<1>1. CASE \A r \in Rank, t \in Thread : ~WriteTrial(r, t)
  BY <1>1, StepRows DEF NumbersInv, DiskInv, Ascending, NoNewRows
<1>2. ASSUME NEW r \in Rank, NEW t \in Thread, WriteTrial(r, t)
      PROVE  Ascending'
  <2> DEFINE new == [trial |-> task[r][t].trial, uid |-> task[r][t].uid]
  <2>1. task[r][t].st = "begun" /\ IInv  BY <1>2 DEF WriteTrial, NumbersInv, DiskInv
  <2>2. PICK k \in Chk : k = chkNum[r]  BY <2>1 DEF IInv, TypeOK
  <2>3. OnlyFile(k, r) /\ files'[k][r].rows = files[k][r].rows \cup {new}
    BY <1>2, <2>1, <2>2, WriteEffect
  <2>4. /\ \A c \in Chk : c > k => RowsIn(c) = {}
        /\ \A c \in Chk : c < k => \A y \in RowsIn(c) : y.trial < new.trial
    BY <2>1, <2>2, RunningTrial
  <2> HIDE DEF new
  <2>5. ASSUME NEW c \in Chk, NEW x \in RowsIn(c)'
        PROVE  x \in RowsIn(c) \/ (c = k /\ x = new)
    <3>1. CASE x \in h5'[c].rows  BY <2>3, <3>1 DEF OnlyFile, RowsIn
    <3>2. ASSUME NEW q \in Rank, x \in files'[c][q].rows
          PROVE  x \in files[c][q].rows \/ (c = k /\ x = new)
      BY <2>3, <3>2 DEF OnlyFile
    <3> QED BY <2>5, <3>1, <3>2 DEF RowsIn
  <2>6. SUFFICES ASSUME NEW c \in Chk, NEW d \in Chk, c < d, NEW x \in RowsIn(c)', NEW y \in RowsIn(d)'
                 PROVE  x.trial < y.trial
    BY DEF Ascending
  <2>7. c \in Int /\ d \in Int  BY OutputAssumption DEF Chk
  <2>8. CASE x \in RowsIn(c) /\ y \in RowsIn(d)  BY <2>6, <2>8 DEF Ascending
  <2>9. CASE d = k /\ y = new  BY <2>4, <2>5, <2>6, <2>7, <2>9
  <2>10. CASE c = k /\ x = new  BY <2>4, <2>5, <2>6, <2>7, <2>10
  <2> QED BY <2>5, <2>8, <2>9, <2>10
<1> QED BY <1>1, <1>2

-----------------------------------------------------------------------------
(* What this session's ranks have done.                                    *)

\* While a session runs, only trials that come to their end are done.
LEMMA KnowsDone ==
  ASSUME NumbersInv, DoneHasRows, [Next]_vars, NEW r \in Rank, Knows(r)'
  PROVE  DoneKept \/ \E q \in Rank, t \in Thread : FinishTrial(q, t)
<1>1. IInv /\ MergedSoFar /\ FilesNew /\ NoFileNoRows  BY DEF NumbersInv, DiskInv
<1>2. Knows(r) \/ OpenCheck(r)  BY <1>1, KnowsMoves DEF StaysOn, RollsOver
<1>3. pc[r] \notin EndPcs \cup {"idle"} /\ pc'[r] # "idle"
  BY <1>2 DEF Knows, NameFree, DirPcs, RunPcs, SyncPcs, EndPcs, OpenCheck
<1>4. CASE ContentKept  BY <1>4 DEF ContentKept, DoneKept
<1>5. ASSUME NEW q \in Rank, Merge(q)
      PROVE  FALSE
  <2>1. pc[q] = "merge"
    BY <1>5 DEF Merge, MergeSkip, MergeCopy, MergeAppend, MergeClose, MergeUnlink, MergeRemove, MergeDone
  <2> QED BY <1>1, <1>3, <2>1, MergeAlone
<1>6. ~DeleteUnreadable  BY <1>1, <1>3, DeleteEffect
<1> QED BY <1>1, <1>4, <1>5, <1>6, WriteContent, ContentStep

\* A rank that finds the name of its first checkpoint free sees lower numbers only.
LowerSeen ==
  \A r \in Rank : NameFree(r) /\ GoingOn(r) =>
    \A c \in Chk : /\ \A row \in RowsIn(c) : row.trial < BatchFirst(r)
                   /\ \A n \in h5[c].done : n < BatchFirst(r)
                   /\ \A q \in Rank : \A n \in files[c][q].done : n < BatchFirst(r)

\* The first checkpoint a rank opens comes after all that is numbered below.
LEMMA NewcomerSees == NumbersInv /\ DoneHasRows => LowerSeen
<1> SUFFICES ASSUME NumbersInv, DoneHasRows, NEW r \in Rank, NameFree(r), GoingOn(r), NEW c \in Chk
             PROVE  /\ \A row \in RowsIn(c) : row.trial < BatchFirst(r)
                    /\ \A n \in h5[c].done : n < BatchFirst(r)
                    /\ \A q \in Rank : \A n \in files[c][q].done : n < BatchFirst(r)
  BY DEF LowerSeen
<1>1. ASSUME NEW row \in RowsIn(c)
      PROVE  row.trial < BatchFirst(r)
  <2>1. c \in FoundCheckpoints
    <3>1. CASE c \notin FoundCheckpoints
      <4>1. ~HasH5(c) /\ \A q \in Rank : files[c][q].st = "none"
        BY <3>1, NothingBeyond DEF NumbersInv, DiskInv
      <4> QED BY <1>1, <4>1 DEF RowsIn, HasH5, NumbersInv, NoFileNoRows
    <3> QED BY <3>1
  <2>2. chkNum[r] \in Nat /\ FoundCheckpoints = 0 .. chkNum[r] - 1
    BY DEF NumbersInv, DiskInv, NumbersTaken, IInv, TypeOK, Chk
  <2>3. row \in EarlierRows(r)  BY <1>1, <2>1, <2>2 DEF EarlierRows
  <2> QED BY <2>3 DEF NumbersInv, EarlierLower, Knows
<1>2. ASSUME NEW n \in h5[c].done
      PROVE  n < BatchFirst(r)
  <2>1. PICK row \in h5[c].rows : n = row.trial  BY <1>2 DEF DoneHasRows, Trials
  <2> QED BY <1>1, <2>1, RowsOfFile
<1>3. ASSUME NEW q \in Rank, NEW n \in files[c][q].done
      PROVE  n < BatchFirst(r)
  <2>1. PICK row \in files[c][q].rows : n = row.trial  BY <1>3 DEF DoneHasRows, Trials
  <2> QED BY <1>1, <2>1, RowsOfFile
<1> QED BY <1>1, <1>2, <1>3

\* So nothing is of the session yet when its first checkpoint is opened.
LEMMA NothingNew ==
  ASSUME NumbersInv', DoneHasRows', NEW r \in Rank, NEW c \in Chk, OpenCheck(r), ~inRun[r], IInv
  PROVE  /\ \A n \in h5'[c].done : n < NumberingStart(r)'
         /\ \A q \in Rank : \A n \in files'[c][q].done : n < NumberingStart(r)'
<1>1. pc[r] = "open_check" /\ pc'[r] = "open_checked" /\ ~inRun'[r]  BY DEF OpenCheck, IInv, TypeOK
<1>2. NameFree(r)' /\ GoingOn(r)' /\ BatchFirst(r)' = NumberingStart(r)'
  BY <1>1 DEF NameFree, GoingOn, Constructed, Closing, SyncPcs, BatchFirst
<1>3. LowerSeen'  BY NewcomerSees, PTL
<1> QED BY <1>2, <1>3 DEF LowerSeen

\* A rank that knows its checkpoint goes on with its session's numbering.
LEMMA KnowsCases ==
  ASSUME IInv, [Next]_vars, NEW r \in Rank, Knows(r)'
  PROVE  /\ r \in Active /\ size' = size /\ Active' = Active
         /\ NumberingStart(r)' = NumberingStart(r) /\ NumberingEnd(r)' = NumberingEnd(r)
         /\ prior'[r] = prior[r] /\ restartMax'[r] = restartMax[r] /\ ~Forget
         /\ Knows(r) \/ (OpenCheck(r) /\ ~inRun[r])
<1>1. r \in Active /\ (StaysOn(r) \/ RollsOver(r))  BY KnowsMoves
<1>2. /\ UNCHANGED <<size, restart>> /\ prior'[r] = prior[r] /\ restartMax'[r] = restartMax[r]
      /\ Knows(r) \/ (OpenCheck(r) /\ ~inRun[r])
  BY <1>1 DEF StaysOn, RollsOver
<1>3. ~Forget  BY DEF Forget, Knows, NameFree, DirPcs, RunPcs, SyncPcs
<1> QED BY <1>1, <1>2, <1>3 DEF Active, NumberingStart, NumberingEnd, TrialsRemaining

\* The numbers of the trials done.
LEMMA DoneNat ==
  ASSUME IInv
  PROVE  /\ DoneOnDisk \subseteq Nat
         /\ \A c \in Chk : h5[c].done \subseteq Nat /\ \A q \in Rank : files[c][q].done \subseteq Nat
         /\ \A q \in Rank : DoneBy(q) \subseteq DoneOnDisk
<1>1. \A c \in Chk : h5[c].done \subseteq Nat /\ \A q \in Rank : files[c][q].done \subseteq Nat
  BY DEF IInv, TypeOK, DiskTypeOK, File
<1>2. \A c \in Chk : DoneIn(c) \subseteq Nat  BY <1>1 DEF DoneIn
<1>3. ASSUME NEW q \in Rank, NEW n \in DoneBy(q)
      PROVE  n \in DoneOnDisk
  BY <1>3 DEF DoneBy, DoneOnDisk, DoneIn
<1> QED BY <1>1, <1>2, <1>3 DEF DoneOnDisk

\* Only the rank whose trial it is gets it among those it has done.
LEMMA DoneByFinish ==
  ASSUME IInv, NEW r \in Rank, NEW t \in Thread, FinishTrial(r, t), NEW q \in Rank
  PROVE  DoneBy(q)' = IF q = r THEN DoneBy(q) \cup {task[r][t].trial} ELSE DoneBy(q)
<1>1. PICK k \in Chk : k = chkNum[r]  BY DEF IInv, TypeOK
<1>2. /\ \A c \in Chk, p \in Rank : c # k \/ p # r => files'[c][p] = files[c][p]
      /\ files'[k][r].done = files[k][r].done \cup {task[r][t].trial}
  BY <1>1, FinishContent
<1> QED BY <1>2 DEF DoneBy

\* Nothing done, nothing more done by a rank.
LEMMA DoneBySame ==
  ASSUME DoneKept, NEW q \in Rank
  PROVE  DoneBy(q)' = DoneBy(q)
BY DEF DoneKept, DoneBy

\* When it knows its first checkpoint, nothing done is of the session yet.
LEMMA NewlyKnown ==
  ASSUME NumbersInv, NumbersInv', DoneHasRows', NEW r \in Rank, OpenCheck(r), ~inRun[r]
  PROVE  /\ NewDone(r)' = {} /\ OldDone(r)' = DoneOnDisk /\ DoneOnDisk' = DoneOnDisk
         /\ UNCHANGED <<prior, count>>
<1>1. IInv /\ IInv' /\ UNCHANGED <<hasDir, files, h5, prior, count>>
  BY DEF NumbersInv, DiskInv, OpenCheck, disk
<1>2. \A c \in Chk : /\ \A n \in h5'[c].done : n < NumberingStart(r)'
                     /\ \A q \in Rank : \A n \in files'[c][q].done : n < NumberingStart(r)'
  BY <1>1, NothingNew
<1>3. DoneOnDisk' = DoneOnDisk  BY <1>1 DEF DoneOnDisk, DoneIn
<1>4. DoneOnDisk' \subseteq Nat /\ NumberingStart(r)' \in Nat
  <2>1. DoneOnDisk \subseteq Nat  BY <1>1, DoneNat
  <2>2. NumberingStart(r) \in Nat  BY <1>1, NumberingType DEF IInv
  <2>3. NumberingStart(r)' = NumberingStart(r)  BY DEF OpenCheck, NumberingStart
  <2> QED BY <1>3, <2>1, <2>2, <2>3
<1>5. \A n \in DoneOnDisk' : n < NumberingStart(r)'  BY <1>2 DEF DoneOnDisk, DoneIn
<1>6. \A n \in DoneBy(r)' : n \in DoneOnDisk'  BY DEF DoneBy, DoneOnDisk, DoneIn
<1>7. ASSUME NEW n \in NewDone(r)'
      PROVE  FALSE
  <2>1. n \in DoneBy(r)' /\ NumberingStart(r)' <= n  BY <1>7 DEF NewDone
  <2>2. n \in Nat /\ n < NumberingStart(r)'  BY <1>4, <1>5, <1>6, <2>1
  <2> QED BY <1>4, <2>1, <2>2
<1>8. OldDone(r)' = DoneOnDisk'  BY <1>5 DEF OldDone
<1> QED BY <1>1, <1>3, <1>7, <1>8

\* Other sessions' numbers are lower, and this session's are those of its ranks.
LEMMA OthersOldStep ==
  ASSUME NumbersInv, NumbersInv', DoneHasRows, DoneHasRows', OthersOld, [Next]_vars
  PROVE  OthersOld'
<1> SUFFICES ASSUME NEW r \in Rank, Knows(r)', NEW c \in Chk
             PROVE  /\ \A n \in h5'[c].done : n < NumberingStart(r)'
                    /\ \A q \in Rank \ Active' : \A n \in files'[c][q].done : n < NumberingStart(r)'
  BY DEF OthersOld
<1>1. /\ IInv /\ Active' = Active /\ NumberingStart(r)' = NumberingStart(r)
      /\ Knows(r) \/ (OpenCheck(r) /\ ~inRun[r])
  BY KnowsCases DEF NumbersInv, DiskInv
<1>2. CASE OpenCheck(r) /\ ~inRun[r]  BY <1>1, <1>2, NothingNew
<1>3. CASE Knows(r) /\ DoneKept  BY <1>1, <1>3 DEF OthersOld, DoneKept
<1>4. ASSUME Knows(r), NEW p \in Rank, NEW t \in Thread, FinishTrial(p, t)
      PROVE  /\ \A n \in h5'[c].done : n < NumberingStart(r)'
             /\ \A q \in Rank \ Active' : \A n \in files'[c][q].done : n < NumberingStart(r)'
  <2>1. p \in Active  BY <1>4, RunningTrial DEF FinishTrial
  <2>2. h5'[c] = h5[c] /\ \A q \in Rank : p # q => files'[c][q] = files[c][q]
    BY <1>1, <1>4, FinishContent
  <2> QED BY <1>1, <1>4, <2>1, <2>2 DEF OthersOld
<1> QED BY <1>1, <1>2, <1>3, <1>4, KnowsDone

\* No number of the session is beyond those of the trials that remained.
LEMMA NewBoundedStep ==
  ASSUME NumbersInv, NumbersInv', DoneHasRows, DoneHasRows', NewBounded, [Next]_vars
  PROVE  NewBounded'
<1> SUFFICES ASSUME NEW r \in Rank, Knows(r)', NEW n \in NewDone(r)'
             PROVE  n < NumberingEnd(r)'
  BY DEF NewBounded
<1>1. /\ IInv /\ NumberingStart(r)' = NumberingStart(r) /\ NumberingEnd(r)' = NumberingEnd(r)
      /\ Knows(r) \/ (OpenCheck(r) /\ ~inRun[r])
  BY KnowsCases DEF NumbersInv, DiskInv
<1>2. ~(OpenCheck(r) /\ ~inRun[r])  BY NewlyKnown
<1>3. CASE DoneKept  BY <1>1, <1>2, <1>3, DoneBySame DEF NewBounded, NewDone
<1>4. ASSUME NEW p \in Rank, NEW t \in Thread, FinishTrial(p, t)
      PROVE  n < NumberingEnd(r)'
  <2>1. task[p][t].trial < NumberingEnd(p)  BY <1>4, RunningTrial DEF FinishTrial
  <2>2. n \in NewDone(r) \/ (p = r /\ n = task[p][t].trial)  BY <1>1, <1>4, DoneByFinish DEF NewDone
  <2> QED BY <1>1, <1>2, <2>1, <2>2 DEF NewBounded
<1> QED BY <1>3, <1>4, KnowsDone

\* What a rank counts is set when it restarts, and raised by its trials.
LEMMA CountersMove ==
  ASSUME [Next]_vars
  PROVE  \/ Forget \/ \E r \in Rank : SetupRestart(r)
         \/ \E r \in Rank, t \in Thread : WriteTrial(r, t) \/ FinishTrial(r, t)
         \/ UNCHANGED <<count, maxTrial, prior, restartMax>>
<1>1. ASSUME NEW r \in Rank, RankStep(r)
      PROVE  \/ UNCHANGED <<count, maxTrial, prior, restartMax>>
             \/ SetupRestart(r)
             \/ \E t \in Thread : WriteTrial(r, t) \/ FinishTrial(r, t)
  <2>1. CASE Setup(r) \/ Open(r) \/ Batch(r) \/ Save(r)
    BY <2>1
    DEF Setup, SetupThrows, SetupFresh, Open, OpenThrows, OpenCheck, MakeDir,
        OpenFiles, Batch, BatchFailed, BatchDone, Save, Close, SyncRead, SyncWrite
  <2>2. CASE Merge(r)
    BY <2>2 DEF Merge, MergeSkip, MergeCopy, MergeAppend, MergeClose, MergeUnlink, MergeRemove, MergeDone
  <2>3. ASSUME NEW t \in Thread, Trial(r, t)
        PROVE  UNCHANGED <<count, maxTrial, prior, restartMax>> \/ WriteTrial(r, t)
                 \/ FinishTrial(r, t)
    BY <2>3 DEF Trial, SkipTrial, BeginTrial, TaskUnchanged
  <2> QED BY <1>1, <2>1, <2>2, <2>3 DEF RankStep
<1>2. ASSUME NEW r \in Rank, NEW t \in Thread, FailTrial(r, t)
      PROVE  UNCHANGED <<count, maxTrial, prior, restartMax>>
  BY <1>2 DEF FailTrial, TaskUnchanged
<1>3. CASE Reduce \/ Barrier \/ DeleteUnreadable \/ (\E r \in Rank : SigtermArrives(r))
           \/ (\E n \in RankCounts, again \in BOOLEAN : Launch(n, again)) \/ UNCHANGED vars
  BY <1>3 DEF Reduce, Barrier, DeleteUnreadable, SigtermArrives, Launch, vars
<1>4. CASE Finalize \/ Crash  BY <1>4 DEF Finalize, Crash
<1> QED BY <1>1, <1>2, <1>3, <1>4 DEF Next, Collective, Outside, Finished

\* maxTrial_ is raised to the number of a row just written.
LEMMA MaxAttainedStep ==
  ASSUME NumbersInv, DoneHasRows, MaxAttained, [Next]_vars
  PROVE  MaxAttained'
<1> SUFFICES ASSUME NEW r \in Rank, Knows(r)', maxTrial'[r] # restartMax'[r]
             PROVE  \E c \in Chk : maxTrial'[r] \in Trials(files'[c][r].rows)
  BY DEF MaxAttained
<1>1. /\ IInv /\ restartMax'[r] = restartMax[r] /\ maxTrial \in [Rank -> Nat] /\ ~Forget
      /\ Knows(r) \/ (OpenCheck(r) /\ ~inRun[r])
  BY KnowsCases DEF NumbersInv, DiskInv, IInv, TypeOK
<1>2. CASE \E t \in Thread : WriteTrial(r, t) /\ maxTrial'[r] # maxTrial[r]
  <2>1. PICK t \in Thread : WriteTrial(r, t) /\ maxTrial'[r] # maxTrial[r]  BY <1>2
  <2>2. PICK k \in Chk : k = chkNum[r]  BY <1>1 DEF IInv, TypeOK
  <2> DEFINE new == [trial |-> task[r][t].trial, uid |-> task[r][t].uid]
  <2>3. new \in files'[k][r].rows  BY <1>1, <2>1, <2>2, WriteEffect
  <2>4. maxTrial'[r] = task[r][t].trial  BY <1>1, <2>1 DEF WriteTrial, MaxTrialAfter
  <2>5. new.trial = task[r][t].trial  OBVIOUS
  <2> HIDE DEF new
  <2> QED BY <2>3, <2>4, <2>5 DEF Trials
<1>3. CASE maxTrial'[r] = maxTrial[r]
  <2>1. Knows(r)  BY <1>1, <1>3 DEF NumbersInv, HighestKnown
  <2>2. PICK c \in Chk : maxTrial[r] \in Trials(files[c][r].rows)
    BY <1>1, <1>3, <2>1 DEF MaxAttained
  <2>3. files[c][r].rows \subseteq files'[c][r].rows
    <3>1. CASE ContentKept  BY <3>1 DEF ContentKept
    <3>2. ASSUME NEW q \in Rank, NEW t \in Thread, WriteTrial(q, t)
          PROVE  files[c][r].rows \subseteq files'[c][r].rows
      BY <1>1, <3>2, WriteContent
    <3>3. ASSUME NEW q \in Rank, NEW t \in Thread, FinishTrial(q, t)
          PROVE  files[c][r].rows \subseteq files'[c][r].rows
      BY <1>1, <3>3, FinishContent
    <3>4. pc[r] \notin EndPcs \cup {"idle"}
      BY <2>1 DEF Knows, NameFree, DirPcs, RunPcs, SyncPcs, EndPcs
    <3>5. ASSUME NEW q \in Rank, Merge(q)
          PROVE  FALSE
      <4>1. pc[q] = "merge"
        BY <3>5 DEF Merge, MergeSkip, MergeCopy, MergeAppend, MergeClose, MergeUnlink, MergeRemove, MergeDone
      <4> QED BY <1>1, <3>4, <4>1, MergeAlone
    <3>6. ~DeleteUnreadable  BY <1>1, <3>4, DeleteEffect
    <3> QED BY <1>1, <3>1, <3>2, <3>3, <3>5, <3>6, ContentStep DEF NumbersInv, DiskInv
  <2> QED BY <1>3, <2>2, <2>3 DEF Trials
<1>4. CASE maxTrial'[r] # maxTrial[r]
  <2>1. pc[r] # "setup" /\ pc'[r] # "idle"
    BY <1>1 DEF OpenCheck, Knows, NameFree, DirPcs, RunPcs, SyncPcs
  <2>2. ASSUME NEW q \in Rank, SetupRestart(q)
        PROVE  FALSE
    BY <1>1, <1>4, <2>1, <2>2 DEF SetupRestart
  <2>3. ASSUME NEW q \in Rank, NEW t \in Thread, WriteTrial(q, t)
        PROVE  q = r
    BY <1>1, <1>4, <2>3 DEF WriteTrial
  <2>4. ASSUME NEW q \in Rank, NEW t \in Thread, FinishTrial(q, t)
        PROVE  FALSE
    BY <1>4, <2>4 DEF FinishTrial
  <2> QED BY <1>1, <1>2, <1>4, <2>2, <2>3, <2>4, CountersMove
<1> QED BY <1>3, <1>4

-----------------------------------------------------------------------------
(* What the ranks count.                                                   *)

\* All that is done is in the checkpoints up to the last.
LEMMA DoneAll ==
  ASSUME NumbersInv, DoneHasRows
  PROVE  /\ FoundCheckpoints = {} => DoneOnDisk = {}
         /\ FoundCheckpoints # {} => DoneUpTo(MaxCheckpoint) = DoneOnDisk
         /\ \A c \in Chk : c \notin FoundCheckpoints => DoneIn(c) = {}
<1>1. ASSUME NEW c \in Chk, c \notin FoundCheckpoints
      PROVE  DoneIn(c) = {}
  <2>1. h5[c].st = "none" /\ \A q \in Rank : files[c][q].st = "none"
    BY <1>1, NothingBeyond DEF NumbersInv, DiskInv, HasH5
  <2> QED BY <2>1, NoFileNoDone DEF NumbersInv, DoneIn
<1>2. ASSUME FoundCheckpoints # {}
      PROVE  DoneUpTo(MaxCheckpoint) = DoneOnDisk
  <2>1. MaxCheckpoint \in Chk /\ \A c \in FoundCheckpoints : c <= MaxCheckpoint
    BY <1>2, MaxCheckpointType, MaxCheckpointLast
  <2>2. PICK m \in Chk : m = MaxCheckpoint  BY <2>1
  <2>3. ASSUME NEW c \in Chk, ~(c \in 0 .. m)
        PROVE  DoneIn(c) = {}
    <3>1. c \notin FoundCheckpoints  BY <2>1, <2>2, <2>3, OutputAssumption DEF Chk
    <3> QED BY <1>1, <3>1
  <2>4. 0 .. m \subseteq Chk  BY <2>2, OutputAssumption DEF Chk
  <2>5. UNION {DoneIn(d) : d \in 0 .. m} = UNION {DoneIn(c) : c \in Chk}  BY <2>3, <2>4
  <2> QED BY <2>2, <2>5 DEF DoneUpTo, DoneOnDisk
<1>3. FoundCheckpoints = {} => DoneOnDisk = {}  BY <1>1 DEF DoneOnDisk
<1> QED BY <1>1, <1>2, <1>3

\* What a restart reads as the number of trials is that of the trials done.
LEMMA ReadableCount ==
  ASSUME CountsAccurate, NEW c \in Chk, Readable(c)
  PROVE  RestartTrialsDone(c) = Cardinality(DoneUpTo(c))
<1>1. RestartFile(c) \in RestartSource(c)  BY DEF Readable, RestartFile
<1>2. /\ \A f \in RestartSource(c) : f.st = "closed"
      /\ \A f, g \in RestartSource(c) : f.tc = g.tc /\ f.mx = g.mx
  BY DEF Readable, AttrsAgree, HasAttrs
<1>3. CASE HasH5(c)
  <2>1. RestartFile(c) = h5[c] /\ h5[c].st = "closed"  BY <1>1, <1>2, <1>3 DEF RestartSource
  <2> QED BY <2>1 DEF CountsAccurate, RestartTrialsDone
<1>4. CASE ~HasH5(c)
  <2>1. RestartSource(c) = {files[c][r] : r \in RanksIn(c)}  BY <1>4 DEF RestartSource
  <2>2. PICK r \in RanksIn(c) : RestartFile(c) = files[c][r]  BY <1>1, <2>1
  <2>3. Agreeing(c)  BY <1>2, <2>1 DEF Agreeing, Settled, CountsAgree, HasAttrs
  <2> QED BY <2>2, <2>3 DEF CountsAccurate, RestartTrialsDone
<1> QED BY <1>3, <1>4

\* A trial that has its row, and is not done yet, is not done elsewhere either.
LEMMA TrialNotDone ==
  ASSUME NumbersInv, DoneHasRows, TasksNotDone,
         NEW r \in Rank, NEW t \in Thread, task[r][t].st = "written"
  PROVE  task[r][t].trial \notin DoneOnDisk
<1>1. PICK k \in Chk, n \in Nat : k = chkNum[r] /\ n = task[r][t].trial  BY RunningTrial
<1>2. PICK x \in files[k][r].rows : x.trial = n  BY <1>1 DEF TasksNotDone, Trials, OwnFile
<1>3. x \in RowsIn(k) /\ h5[k].rows = {}
  <2>1. ~HasH5(k)
    <3>1. pc[r] \in RunPcs  BY RunningTrial DEF RunPcs
    <3> QED BY <1>1, <3>1, LastOne DEF NumbersInv, OwnInv
  <2> QED BY <1>2, <2>1, RowsOfFile DEF NumbersInv, NoFileNoRows, HasH5
<1>4. \A c \in Chk : \A y \in RowsIn(c) : y.trial = n => c = k /\ y = x
  BY <1>2, <1>3, UniqueMeans DEF NumbersInv
<1>5. ASSUME NEW c \in Chk, n \in h5[c].done
      PROVE  FALSE
  <2>1. PICK y \in h5[c].rows : y.trial = n  BY <1>5 DEF DoneHasRows, Trials
  <2> QED BY <1>3, <1>4, <2>1, RowsOfFile
<1>6. ASSUME NEW c \in Chk, NEW q \in Rank, n \in files[c][q].done
      PROVE  FALSE
  <2>1. PICK y \in files[c][q].rows : y.trial = n  BY <1>6 DEF DoneHasRows, Trials
  <2>2. c = k /\ y = x  BY <1>4, <2>1, RowsOfFile
  <2>3. q = r  BY <1>2, <2>1, <2>2, UniqueMeans DEF NumbersInv
  <2> QED BY <1>1, <1>6, <2>2, <2>3 DEF TasksNotDone, OwnFile
<1> QED BY <1>1, <1>5, <1>6 DEF DoneOnDisk, DoneIn

\* There are finitely many trials of the session.
LEMMA NewFinite ==
  ASSUME NumbersInv, NewBounded, NEW r \in Rank, Knows(r)
  PROVE  /\ IsFiniteSet(NewDone(r)) /\ Cardinality(NewDone(r)) \in Nat
         /\ NewDone(r) \subseteq NumberingStart(r) .. NumberingEnd(r) - 1
<1>1. NumberingStart(r) \in Nat /\ NumberingEnd(r) \in Nat /\ DoneBy(r) \subseteq Nat
  BY NumberingType, DoneNat DEF NumbersInv, DiskInv, IInv
<1>2. ASSUME NEW n \in NewDone(r)
      PROVE  n \in NumberingStart(r) .. NumberingEnd(r) - 1
  <2>1. n \in DoneBy(r) /\ NumberingStart(r) <= n /\ n < NumberingEnd(r)
    BY <1>2 DEF NewDone, NewBounded
  <2> QED BY <1>1, <2>1
<1>3. IsFiniteSet(NumberingStart(r) .. NumberingEnd(r) - 1)  BY <1>1, FS_Interval
<1>4. IsFiniteSet(NewDone(r))  BY <1>2, <1>3, FS_Subset
<1> QED BY <1>2, <1>4, FS_CardinalityType

\* trialsCompleted_ goes up with the trials of the rank.
LEMMA CountNew ==
  ASSUME NumbersInv, NumbersInv', DoneHasRows, DoneHasRows', TasksNotDone, BatchesDone,
         NewBounded, CountsKnown, [Next]_vars, NEW r \in Rank, Knows(r)'
  PROVE  count'[r] = Cardinality(NewDone(r)')
<1>1. /\ IInv /\ NumberingStart(r)' = NumberingStart(r) /\ ~Forget
      /\ Knows(r) \/ (OpenCheck(r) /\ ~inRun[r])
      /\ count \in [Rank -> Nat]
  BY KnowsCases DEF NumbersInv, DiskInv, IInv, TypeOK
<1>2. CASE OpenCheck(r) /\ ~inRun[r]  BY <1>2, NewlyKnown, FS_EmptySet DEF CountsKnown
<1>3. ASSUME Knows(r), NEW q \in Rank, NEW t \in Thread, FinishTrial(q, t)
      PROVE  count'[r] = Cardinality(NewDone(r)')
  <2>1. /\ count' = [count EXCEPT ![q] = count[q] + 1] /\ task[q][t].st = "written"
    BY <1>3 DEF FinishTrial
  <2>2. count[r] = Cardinality(NewDone(r)) /\ IsFiniteSet(NewDone(r))
    BY <1>3, NewFinite DEF CountsKnown
  <2>3. CASE q # r
    <3>1. NewDone(r)' = NewDone(r)  BY <1>1, <1>3, <2>3, DoneByFinish DEF NewDone
    <3> QED BY <1>1, <2>1, <2>2, <2>3, <3>1
  <2>4. CASE q = r
    <3>1. PICK n \in Nat : n = task[r][t].trial /\ BatchFirst(r) <= n /\ Knows(r) /\ GoingOn(r)
      BY <2>1, <2>4, RunningTrial
    <3>2. NumberingStart(r) <= BatchFirst(r)  BY <3>1 DEF BatchesDone
    <3>3. NumberingStart(r) \in Nat /\ BatchFirst(r) \in Nat
      <4>1. pc[r] = "batch"  BY <2>1, <2>4, RunningTrial
      <4> QED BY <1>1, <4>1, NumberingType DEF IInv, TypeOK, BatchFirst
    <3>4. NumberingStart(r) <= n  BY <3>1, <3>2, <3>3
    <3>5. NewDone(r)' = NewDone(r) \cup {n}
      BY <1>1, <1>3, <2>4, <3>1, <3>4, DoneByFinish DEF NewDone
    <3>6. n \notin NewDone(r)
      <4>1. n \notin DoneOnDisk  BY <2>1, <2>4, <3>1, TrialNotDone
      <4> QED BY <1>1, <4>1, DoneNat DEF NewDone
    <3>7. Cardinality(NewDone(r)') = Cardinality(NewDone(r)) + 1  BY <2>2, <3>5, <3>6, FS_AddElement
    <3> QED BY <1>1, <2>1, <2>2, <2>4, <3>7
  <2> QED BY <2>3, <2>4
<1>4. CASE Knows(r) /\ \A q \in Rank, t \in Thread : ~FinishTrial(q, t)
  <2>1. NewDone(r)' = NewDone(r)  BY <1>1, <1>4, KnowsDone, DoneBySame DEF NewDone
  <2>2. count'[r] = count[r]
    <3>1. ASSUME NEW q \in Rank, NEW t \in Thread, WriteTrial(q, t)
          PROVE  count' = count
      BY <3>1 DEF WriteTrial
    <3>2. ASSUME NEW q \in Rank, SetupRestart(q)
          PROVE  count' = count
      BY <3>2 DEF SetupRestart
    <3> QED BY <1>1, <1>4, <3>1, <3>2, CountersMove
  <2> QED BY <1>4, <2>1, <2>2 DEF CountsKnown
<1> QED BY <1>1, <1>2, <1>3, <1>4

\* The restart has read the number of trials of earlier sessions.
LEMMA CountOld ==
  ASSUME NumbersInv, NumbersInv', DoneHasRows, DoneHasRows', BatchesDone,
         CountsKnown, CountsAccurate, [Next]_vars, NEW r \in Rank, Knows(r)'
  PROVE  prior'[r] = Cardinality(OldDone(r)')
<1>1. /\ IInv /\ NumberingStart(r)' = NumberingStart(r) /\ prior'[r] = prior[r]
      /\ Knows(r) \/ (OpenCheck(r) /\ ~inRun[r])
      /\ r \in Active
  BY KnowsCases DEF NumbersInv, DiskInv
<1>2. CASE OpenCheck(r) /\ ~inRun[r]
  <2>1. OldDone(r)' = DoneOnDisk /\ pc[r] = "open_check"  BY <1>2, NewlyKnown DEF OpenCheck
  <2>2. CASE restart /\ FoundCheckpoints # {}
    <3>1. prior[r] = RestartTrialsDone(MaxCheckpoint) /\ Readable(MaxCheckpoint)
      BY <1>1, <1>2, <2>1, <2>2 DEF IInv, SetupReadsDisk, NumbersInv, SetupReads
    <3>2. MaxCheckpoint \in Chk  BY <2>2, MaxCheckpointType
    <3> QED BY <1>1, <2>1, <2>2, <3>1, <3>2, ReadableCount, DoneAll
  <2>3. CASE ~(restart /\ FoundCheckpoints # {})
    <3>1. prior[r] = 0 /\ chkNum[r] = 0  BY <1>1, <1>2, <2>1, <2>3 DEF IInv, SetupReadsDisk
    <3>2. pc'[r] = "open_checked" /\ chkNum'[r] = 0 /\ FoundCheckpoints' = FoundCheckpoints
      BY <1>1, <1>2, <3>1 DEF OpenCheck, IInv, TypeOK, disk, FoundCheckpoints, Exists, HasH5
    <3>3. FoundCheckpoints' = 0 .. chkNum'[r] - 1
      BY <3>2 DEF NumbersInv, DiskInv, NumbersTaken, NameFree
    <3>4. FoundCheckpoints = {}  BY <3>2, <3>3
    <3> QED BY <1>1, <2>1, <3>1, <3>4, DoneAll, FS_EmptySet
  <2> QED BY <2>2, <2>3
<1>3. ASSUME Knows(r), NEW q \in Rank, NEW t \in Thread, FinishTrial(q, t)
      PROVE  OldDone(r)' = OldDone(r)
  <2>1. PICK n \in Nat : n = task[q][t].trial /\ BatchFirst(q) <= n /\ Knows(q) /\ GoingOn(q)
                         /\ pc[q] = "batch" /\ q \in Active
    BY <1>3, RunningTrial DEF FinishTrial
  <2>2. NumberingStart(q) <= BatchFirst(q)  BY <2>1 DEF BatchesDone
  <2>3. NumberingStart(q) = NumberingStart(r)
    <3>1. Constructed(q) /\ Constructed(r)
      BY <1>3, <2>1 DEF GoingOn, Constructed, Knows, NameFree, DirPcs, RunPcs, SyncPcs
    <3>2. prior[q] = prior[r] /\ restartMax[q] = restartMax[r]
      BY <1>1, <2>1, <3>1 DEF IInv, RanksAgree
    <3> QED BY <3>2, NumberingAgrees
  <2>4. NumberingStart(r) \in Nat /\ BatchFirst(q) \in Nat
    BY <1>1, <2>1, NumberingType DEF IInv, TypeOK, BatchFirst
  <2>5. ~(n < NumberingStart(r))  BY <2>1, <2>2, <2>3, <2>4
  <2>6. DoneOnDisk' = DoneOnDisk \cup {n}  BY <1>1, <1>3, <2>1, FinishDone
  <2> QED BY <1>1, <2>5, <2>6 DEF OldDone
<1>4. CASE Knows(r) /\ DoneKept
  <2>1. DoneOnDisk' = DoneOnDisk  BY <1>4, DoneSame
  <2> QED BY <1>1, <1>4, <2>1 DEF CountsKnown, OldDone
<1> QED BY <1>1, <1>2, <1>3, <1>4, KnowsDone DEF CountsKnown

\* A rank's count begins with its run().
LEMMA CountBegins ==
  ASSUME NumbersInv, CountsKnown, [Next]_vars, NEW r \in Rank, ~inRun'[r]
  PROVE  count'[r] = 0
<1>1. /\ inRun \in [Rank -> BOOLEAN] /\ count \in [Rank -> Nat] /\ IInv
      /\ ~inRun[r] => count[r] = 0
  BY DEF NumbersInv, DiskInv, IInv, TypeOK, CountsKnown
<1>2. CASE Forget  BY <1>2 DEF Forget
<1>3. ASSUME NEW q \in Rank, SetupRestart(q)
      PROVE  UNCHANGED <<inRun, count>>
  BY <1>3 DEF SetupRestart
<1>4. ASSUME NEW q \in Rank, NEW t \in Thread, WriteTrial(q, t)
      PROVE  UNCHANGED <<inRun, count>>
  BY <1>4 DEF WriteTrial, TaskUnchanged
<1>5. ASSUME NEW q \in Rank, NEW t \in Thread, FinishTrial(q, t)
      PROVE  q # r /\ inRun' = inRun /\ count'[r] = count[r]
  <2>1. inRun[q] /\ inRun' = inRun /\ count' = [count EXCEPT ![q] = count[q] + 1]
    BY <1>5, RunningTrial DEF FinishTrial, TaskUnchanged
  <2> QED BY <1>1, <2>1
<1>6. CASE UNCHANGED count
  <2>1. inRun[r] => inRun'[r] \/ Forget
    <3>1. ASSUME NEW q \in Rank, RankStep(q)
          PROVE  inRun[r] => inRun'[r]
      <4>1. CASE Setup(q) \/ Batch(q) \/ Save(q)
        BY <4>1
        DEF Setup, SetupThrows, SetupFresh, SetupRestart, Batch, BatchFailed, BatchDone, Save,
            Close, SyncRead, SyncWrite
      <4>2. CASE Open(q)  BY <1>1, <4>2 DEF Open, OpenThrows, OpenCheck, MakeDir, OpenFiles
      <4>3. CASE Merge(q)
        BY <4>3 DEF Merge, MergeSkip, MergeCopy, MergeAppend, MergeClose, MergeUnlink, MergeRemove, MergeDone
      <4>4. ASSUME NEW t \in Thread, Trial(q, t)
            PROVE  inRun' = inRun
        BY <4>4 DEF Trial, SkipTrial, BeginTrial, WriteTrial, FinishTrial, TaskUnchanged
      <4> QED BY <3>1, <4>1, <4>2, <4>3, <4>4 DEF RankStep
    <3>2. ASSUME NEW q \in Rank, NEW t \in Thread, FailTrial(q, t)
          PROVE  inRun' = inRun
      BY <3>2 DEF FailTrial, TaskUnchanged
    <3>3. CASE Reduce \/ Barrier \/ DeleteUnreadable \/ (\E q \in Rank : SigtermArrives(q))
               \/ (\E n \in RankCounts, again \in BOOLEAN : Launch(n, again)) \/ UNCHANGED vars
      BY <3>3 DEF Reduce, Barrier, DeleteUnreadable, SigtermArrives, Launch, vars
    <3> QED BY <3>1, <3>2, <3>3 DEF Next, Collective, Outside, Finished, Finalize, Crash
  <2> QED BY <1>1, <1>2, <1>6, <2>1
<1> QED BY <1>1, <1>2, <1>3, <1>4, <1>5, <1>6, CountersMove

\* A restart counts no more trials than were asked for.
LEMMA PriorBounded ==
  ASSUME NumbersInv, DoneHasRows, CountsKnown, CountsAccurate, BudgetKept, [Next]_vars,
         NEW r \in Rank
  PROVE  prior'[r] <= NTrial
<1>1. /\ prior \in [Rank -> Nat] /\ prior[r] <= NTrial /\ NTrial \in Nat
  BY RunAssumption DEF NumbersInv, DiskInv, IInv, TypeOK, CountsKnown
<1>2. CASE Forget  BY <1>1, <1>2 DEF Forget
<1>3. ASSUME NEW q \in Rank, SetupRestart(q)
      PROVE  prior'[r] <= NTrial
  <2>1. /\ restart /\ FoundCheckpoints # {} /\ Readable(MaxCheckpoint)
        /\ prior' = [prior EXCEPT ![q] = RestartTrialsDone(MaxCheckpoint)]
    BY <1>3 DEF SetupRestart, SetupRefused
  <2>2. MaxCheckpoint \in Chk  BY <2>1, MaxCheckpointType
  <2>3. RestartTrialsDone(MaxCheckpoint) <= NTrial
    BY <2>1, <2>2, ReadableCount, DoneAll DEF BudgetKept
  <2> QED BY <1>1, <2>1, <2>3
<1>4. ASSUME NEW q \in Rank, NEW t \in Thread, WriteTrial(q, t) \/ FinishTrial(q, t)
      PROVE  prior' = prior
  BY <1>4 DEF WriteTrial, FinishTrial, TaskUnchanged
<1> QED BY <1>1, <1>2, <1>3, <1>4, CountersMove

\* What a rank counts, and what it read of earlier sessions, is what is done.
LEMMA CountsKnownStep ==
  ASSUME NumbersInv, NumbersInv', DoneHasRows, DoneHasRows', TasksNotDone, BatchesDone,
         NewBounded, CountsKnown, CountsAccurate, BudgetKept, [Next]_vars
  PROVE  CountsKnown'
BY CountNew, CountOld, CountBegins, PriorBounded DEF CountsKnown

-----------------------------------------------------------------------------
(* Rank 0 adds up what the ranks have done.                                *)

\* No trial is done by two ranks.
LEMMA NewDisjoint ==
  ASSUME NumbersInv, DoneHasRows, NEW q \in Rank, NEW r \in Rank, q # r
  PROVE  DoneBy(q) \cap DoneBy(r) = {}
<1>1. SUFFICES ASSUME NEW n \in DoneBy(q), n \in DoneBy(r)
               PROVE  FALSE
  OBVIOUS
<1>2. PICK c \in Chk, d \in Chk : n \in files[c][q].done /\ n \in files[d][r].done
  BY <1>1 DEF DoneBy
<1>3. PICK x \in files[c][q].rows, y \in files[d][r].rows : x.trial = n /\ y.trial = n
  BY <1>2 DEF DoneHasRows, Trials
<1>4. x \in RowsIn(c) /\ y \in RowsIn(d)  BY <1>3, RowsOfFile
<1>5. c = d  BY <1>3, <1>4, UniqueMeans DEF NumbersInv
<1> QED BY <1>3, <1>5, UniqueMeans DEF NumbersInv

\* In a session, the ranks number from the same trial.
LEMMA SameNumbering ==
  ASSUME IInv, NEW q \in Active, NEW r \in Active, Knows(q), Knows(r)
  PROVE  /\ prior[q] = prior[r] /\ NumberingStart(q) = NumberingStart(r)
         /\ NumberingEnd(q) = NumberingEnd(r)
<1>1. Constructed(q) /\ Constructed(r)  BY DEF Constructed, Knows, NameFree, DirPcs, RunPcs, SyncPcs
<1>2. prior[q] = prior[r] /\ restartMax[q] = restartMax[r]  BY <1>1 DEF IInv, RanksAgree
<1> QED BY <1>2, NumberingAgrees

\* The trials of one rank more.
LEMMA NewMore ==
  ASSUME NumbersInv, DoneHasRows, NewBounded, 0 \in Active, \A q \in Active : Knows(q),
         NEW k \in Active
  PROVE  /\ IsFiniteSet(NewUpTo(k)) /\ IsFiniteSet(NewUpTo(k + 1))
         /\ Cardinality(NewUpTo(k + 1)) = Cardinality(NewUpTo(k)) + Cardinality(NewDone(k))
<1>1. IInv /\ Active \subseteq Rank /\ size \in Nat
  BY ActiveRanks DEF NumbersInv, DiskInv, IInv, TypeOK
<1>2. k \in Nat /\ k < size /\ \A q \in 0 .. k : q \in Active  BY <1>1 DEF Active
<1>3. PICK first \in Nat, last \in Nat : first = NumberingStart(0) /\ last = NumberingEnd(0)
  BY <1>1, NumberingType DEF IInv
<1>4. ASSUME NEW q \in Active
      PROVE  NewDone(q) \subseteq first .. last - 1
  BY <1>1, <1>3, NewFinite, SameNumbering
<1>5. NewUpTo(k) \subseteq first .. last - 1  BY <1>2, <1>4 DEF NewUpTo
<1>6. IsFiniteSet(first .. last - 1)  BY <1>3, FS_Interval
<1>7. IsFiniteSet(NewUpTo(k)) /\ IsFiniteSet(NewDone(k))  BY <1>4, <1>5, <1>6, FS_Subset
<1>8. NewUpTo(k + 1) = NewUpTo(k) \cup NewDone(k)
  <2>1. 0 .. (k + 1) - 1 = (0 .. k - 1) \cup {k}  BY <1>2
  <2> QED BY <2>1 DEF NewUpTo
<1>9. NewUpTo(k) \cap NewDone(k) = {}
  <2>1. ASSUME NEW q \in 0 .. k - 1
        PROVE  NewDone(q) \cap NewDone(k) = {}
    <3>1. q \in Rank /\ k \in Rank /\ q # k  BY <1>1, <1>2
    <3>2. DoneBy(q) \cap DoneBy(k) = {}  BY <3>1, NewDisjoint
    <3> QED BY <3>2 DEF NewDone
  <2> QED BY <2>1 DEF NewUpTo
<1>10. /\ IsFiniteSet(NewUpTo(k) \cup NewDone(k))
       /\ Cardinality(NewUpTo(k) \cup NewDone(k)) =
            Cardinality(NewUpTo(k)) + Cardinality(NewDone(k)) - Cardinality({})
  BY <1>7, <1>9, FS_Union
<1>11. Cardinality(NewUpTo(k)) \in Nat /\ Cardinality(NewDone(k)) \in Nat
  BY <1>7, FS_CardinalityType
<1> QED
  <2>1. Cardinality({}) = 0  BY FS_EmptySet
  <2>2. IsFiniteSet(NewUpTo(k + 1)) /\ Cardinality(NewUpTo(k + 1)) = Cardinality(NewUpTo(k) \cup NewDone(k))
    BY <1>8, <1>10
  <2> QED BY <1>7, <1>10, <1>11, <2>1, <2>2

\* The trials of all ranks, and those of earlier sessions, are all there are.
LEMMA NewAndOld ==
  ASSUME NumbersInv, DoneHasRows, OthersOld, NewBounded, BudgetKept, 0 \in Active,
         \A q \in Active : Knows(q)
  PROVE  /\ Cardinality(DoneOnDisk) = Cardinality(NewUpTo(size)) + Cardinality(OldDone(0))
         /\ \A n : n \in NewUpTo(size) <=> n \in DoneOnDisk /\ ~(n < NumberingStart(0))
<1>1. IInv /\ Active \subseteq Rank /\ size \in Nat /\ DoneOnDisk \subseteq Nat
  BY ActiveRanks, DoneNat DEF NumbersInv, DiskInv, IInv, TypeOK
<1>2. PICK first \in Nat : first = NumberingStart(0)  BY <1>1, NumberingType DEF IInv
<1>3. \A q \in Active : NumberingStart(q) = first /\ DoneBy(q) \subseteq DoneOnDisk
  BY <1>1, <1>2, SameNumbering, DoneNat
<1>4. ASSUME NEW n \in NewUpTo(size)
      PROVE  n \in DoneOnDisk /\ ~(n < first)
  <2>1. PICK q \in Active : n \in NewDone(q)  BY <1>4 DEF NewUpTo, Active
  <2>2. n \in DoneBy(q) /\ first <= n  BY <1>3, <2>1 DEF NewDone
  <2>3. n \in DoneOnDisk /\ n \in Nat  BY <1>1, <1>3, <2>1, <2>2
  <2> QED BY <1>2, <2>2, <2>3
<1>5. ASSUME NEW n \in DoneOnDisk, ~(n < first)
      PROVE  n \in NewUpTo(size)
  <2>1. PICK c \in Chk : n \in DoneIn(c)  BY <1>5 DEF DoneOnDisk
  <2>2. n \notin h5[c].done /\ \A q \in Rank \ Active : n \notin files[c][q].done
    BY <1>1, <1>2, <1>5 DEF OthersOld
  <2>3. PICK q \in Active : n \in files[c][q].done  BY <2>1, <2>2 DEF DoneIn
  <2>4. n \in DoneBy(q) /\ first <= n  BY <1>1, <1>5, <2>3 DEF DoneBy
  <2>5. n \in NewDone(q)  BY <1>3, <2>4 DEF NewDone
  <2> QED BY <2>5 DEF NewUpTo, Active
<1>6. OldDone(0) = {n \in DoneOnDisk : n < first}  BY <1>2 DEF OldDone
<1>7. DoneOnDisk = NewUpTo(size) \cup OldDone(0) /\ NewUpTo(size) \cap OldDone(0) = {}
  BY <1>4, <1>5, <1>6
<1>8. IsFiniteSet(NewUpTo(size)) /\ IsFiniteSet(OldDone(0))  BY <1>4, <1>6, FS_Subset DEF BudgetKept
<1>9. Cardinality(DoneOnDisk) =
        Cardinality(NewUpTo(size)) + Cardinality(OldDone(0)) - Cardinality({})
  BY <1>7, <1>8, FS_Union
<1>10. Cardinality(NewUpTo(size)) \in Nat /\ Cardinality(OldDone(0)) \in Nat
  BY <1>8, FS_CardinalityType
<1>11. Cardinality(DoneOnDisk) = Cardinality(NewUpTo(size)) + Cardinality(OldDone(0))
  BY <1>9, <1>10, FS_EmptySet
<1> QED BY <1>2, <1>4, <1>5, <1>11

-----------------------------------------------------------------------------
(* What rank 0 adds up and gives to all files.                             *)

\* Rank 0 synchronises step by step, beginning when all files are closed, and
\* nothing of the counts moves meanwhile.
LEMMA SyncMoves ==
  ASSUME IInv, [Next]_vars, pc'[0] \in {"sync_read", "sync_write"}
  PROVE  \/ SyncRead(0) \/ SyncWrite(0) \/ (Barrier /\ pc[0] = "closed")
         \/ UNCHANGED <<size, restart, prior, restartMax, chkNum, count, maxTrial, sync, pc, disk>>
<1>1. /\ 0 \in Rank /\ pc \in [Rank -> {"idle"} \cup CollectivePcs \cup LocalPcs]
  <2>1. 0 \in Rank  BY OutputAssumption DEF Rank
  <2> QED BY <2>1 DEF IInv, TypeOK
<1>2. \A r \in Rank, t \in Thread : task[r][t].st # "idle" => pc[r] = "batch"
  BY DEF IInv, TrialsOnlyInBatch
<1>3. CASE pc[0] \in {"sync_read", "sync_write"}
  <2>1. \A r \in Rank : pc[r] \in {"idle", "synced", "sync_read", "sync_write"}
                        /\ (r # 0 => pc[r] \in {"idle", "synced"})
    BY <1>3, SyncAlone
  <2>2. 0 \in Active /\ size # 0
    <3>1. 0 \in Active /\ size \in Nat
      BY <1>1, <1>3, ActiveRanks, OutputAssumption DEF IInv, TypeOK
    <3> QED BY <3>1 DEF Active
  <2>3. ASSUME NEW r \in Rank, RankStep(r)
        PROVE  SyncRead(0) \/ SyncWrite(0)
    <3>1. ASSUME Setup(r) \/ Open(r) \/ Batch(r) \/ Close(r) \/ Merge(r)
          PROVE  FALSE
      <4>1. pc[r] \in {"setup", "open_check", "make_dir", "open_files", "batch", "close", "merge"}
        BY <3>1
        DEF Setup, SetupThrows, SetupFresh, SetupRestart, Open, OpenThrows, OpenCheck, MakeDir,
            OpenFiles, Batch, BatchFailed, BatchDone, BatchOver, Close, Merge, MergeSkip,
            MergeCopy, MergeAppend, MergeClose, MergeUnlink, MergeRemove, MergeDone
      <4> QED BY <2>1, <4>1
    <3>2. ASSUME NEW t \in Thread, Trial(r, t)
          PROVE  FALSE
      <4>1. pc[r] = "batch"  BY <1>2, <3>2 DEF Trial, SkipTrial, BeginTrial, WriteTrial, FinishTrial
      <4> QED BY <2>1, <4>1
    <3>3. ASSUME SyncRead(r) \/ SyncWrite(r)
          PROVE  r = 0
      BY <2>1, <3>3 DEF SyncRead, SyncWrite
    <3> QED BY <2>3, <3>1, <3>2, <3>3 DEF RankStep, Save
  <2>4. ASSUME Collective
        PROVE  FALSE
    BY <1>3, <2>2, <2>4 DEF Collective, Reduce, Barrier, Finalize, BarrierPcs
  <2>5. ASSUME Outside
        PROVE  UNCHANGED <<size, restart, prior, restartMax, chkNum, count, maxTrial, sync, pc, disk>>
    <3>1. ASSUME NEW r \in Rank, SigtermArrives(r)
          PROVE  UNCHANGED <<size, restart, prior, restartMax, chkNum, count, maxTrial, sync, pc, disk>>
      BY <3>1 DEF SigtermArrives
    <3>2. ASSUME NEW r \in Rank, NEW t \in Thread, FailTrial(r, t)
          PROVE  FALSE
      BY <1>2, <2>1, <3>2 DEF FailTrial
    <3>3. ~Crash  BY <1>1 DEF Crash, Forget
    <3>4. ~DeleteUnreadable /\ \A n \in RankCounts, again \in BOOLEAN : ~Launch(n, again)
      BY <2>2 DEF DeleteUnreadable, Launch, Running
    <3> QED BY <2>5, <3>1, <3>2, <3>3, <3>4 DEF Outside
  <2>6. ASSUME Finished \/ UNCHANGED vars
        PROVE  UNCHANGED <<size, restart, prior, restartMax, chkNum, count, maxTrial, sync, pc, disk>>
    BY <2>6 DEF Finished, vars
  <2> QED BY <2>3, <2>4, <2>5, <2>6 DEF Next
<1>4. CASE pc[0] \notin {"sync_read", "sync_write"}
  <2>1. ASSUME NEW r \in Rank, NEW p, pc' = [pc EXCEPT ![r] = p],
               p \notin {"sync_read", "sync_write"}
        PROVE  FALSE
    BY <1>1, <1>4, <2>1
  <2>2. ASSUME pc' = pc
        PROVE  FALSE
    BY <1>4, <2>2
  <2>3. ASSUME NEW r \in Rank, RankStep(r)
        PROVE  FALSE
    <3>1. CASE Setup(r) \/ Open(r) \/ Batch(r) \/ Close(r) \/ Merge(r)
      <4>1. \/ pc' = pc
            \/ \E p \in {"open_check", "finalize", "open_checked", "dir_made", "batch", "close",
                         "reduce", "closed"} : pc' = [pc EXCEPT ![r] = p]
        BY <3>1
        DEF Setup, SetupThrows, SetupFresh, SetupRestart, Open, OpenThrows, OpenCheck, MakeDir,
            OpenFiles, EnterBatch, ConstructorThrows, Batch, BatchFailed, BatchDone, Close,
            Merge, MergeSkip, MergeCopy, MergeAppend, MergeClose, MergeUnlink, MergeRemove, MergeDone
      <4> QED BY <2>1, <2>2, <4>1
    <3>2. ASSUME NEW t \in Thread, Trial(r, t)
          PROVE  FALSE
      BY <2>2, <3>2
      DEF Trial, SkipTrial, BeginTrial, WriteTrial, FinishTrial, TaskUnchanged
    <3>3. ASSUME SyncRead(r) \/ SyncWrite(r)
          PROVE  FALSE
      <4>1. pc[r] \in {"sync_read", "sync_write"}  BY <3>3 DEF SyncRead, SyncWrite
      <4>2. r = 0  BY <4>1 DEF IInv, RootOnly
      <4> QED BY <1>4, <4>1, <4>2
    <3> QED BY <2>3, <3>1, <3>2, <3>3 DEF RankStep, Save
  <2>4. ASSUME Collective
        PROVE  Barrier /\ pc[0] = "closed"
    <3>1. ~Reduce /\ ~Finalize  BY <1>1, <1>4 DEF Reduce, Finalize, Forget
    <3>2. Barrier => pc'[0] = AfterBarrier(0)  BY <1>1 DEF Barrier
    <3> QED BY <1>4, <2>4, <3>1, <3>2 DEF Collective, AfterBarrier
  <2>5. ASSUME Outside
        PROVE  FALSE
    <3>1. ~Crash /\ \A n \in RankCounts, again \in BOOLEAN : ~Launch(n, again)
      BY <1>1 DEF Crash, Forget, Launch
    <3> QED
      BY <1>4, <2>5, <3>1
      DEF Outside, SigtermArrives, FailTrial, TaskUnchanged, DeleteUnreadable
  <2>6. ~Finished /\ ~UNCHANGED vars  BY <1>4 DEF Finished, vars
  <2> QED BY <2>3, <2>4, <2>5, <2>6 DEF Next
<1> QED BY <1>3, <1>4

\* Where the files have what they had, the session has the trials it had.
LEMMA NewSame ==
  ASSUME DoneKept, UNCHANGED <<size, restart, prior, restartMax>>
  PROVE  /\ \A q \in Rank : NewDone(q)' = NewDone(q)
         /\ Active' = Active /\ DoneOnDisk' = DoneOnDisk
<1>1. \A q \in Rank : DoneBy(q)' = DoneBy(q)  BY DoneBySame
<1>2. \A q : NumberingStart(q)' = NumberingStart(q)  BY NumberingSame
<1>3. DoneOnDisk' = DoneOnDisk  BY DoneSame
<1> QED BY <1>1, <1>2, <1>3 DEF NewDone, Active

\* Nor more by the ranks before one.
LEMMA NewUpToSame ==
  ASSUME NEW k \in Nat, k <= MaxRanks, \A q \in Rank : NewDone(q)' = NewDone(q)
  PROVE  NewUpTo(k)' = NewUpTo(k)
<1>1. \A q \in 0 .. k - 1 : q \in Rank  BY OutputAssumption DEF Rank
<1> QED BY <1>1 DEF NewUpTo

\* While the ranks synchronise, all of them know the checkpoint.
LEMMA SyncKnows ==
  ASSUME IInv, pc[0] \in {"sync_read", "sync_write"}
  PROVE  /\ 0 \in Active /\ 0 \in Rank /\ Active \subseteq Rank /\ size \in Nat
         /\ \A q \in Active : Knows(q) /\ q \in Nat /\ chkNum[q] = chkNum[0]
         /\ sync.next \in Active
<1>1. 0 \in Rank  BY OutputAssumption DEF Rank
<1>2. 0 \in Active /\ Active \subseteq Rank  BY <1>1, ActiveRanks
<1>3. \A q \in Active : pc[q] \in SyncPcs /\ chkNum[q] = chkNum[0]  BY <1>1, Together DEF SyncPcs
<1>4. sync.next < size /\ sync.next \in Rank /\ size \in Nat  BY DEF IInv, SyncVisitsRanks, TypeOK
<1>5. sync.next \in Active
  <2>1. sync.next \in Nat  BY <1>4 DEF Rank
  <2> QED BY <1>4, <2>1 DEF Active
<1> QED BY <1>1, <1>2, <1>3, <1>4, <1>5 DEF Knows, Rank

\* Rank 0 adds the share of one rank, at the end that of earlier sessions.
LEMMA CountRead ==
  ASSUME NumbersInv, DoneHasRows, OthersOld, NewBounded, CountsKnown, BudgetKept, CountSynced,
         SyncRead(0)
  PROVE  CountSynced'
<1>0. PICK n \in Rank, tc \in Nat : n = sync.next /\ tc = sync.tc
  BY DEF NumbersInv, DiskInv, IInv, TypeOK
<1>1. /\ pc[0] = "sync_read" /\ UNCHANGED <<size, restart, prior, restartMax, chkNum, count, disk>>
      /\ \/ n + 1 < size /\ pc'[0] = pc[0] /\ sync'.tc = tc + Share(n) /\ sync'.next = n + 1
         \/ /\ ~(n + 1 < size) /\ pc' = [pc EXCEPT ![0] = "sync_write"]
            /\ sync'.tc = (tc + Share(n)) + prior[0] /\ sync'.next = 0
  BY <1>0 DEF SyncRead
<1>2. /\ IInv /\ pc \in [Rank -> {"idle"} \cup CollectivePcs \cup LocalPcs]
      /\ \A q \in Rank : prior[q] \in Nat /\ count[q] \in Nat
  BY DEF NumbersInv, DiskInv, IInv, TypeOK
<1>3. /\ 0 \in Active /\ 0 \in Rank /\ Active \subseteq Rank /\ size \in Nat
      /\ \A q \in Active : Knows(q) /\ q \in Nat /\ ~(q < 0)
      /\ n \in Active
  BY <1>0, <1>1, <1>2, SyncKnows
<1>4. n < size /\ size <= MaxRanks /\ MaxRanks \in Nat
  BY <1>2, <1>3, OutputAssumption DEF Active, IInv, TypeOK
<1>5. Share(n) = Cardinality(NewDone(n)) /\ prior[0] = Cardinality(OldDone(0))
  <2>1. Left(n).tc = prior[n] + count[n]  BY <1>1, <1>3 DEF CountSynced, TrialsCompleted
  <2>2. prior[n] = prior[0]  BY <1>2, <1>3, SameNumbering
  <2>3. count[n] = Cardinality(NewDone(n)) /\ prior[0] = Cardinality(OldDone(0))
    BY <1>3 DEF CountsKnown
  <2>4. Left(n).tc - prior[0] = count[n]  BY <1>2, <1>3, <2>1, <2>2
  <2> QED BY <2>3, <2>4 DEF Share
<1>6. tc = Cardinality(NewUpTo(n))  BY <1>0, <1>1 DEF CountSynced
<1>7. Cardinality(NewUpTo(n + 1)) = tc + Share(n)  BY <1>3, <1>5, <1>6, NewMore
<1>8. Cardinality(DoneOnDisk) = Cardinality(NewUpTo(size)) + prior[0]  BY <1>3, <1>5, NewAndOld
<1>9. DoneKept  BY <1>1 DEF DoneKept, disk
<1>10. /\ \A q \in Rank : NewDone(q)' = NewDone(q)
       /\ Active' = Active /\ DoneOnDisk' = DoneOnDisk
  BY <1>1, <1>9, NewSame
<1>11. \A q \in Active : Left(q)'.tc = TrialsCompleted(q)'
  BY <1>1, <1>3 DEF CountSynced, Left, TrialsCompleted, disk
<1>12. CASE n + 1 < size
  <2>1. n + 1 \in Nat /\ n + 1 <= MaxRanks  BY <1>3, <1>4
  <2>2. NewUpTo(n + 1)' = NewUpTo(n + 1)  BY <1>10, <2>1, NewUpToSame
  <2>3. pc'[0] = "sync_read" /\ sync'.tc = Cardinality(NewUpTo(sync.next)')
    BY <1>1, <1>7, <1>12, <2>2 DEF NewUpTo
  <2> QED BY <1>10, <1>11, <2>3 DEF CountSynced
<1>13. CASE ~(n + 1 < size)
  <2>1. n + 1 = size  BY <1>3, <1>4, <1>13
  <2>2. pc'[0] = "sync_write" /\ sync'.tc = Cardinality(DoneOnDisk') /\ sync'.next = 0
    BY <1>1, <1>2, <1>3, <1>7, <1>8, <1>10, <1>13, <2>1
  <2> QED BY <1>3, <1>10, <1>11, <2>2 DEF CountSynced
<1> QED BY <1>12, <1>13

\* It gives the sum to one file after the other.
LEMMA CountWrite ==
  ASSUME NumbersInv, DoneHasRows, CountSynced, SyncWrite(0)
  PROVE  CountSynced'
<1>0. PICK n \in Rank, k \in Chk : n = sync.next /\ k = chkNum[0]
  <2>1. 0 \in Rank  BY OutputAssumption DEF Rank
  <2> QED BY <2>1 DEF NumbersInv, DiskInv, IInv, TypeOK
<1>1. /\ pc[0] = "sync_write" /\ UNCHANGED <<size, restart, prior, restartMax, chkNum, count>>
      /\ \/ n + 1 < size /\ pc' = pc /\ sync' = [sync EXCEPT !.next = n + 1]
         \/ ~(n + 1 < size) /\ pc' = [pc EXCEPT ![0] = "synced"]
  BY <1>0 DEF SyncWrite
<1>2. /\ IInv /\ pc \in [Rank -> {"idle"} \cup CollectivePcs \cup LocalPcs]
      /\ FilesNew /\ NoFileNoRows /\ sync \in [tc : Nat, mx : Nat, next : Rank]
  BY DEF NumbersInv, DiskInv, IInv, TypeOK
<1>3. /\ 0 \in Active /\ 0 \in Rank /\ Active \subseteq Rank /\ size \in Nat
      /\ \A q \in Active : q \in Nat
      /\ n \in Active
  BY <1>0, <1>1, <1>2, SyncKnows
<1>4. OnlyFile(k, n) /\ files'[k][n] = [files[k][n] EXCEPT !.tc = sync.tc, !.mx = sync.mx]
  BY <1>0, <1>2, <1>3, SyncEffect
<1>5. files'[k][n].tc = sync.tc
  <2>1. files[k][n] \in File  BY <1>2 DEF IInv, TypeOK, DiskTypeOK
  <2> QED BY <1>4, <2>1 DEF File
<1>6. ContentKept  BY <1>2, <1>3, OwnFileContent
<1>7. /\ \A q \in Rank : NewDone(q)' = NewDone(q)
      /\ Active' = Active /\ DoneOnDisk' = DoneOnDisk
  <2>1. DoneKept  BY <1>6 DEF ContentKept, DoneKept
  <2> QED BY <1>1, <2>1, NewSame
<1>8. CASE n + 1 < size
  <2>1. pc'[0] = "sync_write" /\ sync'.tc = sync.tc /\ sync'.next = n + 1  BY <1>1, <1>2, <1>8
  <2>2. ASSUME NEW q \in Active
        PROVE  Left(q)'.tc = IF q < n + 1 THEN sync.tc ELSE TrialsCompleted(q)'
    <3>1. Left(q).tc = IF q < n THEN sync.tc ELSE TrialsCompleted(q)  BY <1>0, <1>1 DEF CountSynced
    <3>2. Left(q)'.tc = IF q = n THEN sync.tc ELSE Left(q).tc
      BY <1>0, <1>1, <1>3, <1>4, <1>5 DEF Left, OnlyFile
    <3>3. TrialsCompleted(q)' = TrialsCompleted(q)  BY <1>1 DEF TrialsCompleted
    <3>4. q < n + 1 <=> q < n \/ q = n  BY <1>3
    <3> QED BY <3>1, <3>2, <3>3, <3>4
  <2> QED BY <1>1, <1>7, <2>1, <2>2 DEF CountSynced
<1>9. CASE ~(n + 1 < size)
  <2>1. pc'[0] = "synced"  BY <1>1, <1>2, <1>3, <1>9
  <2> QED BY <2>1 DEF CountSynced
<1> QED BY <1>8, <1>9

\* All files are closed, and rank 0 begins with the first.
LEMMA CountBarrier ==
  ASSUME NumbersInv, Barrier, pc[0] = "closed"
  PROVE  CountSynced'
<1>1. /\ UNCHANGED <<size, restart, prior, restartMax, count, disk, sync>> /\ IInv /\ 0 \in Rank
      /\ \A q \in Active : pc[q] \in BarrierPcs
      /\ \A q \in Rank : /\ pc'[q] = AfterBarrier(q)
                         /\ pc[q] # "synced" => chkNum'[q] = chkNum[q]
  <2>1. 0 \in Rank  BY OutputAssumption DEF Rank
  <2> QED BY <2>1 DEF Barrier, NumbersInv, DiskInv
<1>2. /\ 0 \in Active /\ Active \subseteq Rank /\ Active' = Active
  BY <1>1, ActiveRanks DEF Active
<1>3. pc'[0] = "sync_read" /\ sync.next = 0 /\ sync.tc = 0 /\ chkNum'[0] = chkNum[0]
  BY <1>1 DEF AfterBarrier, IInv, SyncVisitsRanks, NoSync
<1>4. ASSUME NEW q \in Active
      PROVE  ~(q < 0) /\ Left(q)'.tc = TrialsCompleted(q)'
  <2>1. pc[q] = "closed" /\ chkNum[q] = chkNum[0] /\ q \in Rank
    <3>1. pc[q] \in RunPcs /\ chkNum[q] = chkNum[0]  BY <1>1, <1>2, Together DEF RunPcs
    <3> QED BY <1>1, <1>2, <3>1 DEF RunPcs, BarrierPcs
  <2>2. files[chkNum[q]][q].tc = TrialsCompleted(q)  BY <1>1, <2>1 DEF IInv, ClosedFileCounts
  <2>3. Left(q)' = files[chkNum[q]][q] /\ TrialsCompleted(q)' = TrialsCompleted(q)
    BY <1>1, <1>3, <2>1 DEF Left, TrialsCompleted, disk
  <2> QED BY <2>1, <2>2, <2>3 DEF Rank
<1>5. Cardinality(NewUpTo(0)') = 0
  <2>1. NewUpTo(0)' = {}  BY DEF NewUpTo
  <2> QED BY <2>1, FS_EmptySet
<1>6. NewUpTo(sync.next)' = NewUpTo(0)'  BY <1>1, <1>3 DEF NewUpTo
<1> QED BY <1>1, <1>2, <1>3, <1>4, <1>5, <1>6 DEF CountSynced

\* The number of trials rank 0 writes into the files is that of all trials done.
LEMMA CountSyncedStep ==
  ASSUME NumbersInv, DoneHasRows, OthersOld, NewBounded, CountsKnown, BudgetKept, CountSynced,
         [Next]_vars
  PROVE  CountSynced'
<1>1. IInv  BY DEF NumbersInv, DiskInv
<1>2. CASE pc'[0] \notin {"sync_read", "sync_write"}  BY <1>2 DEF CountSynced
<1>3. CASE /\ UNCHANGED <<size, restart, prior, restartMax, chkNum, count, sync, pc, disk>>
           /\ pc'[0] \in {"sync_read", "sync_write"}
  <2>1. DoneKept  BY <1>3 DEF DoneKept, disk
  <2>2. /\ \A q \in Rank : NewDone(q)' = NewDone(q)
        /\ Active' = Active /\ DoneOnDisk' = DoneOnDisk
    BY <1>3, <2>1, NewSame
  <2>3. NewUpTo(sync.next)' = NewUpTo(sync.next)
    <3>1. sync.next \in Nat /\ sync.next <= MaxRanks
      BY <1>1, OutputAssumption DEF IInv, TypeOK, Rank
    <3> QED BY <1>3, <2>2, <3>1, NewUpToSame DEF NewUpTo
  <2>4. \A q : Left(q)' = Left(q) /\ TrialsCompleted(q)' = TrialsCompleted(q)
    BY <1>3 DEF Left, TrialsCompleted, disk
  <2> QED BY <1>3, <2>2, <2>3, <2>4 DEF CountSynced
<1> QED BY <1>1, <1>2, <1>3, SyncMoves, CountRead, CountWrite, CountBarrier

-----------------------------------------------------------------------------
(* A number of trials all files agree on.                                  *)

\* The numbers of trials in the files, and which of them agree.
CountsInv == EarlierAgree /\ CountsAccurate

\* No file gets another number of trials, none is closed that a restart could not
\* read, and no trial comes to those up to a checkpoint.
LEMMA CountsKept ==
  ASSUME CountsAccurate,
         \A c \in Chk : h5'[c].st \in {"open", "closed"} =>
           \/ h5[c].st \in {"open", "closed"} /\ h5'[c].tc = h5[c].tc
           \/ Agreeing(c) /\ \E q \in RanksIn(c) : h5'[c].tc = files[c][q].tc,
         \A c \in Chk : HasH5(c)' \/ RanksIn(c)' # {} => DoneUpTo(c)' = DoneUpTo(c),
         \A c \in Chk, r \in Rank :
           files'[c][r].st # "none" => /\ files[c][r].st # "none"
                                       /\ files'[c][r].tc = files[c][r].tc,
         \A c \in Chk : Agreeing(c)' => Agreeing(c) \/ RanksIn(c)' = {}
  PROVE  CountsAccurate'
<1>1. ASSUME NEW c \in Chk, h5'[c].st \in {"open", "closed"}
      PROVE  h5'[c].tc = Cardinality(DoneUpTo(c)')
  <2>1. h5'[c].tc = Cardinality(DoneUpTo(c))  BY <1>1 DEF CountsAccurate
  <2>2. DoneUpTo(c)' = DoneUpTo(c)  BY <1>1 DEF HasH5
  <2> QED BY <2>1, <2>2
<1>2. ASSUME NEW c \in Chk, Agreeing(c)', NEW r \in RanksIn(c)'
      PROVE  files'[c][r].tc = Cardinality(DoneUpTo(c)')
  <2>1. Agreeing(c) /\ r \in RanksIn(c) /\ files'[c][r].tc = files[c][r].tc  BY <1>2 DEF RanksIn
  <2>2. files[c][r].tc = Cardinality(DoneUpTo(c)) /\ DoneUpTo(c)' = DoneUpTo(c)
    BY <1>2, <2>1 DEF CountsAccurate
  <2> QED BY <2>1, <2>2
<1> QED BY <1>1, <1>2 DEF CountsAccurate

\* Nor more in the checkpoints up to one.
LEMMA UpToSame ==
  ASSUME NEW c \in Chk, \A d \in 0 .. c : DoneIn(d)' = DoneIn(d)
  PROVE  DoneUpTo(c)' = DoneUpTo(c)
BY DEF DoneUpTo

\* Nothing on disk changes.
LEMMA CountsDisk ==
  ASSUME UNCHANGED disk
  PROVE  /\ FoundCheckpoints' = FoundCheckpoints
         /\ \A c : /\ CountsAgree(c)' = CountsAgree(c) /\ HasH5(c)' = HasH5(c)
                   /\ Agreeing(c)' = Agreeing(c)
                   /\ RanksIn(c)' = RanksIn(c) /\ DoneUpTo(c)' = DoneUpTo(c)
<1>1. FoundCheckpoints' = FoundCheckpoints /\ \A c : Settled(c)' = Settled(c) /\ HasH5(c)' = HasH5(c)
  BY ReadableSame
<1>2. \A c : /\ CountsAgree(c)' = CountsAgree(c) /\ RanksIn(c)' = RanksIn(c)
             /\ DoneIn(c)' = DoneIn(c)
  BY DEF disk, CountsAgree, RanksIn, DoneIn
<1> QED BY <1>1, <1>2 DEF Agreeing, DoneUpTo

\* Nothing on disk changes, and the numbers of trials stay right.
LEMMA CountsSame ==
  ASSUME CountsInv, UNCHANGED disk, SyncOver' => SyncOver
  PROVE  CountsInv'
<1>1. EarlierAgree'  BY CountsDisk DEF CountsInv, EarlierAgree, SyncOver
<1>2. CountsAccurate'
  <2>1. UNCHANGED <<files, h5>>  BY DEF disk
  <2> QED BY <2>1, CountsDisk DEF CountsInv, CountsAccurate
<1> QED BY <1>1, <1>2 DEF CountsInv

\* A rank finds the name of its checkpoint free: of those before it a restart
\* has read the last.
LEMMA CountsCheck ==
  ASSUME DiskInv, SetupReads, CountsInv, NEW r \in Rank, OpenCheck(r)
  PROVE  CountsInv'
<1>1. /\ pc[r] = "open_check" /\ pc' = [pc EXCEPT ![r] = "open_checked"]
      /\ UNCHANGED <<inRun, disk>> /\ ~Exists(chkNum[r])
  BY DEF OpenCheck
<1>2. /\ pc \in [Rank -> {"idle"} \cup CollectivePcs \cup LocalPcs]
      /\ \A q \in Rank : chkNum[q] \in Chk
      /\ IInv /\ r \in Active
  BY <1>1, ActiveRanks DEF DiskInv, IInv, TypeOK
<1>3. CASE r # 0 \/ inRun[0]
  <2>1. SyncOver' => SyncOver  BY <1>1, <1>2, <1>3 DEF SyncOver, NameFree
  <2> QED BY <1>1, <2>1, CountsSame
<1>4. CASE r = 0 /\ ~inRun[0]
  <2>1. ASSUME NEW c \in Chk
        PROVE  CountsAgree(c)
    <3>1. CASE c \notin FoundCheckpoints
      <4>1. RanksIn(c) = {}  BY <3>1, NothingBeyond DEF DiskInv, RanksIn
      <4> QED BY <4>1 DEF CountsAgree
    <3>2. CASE HasH5(c) \/ \E d \in FoundCheckpoints : c < d  BY <3>2 DEF CountsInv, EarlierAgree
    <3>3. CASE c \in FoundCheckpoints /\ ~HasH5(c) /\ ~\E d \in FoundCheckpoints : c < d
      <4>1. /\ MaxCheckpoint \in FoundCheckpoints /\ c <= MaxCheckpoint
            /\ MaxCheckpoint \in Chk
        BY <3>3, MaxCheckpointLast, MaxCheckpointType
      <4>2. c = MaxCheckpoint  BY <3>3, <4>1, OutputAssumption DEF Chk
      <4>3. restart
        <5>1. SUFFICES ASSUME ~restart
                       PROVE  FALSE
          OBVIOUS
        <5>2. chkNum[0] = 0  BY <1>1, <1>2, <1>4, <5>1 DEF IInv, SetupReadsDisk
        <5>3. 0 \in FoundCheckpoints  BY <3>3, OutputAssumption DEF DiskInv, NoGaps, Chk
        <5> QED BY <1>1, <1>4, <5>2, <5>3 DEF FoundCheckpoints
      <4>4. Readable(c)  BY <1>1, <1>4, <3>3, <4>2, <4>3 DEF SetupReads
      <4>5. RestartSource(c) = {files[c][q] : q \in RanksIn(c)}  BY <3>3 DEF RestartSource
      <4> QED BY <4>4, <4>5 DEF Readable, AttrsAgree, CountsAgree
    <3> QED BY <3>1, <3>2, <3>3
  <2>2. EarlierAgree'  BY <1>1, <2>1, CountsDisk DEF EarlierAgree
  <2>3. CountsAccurate'
    <3>1. UNCHANGED <<files, h5>>  BY <1>1 DEF disk
    <3> QED BY <1>1, <3>1, CountsDisk DEF CountsInv, CountsAccurate
  <2> QED BY <2>2, <2>3 DEF CountsInv
<1> QED BY <1>3, <1>4

\* A rank works on a file of the checkpoint being written.
LEMMA AgreeElsewhere ==
  ASSUME DiskInv, OwnInv, EarlierAgree, NEW r \in Rank, pc[r] \in RunPcs \cup SyncPcs,
         NEW q, OnlyFile(chkNum[r], q), ~SyncOver'
  PROVE  EarlierAgree'
<1>0. PICK k \in Chk : k = chkNum[r]  BY DEF DiskInv, IInv, TypeOK
<1>1. /\ FoundCheckpoints = 0 .. k /\ ~HasH5(k)
      /\ \A c \in Chk : c > k => ~HasH5(c) /\ RanksIn(c) = {}
  BY <1>0, LastOne
<1>2. /\ FoundCheckpoints' = FoundCheckpoints /\ \A c : HasH5(c)' = HasH5(c)
      /\ \A c \in Chk : c # k => \A p \in Rank : files'[c][p] = files[c][p]
  BY <1>0, FoundSame DEF OnlyFile, HasH5
<1> SUFFICES ASSUME NEW c \in Chk, HasH5(c) \/ \E d \in FoundCheckpoints : c < d
             PROVE  CountsAgree(c)'
  BY <1>2 DEF EarlierAgree, SyncOver
<1>3. c # k  BY <1>1, OutputAssumption DEF Chk
<1>4. CountsAgree(c)  BY DEF EarlierAgree
<1> QED BY <1>2, <1>3, <1>4 DEF CountsAgree, RanksIn

\* The numbers of the checkpoint being written are right once they agree.
LEMMA CountsElsewhere ==
  ASSUME DiskInv, OwnInv, CountsAccurate, NEW r \in Rank, pc[r] \in RunPcs \cup SyncPcs,
         NEW k, k = chkNum[r], NEW q, OnlyFile(k, q),
         Agreeing(k)' => \A p \in RanksIn(k)' : files'[k][p].tc = Cardinality(DoneUpTo(k)')
  PROVE  CountsAccurate'
<1>1. /\ k \in Chk /\ FoundCheckpoints = 0 .. k /\ ~HasH5(k)
      /\ \A c \in Chk : c > k => ~HasH5(c) /\ RanksIn(c) = {}
  BY LastOne
<1>2. /\ h5' = h5 /\ \A c : HasH5(c)' = HasH5(c)
      /\ \A c \in Chk : c # k => \A p \in Rank : files'[c][p] = files[c][p]
  BY DEF OnlyFile, HasH5
<1>3. \A c \in Chk : c # k => RanksIn(c)' = RanksIn(c) /\ DoneIn(c)' = DoneIn(c)
  BY <1>2 DEF RanksIn, DoneIn
<1>4. ASSUME NEW c \in Chk, c < k
      PROVE  DoneUpTo(c)' = DoneUpTo(c)
  <2>1. \A d \in 0 .. c : d \in Chk /\ d # k  BY <1>1, <1>4, OutputAssumption DEF Chk
  <2> QED BY <1>3, <2>1, UpToSame
<1>5. ASSUME NEW c \in Chk, h5'[c].st \in {"open", "closed"}
      PROVE  h5'[c].tc = Cardinality(DoneUpTo(c)')
  <2>1. HasH5(c)  BY <1>2, <1>5 DEF HasH5
  <2>2. c < k  BY <1>1, <2>1, OutputAssumption DEF Chk
  <2>3. h5[c].tc = Cardinality(DoneUpTo(c))  BY <1>2, <1>5 DEF CountsAccurate
  <2> QED BY <1>2, <1>4, <2>2, <2>3
<1>6. ASSUME NEW c \in Chk, Agreeing(c)', NEW p \in RanksIn(c)'
      PROVE  files'[c][p].tc = Cardinality(DoneUpTo(c)')
  <2>1. CASE c = k  BY <1>6, <2>1
  <2>2. CASE c # k
    <3>1. Agreeing(c) /\ p \in RanksIn(c) /\ files'[c][p] = files[c][p]
      BY <1>2, <1>3, <1>6, <2>2 DEF Agreeing, CountsAgree, Settled, RanksIn
    <3>2. c < k  BY <1>1, <2>2, <3>1, OutputAssumption DEF Chk
    <3>3. files[c][p].tc = Cardinality(DoneUpTo(c))  BY <3>1 DEF CountsAccurate
    <3> QED BY <1>4, <3>1, <3>2, <3>3
  <2> QED BY <2>1, <2>2
<1> QED BY <1>5, <1>6 DEF CountsAccurate

\* Only a restart reads a number to go on from.
LEMMA FreshStartStep ==
  ASSUME IInv, FreshStart, [Next]_vars
  PROVE  FreshStart'
<1>1. CASE Forget  BY <1>1 DEF Forget, FreshStart
<1>2. ASSUME NEW r \in Rank, SetupRestart(r)
      PROVE  FreshStart'
  BY <1>2 DEF SetupRestart, FreshStart
<1>3. ASSUME NEW n \in RankCounts, NEW again \in BOOLEAN, Launch(n, again)
      PROVE  FreshStart'
  <2>1. size = 0 /\ restartMax' = restartMax  BY <1>3 DEF Launch, Running
  <2>2. \A r \in Rank : pc[r] = "idle"
    <3>1. \A r \in Rank : r \in Nat  BY DEF Rank
    <3> QED BY <2>1, <3>1 DEF IInv, OnlyActiveRun
  <2> QED BY <2>1, <2>2 DEF IInv, FreshUntilSetup, FreshStart
<1>4. CASE UNCHANGED <<restart, restartMax>>  BY <1>4 DEF FreshStart
<1>5. \/ Forget \/ (\E r \in Rank : SetupRestart(r))
      \/ (\E n \in RankCounts, again \in BOOLEAN : Launch(n, again))
      \/ UNCHANGED <<restart, restartMax>>
  <2>1. ASSUME NEW r \in Rank, RankStep(r)
        PROVE  SetupRestart(r) \/ UNCHANGED <<restart, restartMax>>
    BY <2>1
    DEF RankStep, Setup, SetupThrows, SetupFresh, Open, OpenThrows, OpenCheck, MakeDir,
        OpenFiles, Trial, SkipTrial, BeginTrial, WriteTrial, FinishTrial, TaskUnchanged, Batch,
        BatchFailed, BatchDone, Save, Close, SyncRead, SyncWrite, Merge, MergeSkip, MergeCopy,
        MergeAppend, MergeClose, MergeUnlink, MergeRemove, MergeDone
  <2>2. Collective => Forget \/ UNCHANGED <<restart, restartMax>>
    BY DEF Collective, Reduce, Barrier, Finalize
  <2>3. \/ \A n \in RankCounts, again \in BOOLEAN : ~Launch(n, again)
        \/ \E n \in RankCounts, again \in BOOLEAN : Launch(n, again)
    OBVIOUS
  <2>4. ASSUME Outside, \A n \in RankCounts, again \in BOOLEAN : ~Launch(n, again)
        PROVE  Forget \/ UNCHANGED <<restart, restartMax>>
    BY <2>4
    DEF Outside, SigtermArrives, FailTrial, TaskUnchanged, Crash, DeleteUnreadable
  <2>5. Finished \/ UNCHANGED vars => UNCHANGED <<restart, restartMax>>  BY DEF Finished, vars
  <2> QED BY <2>1, <2>2, <2>3, <2>4, <2>5 DEF Next
<1> QED BY <1>1, <1>2, <1>3, <1>4, <1>5

\* A file that is open keeps its checkpoint from being read.
LEMMA CountsOpen ==
  ASSUME DiskInv, OwnInv, CountsInv, NEW r \in Rank,
         OpenFiles(r) \/ \E t \in Thread : WriteTrial(r, t) \/ FinishTrial(r, t)
  PROVE  CountsInv'
<1>0. PICK k \in Chk : k = chkNum[r]  BY DEF DiskInv, IInv, TypeOK
<1>1. IInv /\ 0 \in Rank /\ pc \in [Rank -> {"idle"} \cup CollectivePcs \cup LocalPcs]
  <2>1. 0 \in Rank  BY OutputAssumption DEF Rank
  <2> QED BY <2>1 DEF DiskInv, IInv, TypeOK
<1>2. pc[r] \in RunPcs /\ chkNum' = chkNum
  BY <1>1
  DEF OpenFiles, WriteTrial, FinishTrial, TaskUnchanged, RunPcs, IInv, TrialsOnlyInBatch
<1>3. OnlyFile(k, r) /\ files'[k][r].st = "open"
  <2>1. CASE OpenFiles(r)  BY <1>0, <1>1, <2>1, OpenEffect
  <2>2. ASSUME NEW t \in Thread, WriteTrial(r, t) \/ FinishTrial(r, t)
        PROVE  OnlyFile(k, r) /\ files'[k][r].st = "open"
    <3>1. OnlyFile(k, r) /\ files'[k][r].st = files[k][r].st
      BY <1>0, <1>1, <2>2, WriteEffect, FinishEffect
    <3>2. pc[r] = "batch"  BY <1>1, <2>2 DEF WriteTrial, FinishTrial, IInv, TrialsOnlyInBatch
    <3> QED BY <1>0, <3>1, <3>2 DEF OwnInv, FilesOpened, HasFile, OwnFile
  <2> QED BY <2>1, <2>2
<1>4. ~SyncOver'
  <2>1. pc[0] \in RunPcs \/ pc[0] = "idle"  BY <1>1, <1>2, ActiveRanks, Together
  <2>2. pc'[0] \in RunPcs \/ pc'[0] = "idle"
    BY <1>1, <2>1
    DEF OpenFiles, EnterBatch, WriteTrial, FinishTrial, TaskUnchanged, RunPcs
  <2> QED BY <2>2 DEF SyncOver, NameFree, RunPcs
<1>5. EarlierAgree'  BY <1>0, <1>2, <1>3, <1>4, AgreeElsewhere DEF CountsInv
<1>6. ~Agreeing(k)'  BY <1>3 DEF Agreeing, Settled, RanksIn, HasAttrs
<1>7. CountsAccurate'  BY <1>0, <1>2, <1>3, <1>6, CountsElsewhere DEF CountsInv
<1> QED BY <1>5, <1>7 DEF CountsInv

\* What is done is in the checkpoints up to that the ranks write.
LEMMA DoneToLast ==
  ASSUME NumbersInv, DoneHasRows, NEW r \in Rank, pc[r] \in RunPcs \cup SyncPcs
  PROVE  DoneUpTo(chkNum[r]) = DoneOnDisk
<1>1. DiskInv /\ OwnInv  BY DEF NumbersInv, OwnInv
<1>2. chkNum[r] \in Chk /\ FoundCheckpoints = 0 .. chkNum[r]  BY <1>1, LastOne
<1>3. FoundCheckpoints # {} /\ chkNum[r] \in FoundCheckpoints /\ chkNum[r] \in Nat
  BY <1>2, OutputAssumption DEF Chk
<1>4. MaxCheckpoint \in FoundCheckpoints /\ \A c \in FoundCheckpoints : c <= MaxCheckpoint
  BY <1>3, MaxCheckpointLast
<1>5. MaxCheckpoint = chkNum[r]
  <2>1. chkNum[r] <= MaxCheckpoint /\ MaxCheckpoint \in 0 .. chkNum[r]  BY <1>2, <1>3, <1>4
  <2> QED BY <1>3, <2>1
<1> QED BY <1>3, <1>5, DoneAll

\* A trial of the session is in a row of the rank, with a number no higher than the
\* highest of all ranks.
LEMMA NewHasRow ==
  ASSUME NumbersInv, DoneHasRows, NEW r \in Rank, pc[r] \in {"close", "closed"},
         NEW n \in NewDone(r), NEW m \in Nat, \A q \in Active : maxTrial[q] = m
  PROVE  n <= m
<1>1. /\ IInv /\ DiskInv /\ OwnInv /\ NoFileNoRows /\ HighInv
  BY DEF NumbersInv, DiskInv, OwnInv, HighInv
<1>2. PICK k \in Chk : k = chkNum[r]  BY <1>1 DEF IInv, TypeOK
<1>3. PICK c \in Chk : n \in files[c][r].done  BY DEF NewDone, DoneBy
<1>4. n \in Trials(files[c][r].rows)  BY <1>3 DEF DoneHasRows
<1>5. PICK row \in files[c][r].rows : row.trial = n  BY <1>4 DEF Trials
<1>6. row \in RowsIn(c) /\ c \in 0 .. k
  <2>1. c <= k
    <3>1. files[c][r].st # "none"  BY <1>1, <1>5 DEF NoFileNoRows
    <3>2. ~(c > k)  BY <1>1, <1>2, <3>1, LastOne DEF RanksIn, RunPcs
    <3> QED BY <3>2, OutputAssumption DEF Chk
  <2> QED BY <1>5, <2>1, RowsOfFile, OutputAssumption DEF Chk
<1>7. pc[r] \in RunPcs \cup SyncPcs /\ \A q \in Active : maxTrial[q] <= m  BY DEF RunPcs
<1>8. Covers(m, k)  BY <1>1, <1>2, <1>7, AllCovered
<1> QED BY <1>5, <1>6, <1>8 DEF Covers

\* Two ranks do not have the same highest number, unless it is from before.
LEMMA HighestDiffer ==
  ASSUME NumbersInv, MaxAttained, NEW q \in Rank, NEW r \in Rank, q # r, Knows(q), Knows(r),
         maxTrial[q] = maxTrial[r], restartMax[q] = restartMax[r]
  PROVE  maxTrial[r] = restartMax[r]
<1> SUFFICES ASSUME maxTrial[r] # restartMax[r]
             PROVE  FALSE
  OBVIOUS
<1>1. PICK c \in Chk : maxTrial[r] \in Trials(files[c][r].rows)  BY DEF MaxAttained
<1>2. PICK d \in Chk : maxTrial[q] \in Trials(files[d][q].rows)  BY DEF MaxAttained
<1>3. PICK x \in files[c][r].rows, y \in files[d][q].rows : x.trial = y.trial
  BY <1>1, <1>2 DEF Trials
<1>4. x \in RowsIn(c) /\ y \in RowsIn(d)  BY RowsOfFile
<1>5. c = d /\ x = y  BY <1>3, <1>4, UniqueMeans DEF NumbersInv
<1> QED BY <1>3, <1>5, UniqueMeans DEF NumbersInv

\* If the files agree when the last is closed, no rank but that has done a trial.
LEMMA OthersNothing ==
  ASSUME NumbersInv, DoneHasRows, NewBounded, CountsKnown, FreshStart, MaxAttained,
         NEW r \in Rank, Close(r), NEW k \in Chk, k = chkNum[r], Agreeing(k)',
         NEW q \in Active, q # r
  PROVE  NewDone(q) = {}
<1>1. /\ pc[r] = "close" /\ pc[r] \in RunPcs /\ r \in Active /\ Active \subseteq Rank /\ IInv
      /\ DiskInv /\ OwnInv /\ BatchInv
  BY ActiveRanks DEF Close, NumbersInv, DiskInv, OwnInv, BatchInv, RunPcs
<1>2. \A p \in Active : pc[p] \in RunPcs /\ chkNum[p] = k /\ p \in Rank /\ Knows(p)
  BY <1>1, Together DEF Knows
<1>3. \A p \in Active : /\ prior[p] = prior[r] /\ NumberingStart(p) = NumberingStart(r)
                        /\ NumberingEnd(p) = NumberingEnd(r)
  BY <1>1, <1>2, SameNumbering
<1>4. PICK first \in Nat, last \in Nat : first = NumberingStart(r) /\ last = NumberingEnd(r)
  BY <1>1, NumberingType DEF IInv
<1>5. CASE \E p \in Active : pc[p] = "open_files"
  <2>1. last <= first  BY <1>1, <1>2, <1>3, <1>4, <1>5 DEF BatchInv, BatchesTogether
  <2>2. NewDone(q) \subseteq first .. last - 1  BY <1>2, <1>3, <1>4, NewFinite
  <2> QED BY <2>1, <2>2, <1>4
<1>6. CASE \A p \in Active : pc[p] # "open_files"
  <2>1. /\ OnlyFile(k, r)
        /\ files'[k][r] = [files[k][r] EXCEPT !.st = "closed", !.tc = TrialsCompleted(r),
                                              !.mx = maxTrial[r], !.uid = nextUid[r]]
        /\ files'[k][r].st = "closed" /\ files'[k][r].mx = maxTrial[r]
    BY <1>1, CloseEffect
  <2>2. files'[k][r].tc = TrialsCompleted(r)
    <3>1. files[k][r] \in File  BY <1>1 DEF IInv, TypeOK, DiskTypeOK
    <3> QED BY <2>1, <3>1 DEF File
  <2>3. r \in RanksIn(k)'  BY <2>1 DEF RanksIn
  <2>4. \A p \in Rank : maxTrial[p] \in Nat /\ count[p] \in Nat /\ prior[p] \in Nat
                        /\ restartMax[p] \in Nat
    BY <1>1 DEF IInv, TypeOK
  <2>5. ASSUME NEW p \in Active, p # r
        PROVE  pc[p] = "closed" /\ maxTrial[p] = maxTrial[r] /\ count[p] = count[r]
    <3>1. /\ pc[p] \in RunPcs /\ chkNum[p] = k /\ p \in Rank /\ files'[k][p] = files[k][p]
      BY <1>2, <2>1, <2>5 DEF OnlyFile
    <3>2. files[k][p].st = IF pc[p] \in {"batch", "reduce", "close"} THEN "open" ELSE "closed"
      BY <1>1, <1>6, <3>1 DEF OwnInv, FilesOpened, HasFile, OwnFile, RunPcs
    <3>3. p \in RanksIn(k)'  BY <3>1, <3>2 DEF RanksIn
    <3>4. /\ files[k][p].st = "closed" /\ files[k][p].mx = maxTrial[r]
          /\ files[k][p].tc = TrialsCompleted(r)
      BY <2>1, <2>2, <2>3, <3>1, <3>3 DEF Agreeing, Settled, CountsAgree, HasAttrs
    <3>5. pc[p] = "closed"  BY <1>6, <3>1, <3>2, <3>4 DEF RunPcs
    <3>6. maxTrial[p] = maxTrial[r]  BY <3>1, <3>4, <3>5 DEF NumbersInv, HighestSynced, OwnFile
    <3>7. TrialsCompleted(p) = TrialsCompleted(r)
      BY <1>1, <3>1, <3>4, <3>5 DEF IInv, ClosedFileCounts
    <3>8. prior[r] + count[p] = prior[r] + count[r]  BY <1>3, <3>7 DEF TrialsCompleted
    <3>9. count[p] = count[r]  BY <2>4, <3>1, <3>8
    <3> QED BY <3>5, <3>6, <3>9
  <2> SUFFICES ASSUME NEW n \in NewDone(q)
               PROVE  FALSE
    OBVIOUS
  <2>6. PICK m \in Nat : m = maxTrial[r]  BY <2>4
  <2>7. PICK n1 \in NewDone(r) : TRUE
    <3>1. IsFiniteSet(NewDone(q)) /\ IsFiniteSet(NewDone(r))  BY <1>1, <1>2, NewFinite
    <3>2. Cardinality(NewDone(q)) # 0  BY <3>1, FS_EmptySet
    <3>3. Cardinality(NewDone(r)) = Cardinality(NewDone(q))  BY <1>1, <1>2, <2>5 DEF CountsKnown
    <3>4. NewDone(r) # {}  BY <3>2, <3>3, FS_EmptySet
    <3> QED BY <3>4
  <2>8. \A p \in Active : maxTrial[p] = m  BY <2>5, <2>6
  <2>9. n <= m /\ n1 <= m  BY <1>1, <1>2, <2>5, <2>8, NewHasRow
  <2>10. first <= n /\ first <= n1 /\ n \in DoneBy(q) /\ n1 \in DoneBy(r)  BY <1>3, <1>4 DEF NewDone
  <2>11. n \in Nat /\ n1 \in Nat  BY <1>1, <1>2, <2>10, DoneNat
  <2>12. n # n1  BY <1>1, <1>2, <2>10, NewDisjoint
  <2>13. restartMax[q] = restartMax[r]  BY <1>1, <1>2 DEF IInv, RanksAgree, Constructed, RunPcs
  <2>14. m = restartMax[r]  BY <1>1, <1>2, <2>6, <2>8, <2>13, HighestDiffer
  <2>15. CASE restart
    <3>1. first = m + 1  BY <1>4, <2>14, <2>15 DEF NumberingStart
    <3> QED BY <2>6, <2>9, <2>10, <2>11, <3>1
  <2>16. CASE ~restart
    <3>1. m = 0  BY <2>14, <2>16 DEF FreshStart
    <3> QED BY <2>9, <2>11, <2>12, <3>1
  <2> QED BY <2>15, <2>16
<1> QED BY <1>5, <1>6

\* So what it says is what all have done.
LEMMA CountsClose ==
  ASSUME NumbersInv, DoneHasRows, OthersOld, NewBounded, BudgetKept, CountsKnown, FreshStart,
         MaxAttained, CountsInv, NEW r \in Rank, Close(r)
  PROVE  CountsInv'
<1>0. PICK k \in Chk : k = chkNum[r]  BY DEF NumbersInv, DiskInv, IInv, TypeOK
<1>1. /\ pc[r] = "close" /\ pc' = [pc EXCEPT ![r] = "closed"] /\ chkNum' = chkNum
      /\ IInv /\ 0 \in Rank /\ pc \in [Rank -> {"idle"} \cup CollectivePcs \cup LocalPcs]
      /\ DiskInv /\ OwnInv /\ FilesNew /\ NoFileNoRows
      /\ count[r] \in Nat /\ prior[r] \in Nat
  <2>1. 0 \in Rank  BY OutputAssumption DEF Rank
  <2>2. DiskInv /\ OwnInv /\ FilesNew /\ NoFileNoRows /\ IInv  BY DEF NumbersInv, DiskInv, OwnInv
  <2>3. pc[r] = "close" /\ pc' = [pc EXCEPT ![r] = "closed"] /\ chkNum' = chkNum  BY DEF Close
  <2> QED BY <2>1, <2>2, <2>3 DEF IInv, TypeOK
<1>2. /\ pc[r] \in RunPcs /\ r \in Active /\ Active \subseteq Rank /\ size \in Nat
      /\ \A q \in Active : q \in Nat
  <2>1. pc[r] \in RunPcs /\ r \in Active /\ Active \subseteq Rank  BY <1>1, ActiveRanks DEF RunPcs
  <2>2. size \in Nat  BY <1>1, OutputAssumption DEF IInv, TypeOK
  <2> QED BY <2>1, <2>2 DEF Rank
<1>3. /\ OnlyFile(k, r) /\ files'[k][r].st = "closed"
      /\ files'[k][r].tc = TrialsCompleted(r)
  <2>1. files[k][r] \in File  BY <1>1 DEF IInv, TypeOK, DiskTypeOK
  <2> QED BY <1>0, <1>1, <2>1, CloseEffect DEF File
<1>4. ContentKept  BY <1>1, OwnFileContent
<1>5. ~SyncOver'
  <2>1. pc[0] \in RunPcs \/ pc[0] = "idle"  BY <1>1, <1>2, ActiveRanks, Together
  <2> QED BY <1>1, <2>1 DEF SyncOver, NameFree, RunPcs
<1>6. EarlierAgree'  BY <1>0, <1>1, <1>2, <1>3, <1>5, AgreeElsewhere DEF CountsInv
<1>7. ASSUME Agreeing(k)', NEW p \in RanksIn(k)'
      PROVE  files'[k][p].tc = Cardinality(DoneUpTo(k)')
  <2>1. r \in RanksIn(k)'  BY <1>3 DEF RanksIn
  <2>2. files'[k][p].tc = prior[r] + count[r]
    BY <1>3, <1>7, <2>1 DEF Agreeing, CountsAgree, TrialsCompleted
  <2>3. \A q \in Active : Knows(q)  BY <1>1, <1>2, Together DEF Knows
  <2>4. 0 \in Active  BY <1>2 DEF Active
  <2>5. \A q \in Active : q # r => NewDone(q) = {}  BY <1>0, <1>7, OthersNothing
  <2>6. NewUpTo(size) = NewDone(r)  BY <1>2, <2>5 DEF NewUpTo, Active
  <2>7. Cardinality(DoneOnDisk) = Cardinality(NewUpTo(size)) + Cardinality(OldDone(0))
    BY <2>3, <2>4, NewAndOld
  <2>8. /\ count[r] = Cardinality(NewDone(r)) /\ prior[0] = Cardinality(OldDone(0))
        /\ prior[0] = prior[r]
    BY <1>1, <1>2, <2>3, <2>4, SameNumbering DEF CountsKnown
  <2>9. Cardinality(DoneOnDisk) = prior[r] + count[r]  BY <1>1, <2>6, <2>7, <2>8
  <2>10. DoneUpTo(k) = DoneOnDisk  BY <1>0, <1>2, DoneToLast
  <2>11. DoneUpTo(k)' = DoneUpTo(k)
    <3>1. DoneKept  BY <1>4 DEF ContentKept, DoneKept
    <3>2. \A d \in 0 .. k : d \in Chk  BY OutputAssumption DEF Chk
    <3> QED BY <3>1, <3>2, DoneSame, UpToSame
  <2> QED BY <2>2, <2>9, <2>10, <2>11
<1>8. CountsAccurate'  BY <1>0, <1>1, <1>2, <1>3, <1>7, CountsElsewhere DEF CountsInv
<1> QED BY <1>6, <1>8 DEF CountsInv

\* Rank 0 gives a file the number of all trials; with the last file the checkpoint
\* is settled.
LEMMA CountsSync ==
  ASSUME NumbersInv, DoneHasRows, CountSynced, CountsInv, NEW r \in Rank, SyncWrite(r)
  PROVE  CountsInv'
<1>0. PICK k \in Chk, n \in Rank, tc \in Nat : k = chkNum[r] /\ n = sync.next /\ tc = sync.tc
  BY DEF NumbersInv, DiskInv, IInv, TypeOK
<1>1. /\ pc[r] = "sync_write" /\ chkNum' = chkNum
      /\ \/ n + 1 < size /\ pc' = pc
         \/ ~(n + 1 < size) /\ pc' = [pc EXCEPT ![r] = "synced"]
  BY <1>0 DEF SyncWrite
<1>2. /\ IInv /\ DiskInv /\ OwnInv /\ FilesNew /\ NoFileNoRows
  BY DEF NumbersInv, DiskInv, OwnInv
<1>3. /\ r = 0 /\ 0 \in Rank /\ pc \in [Rank -> {"idle"} \cup CollectivePcs \cup LocalPcs]
  <2>1. 0 \in Rank  BY OutputAssumption DEF Rank
  <2> QED BY <1>1, <1>2, <2>1 DEF IInv, RootOnly, TypeOK
<1>4. /\ 0 \in Active /\ Active \subseteq Rank /\ size \in Nat
      /\ \A q \in Active : q \in Nat /\ chkNum[q] = k
      /\ n \in Active /\ pc[r] \in SyncPcs
  BY <1>0, <1>1, <1>2, <1>3, SyncKnows DEF SyncPcs
<1>5. OnlyFile(k, n) /\ files'[k][n].tc = tc /\ files'[k][n].st = files[k][n].st
  <2>1. files[k][n] \in File  BY <1>2 DEF IInv, TypeOK, DiskTypeOK
  <2> QED BY <1>0, <1>2, <2>1, SyncEffect DEF File
<1>6. ContentKept  BY <1>2, OwnFileContent
<1>7. /\ FoundCheckpoints = 0 .. k
      /\ \A d \in Chk : d > k => RanksIn(d) = {}
      /\ \A q \in RanksIn(k) : q \in Active
  BY <1>0, <1>2, <1>4, LastOne
<1>8. ASSUME NEW q \in Active
      PROVE  files[k][q].st = "closed" /\ (q < n => files[k][q].tc = tc)
  <2>1. pc[q] \in SyncPcs  BY <1>2, <1>3, <1>4, Together
  <2>2. files[k][q].st = "closed"
    BY <1>2, <1>4, <2>1 DEF OwnInv, FilesOpened, HasFile, OwnFile, SyncPcs
  <2>3. q < n => files[k][q].tc = tc  BY <1>0, <1>1, <1>3 DEF CountSynced, Left
  <2> QED BY <2>2, <2>3
<1>9. tc = Cardinality(DoneUpTo(k)')
  <2>1. tc = Cardinality(DoneOnDisk)  BY <1>0, <1>1, <1>3 DEF CountSynced
  <2>2. DoneUpTo(k) = DoneOnDisk  BY <1>0, <1>4, DoneToLast
  <2>3. DoneUpTo(k)' = DoneUpTo(k)
    <3>1. DoneKept  BY <1>6 DEF ContentKept, DoneKept
    <3>2. \A d \in 0 .. k : d \in Chk  BY OutputAssumption DEF Chk
    <3> QED BY <3>1, <3>2, DoneSame, UpToSame
  <2> QED BY <2>1, <2>2, <2>3
<1>10. ASSUME Agreeing(k)', NEW p \in RanksIn(k)'
       PROVE  files'[k][p].tc = Cardinality(DoneUpTo(k)')
  <2>1. n \in RanksIn(k)'  BY <1>4, <1>5, <1>8 DEF RanksIn
  <2>2. files'[k][p].tc = tc  BY <1>5, <1>10, <2>1 DEF Agreeing, CountsAgree
  <2> QED BY <1>9, <2>2
<1>11. CountsAccurate'  BY <1>0, <1>2, <1>4, <1>5, <1>10, CountsElsewhere DEF CountsInv
<1>12. EarlierAgree'
  <2>1. CASE n + 1 < size
    <3>1. ~SyncOver'  BY <1>1, <1>3, <2>1 DEF SyncOver, NameFree
    <3> QED BY <1>0, <1>2, <1>4, <1>5, <3>1, AgreeElsewhere DEF CountsInv
  <2>2. CASE ~(n + 1 < size)
    <3> SUFFICES ASSUME NEW c \in Chk
                 PROVE  CountsAgree(c)'
      BY DEF EarlierAgree
    <3>2. c # k => CountsAgree(c)' = CountsAgree(c)  BY <1>5 DEF CountsAgree, RanksIn, OnlyFile
    <3>3. CASE c < k
      <4>1. k \in FoundCheckpoints /\ c # k  BY <1>7, <3>3, OutputAssumption DEF Chk
      <4> QED BY <3>2, <3>3, <4>1 DEF CountsInv, EarlierAgree
    <3>4. CASE c > k
      <4>1. c # k /\ RanksIn(c) = {}  BY <1>7, <3>4, OutputAssumption DEF Chk
      <4> QED BY <3>2, <4>1 DEF CountsAgree
    <3>5. CASE c = k
      <4>1. ASSUME NEW q \in RanksIn(k)'
            PROVE  files'[k][q].tc = tc
        <5>1. q \in RanksIn(k) /\ q \in Rank  BY <1>5 DEF RanksIn, OnlyFile
        <5>2. q \in Active  BY <1>7, <5>1
        <5>3. q < n \/ q = n
          <6>1. q < size /\ q \in Nat /\ n \in Nat  BY <1>4, <5>2 DEF Active
          <6> QED BY <1>4, <2>2, <6>1
        <5>4. CASE q = n  BY <1>5, <5>4
        <5>5. CASE q # n  BY <1>5, <1>8, <5>1, <5>2, <5>3, <5>5 DEF OnlyFile
        <5> QED BY <5>4, <5>5
      <4> QED BY <3>5, <4>1 DEF CountsAgree
    <3> QED BY <3>3, <3>4, <3>5, OutputAssumption DEF Chk
  <2> QED BY <2>1, <2>2
<1> QED BY <1>11, <1>12 DEF CountsInv

\* The consolidated file takes the number over from the first file, when all files
\* agree on it.
LEMMA CountsMerge ==
  ASSUME NumbersInv, DoneHasRows, CopiesOnly, CountsInv, NEW r \in Rank, Merge(r)
  PROVE  CountsInv'
<1>1. /\ pc[0] = "merge" /\ IInv /\ MergedSoFar /\ NoFileNoRows
  <2>1. pc[r] = "merge"
    BY DEF Merge, MergeSkip, MergeCopy, MergeAppend, MergeClose, MergeUnlink, MergeRemove, MergeDone
  <2> QED BY <2>1, MergeAlone DEF NumbersInv, DiskInv
<1>2. \A c \in Chk : Settled(c) /\ CountsAgree(c)
  BY <1>1 DEF NumbersInv, EarlierSettled, CountsInv, EarlierAgree
<1>3. \A c \in Chk : DoneUpTo(c)' = DoneUpTo(c)
  <2>1. \A c \in Chk : DoneIn(c)' = DoneIn(c)  BY <1>1, MergeDoneSame
  <2>2. \A c \in Chk : \A d \in 0 .. c : d \in Chk  BY OutputAssumption DEF Chk
  <2> QED BY <2>1, <2>2, UpToSame
<1>4. NoFile.st = "none"  BY DEF NoFile
<1>5. \A c \in Chk, q \in Rank : files'[c][q] = files[c][q] \/ files'[c][q] = NoFile
  BY <1>1, MergeEffect
<1>6. \A c \in Chk, q \in Rank : files'[c][q].st # "none" => files'[c][q] = files[c][q]
  BY <1>4, <1>5
<1>7. \A c \in Chk : CountsAgree(c)'  BY <1>2, <1>6 DEF CountsAgree, RanksIn
<1>8. ASSUME NEW c \in Chk, h5'[c].st \in {"open", "closed"}
      PROVE  \/ h5[c].st \in {"open", "closed"} /\ h5'[c].tc = h5[c].tc
             \/ Agreeing(c) /\ \E q \in RanksIn(c) : h5'[c].tc = files[c][q].tc
  <2>1. \/ h5'[c] = h5[c]
        \/ h5'[c].st = h5[c].st /\ h5'[c].tc = h5[c].tc
        \/ h5[c].st = "open" /\ h5'[c].tc = h5[c].tc
        \/ \E m \in RanksIn(c) : h5'[c].tc = files[c][m].tc
    BY <1>1, MergeContent DEF disk, Copied, Appended, Completed, Removed
  <2> QED BY <1>2, <1>8, <2>1 DEF Agreeing
<1>9. CountsAccurate'
  <2>1. \A c \in Chk : Agreeing(c)  BY <1>2 DEF Agreeing
  <2> QED BY <1>3, <1>6, <1>8, <2>1, CountsKept DEF CountsInv
<1>10. EarlierAgree'  BY <1>7 DEF EarlierAgree
<1> QED BY <1>9, <1>10 DEF CountsInv

\* A crash leaves the numbers of trials in the files as they are.
LEMMA CrashCounts ==
  ASSUME IInv, Crash
  PROVE  \A c \in Chk : h5'[c].tc = h5[c].tc /\ \A q \in Rank : files'[c][q].tc = files[c][q].tc
<1>0. /\ \A c \in Chk, q \in Rank :
           files'[c][q] = [files[c][q] EXCEPT !.st = files'[c][q].st]
      /\ \A c \in Chk : h5'[c] = [h5[c] EXCEPT !.st = h5'[c].st]
  BY CrashEffect
<1>1. \A c \in Chk : h5[c] \in File /\ \A q \in Rank : files[c][q] \in File
  BY DEF IInv, TypeOK, DiskTypeOK
<1>2. \A f \in File : \A st : [f EXCEPT !.st = st].tc = f.tc  BY DEF File
<1>3. ASSUME NEW c \in Chk, NEW q \in Rank
      PROVE  files'[c][q].tc = files[c][q].tc
  <2>0. PICK f \in File : f = files[c][q]  BY <1>1
  <2>1. PICK st : st = files'[c][q].st  OBVIOUS
  <2>2. files'[c][q] = [f EXCEPT !.st = st]  BY <1>0, <2>0, <2>1
  <2>3. [f EXCEPT !.st = st].tc = f.tc  BY <1>2
  <2> QED BY <2>0, <2>1, <2>2, <2>3
<1>4. ASSUME NEW c \in Chk
      PROVE  h5'[c].tc = h5[c].tc
  <2>0. PICK f \in File : f = h5[c]  BY <1>1
  <2>1. PICK st : st = h5'[c].st  OBVIOUS
  <2>2. h5'[c] = [f EXCEPT !.st = st]  BY <1>0, <2>0, <2>1
  <2>3. [f EXCEPT !.st = st].tc = f.tc  BY <1>2
  <2> QED BY <2>0, <2>1, <2>2, <2>3
<1> QED BY <1>3, <1>4

\* An interrupted checkpoint is read if its files had been synchronised.
LEMMA CountsCrash ==
  ASSUME IInv, CountsInv, Crash
  PROVE  CountsInv'
<1>1. /\ \A c \in Chk, q \in Rank :
           /\ files'[c][q].st = IF files[c][q].st = "open" THEN "torn" ELSE files[c][q].st
           /\ files'[c][q].mx = files[c][q].mx
      /\ \A c \in Chk :
           h5'[c].st \in IF h5[c].st = "open" THEN {"torn", "closed"} ELSE {h5[c].st}
      /\ hasDir' = hasDir
  BY CrashEffect
<1>2. \A c \in Chk : h5'[c].tc = h5[c].tc /\ \A q \in Rank : files'[c][q].tc = files[c][q].tc
  BY CrashCounts
<1>3. \A c \in Chk : RanksIn(c)' = RanksIn(c)  BY <1>1 DEF RanksIn
<1>4. \A c \in Chk : CountsAgree(c)' <=> CountsAgree(c)  BY <1>2, <1>3 DEF CountsAgree, RanksIn
<1>5. \A c \in Chk : Settled(c)' <=> Settled(c)  BY <1>1, <1>3 DEF Settled, HasAttrs, RanksIn
<1>6. \A c \in Chk : HasH5(c)' = HasH5(c)  BY <1>1 DEF HasH5
<1>7. FoundCheckpoints' = FoundCheckpoints  BY <1>1, <1>6 DEF FoundCheckpoints, Exists
<1>8. pc'[0] = "idle"  BY OutputAssumption DEF Crash, Forget, Rank
<1>9. EarlierAgree'  BY <1>4, <1>6, <1>7, <1>8 DEF CountsInv, EarlierAgree, NameFree
<1>10. \A c \in Chk : DoneUpTo(c)' = DoneUpTo(c)
  <2>1. DoneKept  BY CrashContent DEF ContentKept, DoneKept
  <2>2. \A c \in Chk : \A d \in 0 .. c : d \in Chk  BY OutputAssumption DEF Chk
  <2> QED BY <2>1, <2>2, DoneSame, UpToSame
<1>11. CountsAccurate'
  <2>1. \A c \in Chk : Agreeing(c)' <=> Agreeing(c)  BY <1>4, <1>5 DEF Agreeing
  <2>2. \A c \in Chk : h5'[c].st \in {"open", "closed"} => h5[c].st \in {"open", "closed"}  BY <1>1
  <2>3. \A c \in Chk, q \in Rank : files'[c][q].st # "none" => files[c][q].st # "none"  BY <1>1
  <2> QED BY <1>2, <1>10, <2>1, <2>2, <2>3, CountsKept DEF CountsInv
<1> QED BY <1>9, <1>11 DEF CountsInv

\* The user deletes the last checkpoint, which nothing counts on.
LEMMA CountsDelete ==
  ASSUME NumbersInv, DoneHasRows, CopiesOnly, CountsInv, DeleteUnreadable
  PROVE  CountsInv'
<1>0. IInv /\ NoFileNoRows /\ NoStrays  BY DEF NumbersInv, DiskInv
<1>1. /\ \A c \in Chk : h5'[c] \in {h5[c], NoFile}
      /\ \A c \in Chk, q \in Rank : files'[c][q] \in {files[c][q], NoFile}
      /\ \A c \in Chk : hasDir'[c] => hasDir[c]
      /\ \A c \in Chk : RanksIn(c)' # {} => \A q \in Rank : files'[c][q] = files[c][q]
      /\ pc'[0] = "idle"
  <2>1. 0 \in Rank  BY OutputAssumption DEF Rank
  <2>2. NoFile.st = "none"  BY DEF NoFile
  <2>3. CASE HasH5(MaxCheckpoint)  BY <1>0, <2>1, <2>3, DeleteEffect
  <2>4. CASE ~HasH5(MaxCheckpoint)  BY <1>0, <2>1, <2>2, <2>4, DeleteEffect DEF RanksIn
  <2> QED BY <2>3, <2>4
<1>2. NoFile.st = "none"  BY DEF NoFile
<1>3. \A c \in Chk : CountsAgree(c) => CountsAgree(c)'  BY <1>1 DEF CountsAgree, RanksIn
<1>4. \A c \in Chk : Agreeing(c)' => Agreeing(c) \/ RanksIn(c)' = {}
  BY <1>1 DEF Agreeing, CountsAgree, Settled, RanksIn
<1>5. FoundCheckpoints' \subseteq FoundCheckpoints /\ \A c \in Chk : HasH5(c)' => HasH5(c)
  BY <1>1, <1>2 DEF FoundCheckpoints, Exists, HasH5
<1>6. EarlierAgree'  BY <1>1, <1>3, <1>5 DEF CountsInv, EarlierAgree, NameFree
<1>7. ASSUME NEW c \in Chk, HasH5(c)' \/ RanksIn(c)' # {}
      PROVE  DoneUpTo(c)' = DoneUpTo(c)
  <2>1. PICK m \in Chk : m = MaxCheckpoint  BY <1>0, DeleteEffect
  <2>2. c \in FoundCheckpoints
    <3>1. HasH5(c) \/ \E q \in Rank : files[c][q].st # "none"  BY <1>1, <1>2, <1>5, <1>7 DEF RanksIn
    <3> QED BY <1>0, <3>1, NothingBeyond
  <2>3. c <= m  BY <1>0, <2>1, <2>2, DeleteContent
  <2>4. \A d \in 0 .. c : d \in Chk  BY OutputAssumption DEF Chk
  <2>5. \A d \in Chk : d # m => DoneIn(d)' = DoneIn(d)  BY <1>0, <2>1, DeleteDone
  <2>6. c = m => DoneIn(m)' = DoneIn(m)
    <3>1. SUFFICES ASSUME c = m, h5[m].st = "none", DoneIn(m)' # DoneIn(m)
                   PROVE  FALSE
      BY <1>0, <2>1, DeleteDone
    <3>2. /\ UNCHANGED h5 /\ \A q \in Rank : files'[m][q] = NoFile
      BY <1>0, <2>1, <3>1, DeleteContent
    <3>3. ~HasH5(m)' /\ RanksIn(m)' = {}  BY <1>2, <3>1, <3>2 DEF HasH5, RanksIn
    <3> QED BY <1>7, <3>1, <3>3
  <2>7. c # m => \A d \in 0 .. c : d # m  BY <2>3, OutputAssumption DEF Chk
  <2>8. \A d \in 0 .. c : DoneIn(d)' = DoneIn(d)  BY <2>4, <2>5, <2>6, <2>7
  <2> QED BY <2>8, UpToSame
<1>8. \A c \in Chk, q \in Rank : files'[c][q].st # "none" =>
        files[c][q].st # "none" /\ files'[c][q].tc = files[c][q].tc
  BY <1>1, <1>2
<1>9. \A c \in Chk : h5'[c].st \in {"open", "closed"} =>
        h5[c].st \in {"open", "closed"} /\ h5'[c].tc = h5[c].tc
  BY <1>1, <1>2
<1>10. CountsAccurate'  BY <1>4, <1>7, <1>8, <1>9, CountsKept DEF CountsInv
<1> QED BY <1>6, <1>10 DEF CountsInv

\* Rank 0 makes the directory of the next checkpoint when the others are settled.
LEMMA CountsMakeDir ==
  ASSUME IInv, CountsInv, NEW r \in Rank, MakeDir(r)
  PROVE  CountsInv'
<1>1. pc[r] = "make_dir" /\ UNCHANGED <<files, h5>>  BY DEF MakeDir, CreateDirectory
<1>2. r = 0  BY <1>1 DEF IInv, RootOnly
<1>3. \A c \in Chk : CountsAgree(c)  BY <1>1, <1>2 DEF CountsInv, EarlierAgree, NameFree
<1>4. \A c \in Chk : CountsAgree(c)' = CountsAgree(c) /\ Settled(c)' = Settled(c)
                     /\ RanksIn(c)' = RanksIn(c) /\ DoneIn(c)' = DoneIn(c)
  BY <1>1 DEF CountsAgree, Settled, RanksIn, DoneIn
<1>5. \A c \in Chk : DoneUpTo(c)' = DoneUpTo(c)
  <2>1. \A c \in Chk : \A d \in 0 .. c : d \in Chk  BY OutputAssumption DEF Chk
  <2> QED BY <1>4, <2>1, UpToSame
<1>6. CountsAccurate'
  <2>1. \A c \in Chk : Agreeing(c)' => Agreeing(c)  BY <1>4 DEF Agreeing
  <2> QED BY <1>1, <1>5, <2>1, CountsKept DEF CountsInv
<1>7. EarlierAgree'  BY <1>3, <1>4 DEF EarlierAgree
<1> QED BY <1>6, <1>7 DEF CountsInv

\* A restart that accepts a checkpoint reads the number of trials done.
LEMMA CountsStep ==
  ASSUME NumbersInv, DoneHasRows, CopiesOnly, OthersOld, NewBounded, BudgetKept, CountsKnown,
         FreshStart, MaxAttained, CountSynced, CountsInv, [Next]_vars
  PROVE  CountsInv'
<1>1. /\ IInv /\ DiskInv /\ OwnInv /\ SetupReads /\ 0 \in Rank
      /\ pc \in [Rank -> {"idle"} \cup CollectivePcs \cup LocalPcs]
      /\ inRun \in [Rank -> BOOLEAN]
  <2>1. 0 \in Rank  BY OutputAssumption DEF Rank
  <2>2. IInv /\ DiskInv /\ OwnInv /\ SetupReads  BY DEF NumbersInv, DiskInv, OwnInv
  <2> QED BY <2>1, <2>2 DEF IInv, TypeOK
<1> USE DEF SyncOver, NameFree
<1>2. ASSUME NEW n \in RankCounts, NEW again \in BOOLEAN, Launch(n, again)
      PROVE  CountsInv'
  <2>1. UNCHANGED disk /\ pc'[0] \in {"setup", "idle"}  BY <1>1, <1>2 DEF Launch
  <2> QED BY <2>1, CountsSame
<1>3. ASSUME NEW r \in Rank, Setup(r) \/ OpenThrows(r)
      PROVE  CountsInv'
  <2>1. /\ UNCHANGED <<disk, inRun>>
        /\ \/ pc[r] = "setup" /\ pc' = [pc EXCEPT ![r] = "open_check"]
           \/ pc' = [pc EXCEPT ![r] = "finalize"]
    BY <1>3
    DEF Setup, SetupThrows, SetupFresh, SetupRestart, OpenThrows, ConstructorThrows
  <2>2. pc[r] = "setup" => ~inRun[r]  BY <1>1 DEF IInv, FreshUntilSetup
  <2> QED BY <1>1, <2>1, <2>2, CountsSame
<1>4. ASSUME NEW r \in Rank,
             \/ Batch(r) \/ SyncRead(r) \/ SigtermArrives(r)
             \/ \E t \in Thread : SkipTrial(r, t) \/ BeginTrial(r, t) \/ FailTrial(r, t)
      PROVE  CountsInv'
  <2>1. /\ UNCHANGED <<disk, inRun>>
        /\ pc' = pc \/ \E p \in {"reduce", "close", "sync_write"} : pc' = [pc EXCEPT ![r] = p]
    BY <1>4
    DEF Batch, BatchDone, BatchFailed, SyncRead, SigtermArrives, SkipTrial, BeginTrial,
        FailTrial, TaskUnchanged
  <2> QED BY <1>1, <2>1, CountsSame
<1>5. CASE Reduce
  <2>1. UNCHANGED <<disk, inRun>> /\ (pc'[0] = pc[0] \/ pc'[0] = "close")  BY <1>1, <1>5 DEF Reduce
  <2> QED BY <2>1, CountsSame
<1>6. CASE Barrier
  <2>1. UNCHANGED <<disk, inRun>> /\ pc'[0] = AfterBarrier(0)  BY <1>1, <1>6 DEF Barrier
  <2>2. SyncOver' => SyncOver  BY <2>1 DEF AfterBarrier
  <2> QED BY <2>1, <2>2, CountsSame
<1>7. CASE Finalize
  <2>1. UNCHANGED disk /\ pc'[0] = "idle"  BY <1>1, <1>7 DEF Finalize, Forget
  <2> QED BY <2>1, CountsSame
<1>8. CASE UNCHANGED vars
  <2>1. UNCHANGED <<disk, inRun, pc>>  BY <1>8 DEF vars
  <2> QED BY <2>1, CountsSame
<1> QED
  BY <1>1, <1>2, <1>3, <1>4, <1>5, <1>6, <1>7, <1>8, CountsCheck, CountsOpen, CountsClose,
     CountsSync, CountsMerge, CountsCrash, CountsDelete, CountsMakeDir
  DEF Next, RankStep, Open, Trial, Save, Collective, Outside, Finished

-----------------------------------------------------------------------------
(* The ledger, and the ranks that wait.                                    *)

-----------------------------------------------------------------------------
(* How sessions end, and what they leave.                                  *)

\* Rank 0 comes to its end by consolidating, by synchronising its last checkpoint,
\* or by an error in its constructor; from then on only it touches the disk.
LEMMA EndMoves ==
  ASSUME IInv, [Next]_vars, pc'[0] \in EndPcs
  PROVE  \/ Merge(0)
         \/ Barrier /\ pc[0] = "synced" /\ exit[0] # "none"
         \/ pc'[0] = "finalize" /\ exit'[0] = "error"
         \/ UNCHANGED <<pc[0], exit[0], chkNum[0], merge, disk>>
<1> USE DEF EndPcs
<1>1. /\ pc \in [Rank -> {"idle"} \cup CollectivePcs \cup LocalPcs]
      /\ exit \in [Rank -> {"none", "done", "sigterm", "error"}]
      /\ chkNum \in [Rank -> Chk] /\ 0 \in Rank
      /\ RootOnly /\ ExitOnlyAtEnd /\ TrialsOnlyInBatch /\ OnlyActiveRun
  <2>1. 0 \in Rank  BY OutputAssumption DEF Rank
  <2> QED BY <2>1 DEF IInv, TypeOK
<1>2. CASE UNCHANGED <<pc, exit, chkNum, merge, disk>>  BY <1>2
<1>3. ASSUME NEW r \in Rank, pc[r] \in DirPcs \cup RunPcs \cup SyncPcs
      PROVE  pc[0] \notin EndPcs \cup {"setup", "open_check", "open_checked"}
  <2>1. pc[0] # "idle" => 0 \in Active  BY <1>1, ActiveRanks
  <2>2. CASE pc[r] \in DirPcs  BY <2>1, <2>2, Together DEF DirPcs
  <2>3. CASE pc[r] \in RunPcs  BY <2>1, <2>3, Together DEF RunPcs
  <2>4. CASE pc[r] \in SyncPcs  BY <2>1, <2>4, Together DEF SyncPcs
  <2> QED BY <1>3, <2>2, <2>3, <2>4
<1>4. ASSUME NEW r \in Rank, SetupThrows(r) \/ OpenThrows(r)
      PROVE  \/ pc'[0] = "finalize" /\ exit'[0] = "error"
             \/ UNCHANGED <<pc[0], exit[0], chkNum[0], merge, disk>>
  BY <1>1, <1>4 DEF SetupThrows, OpenThrows, ConstructorThrows
<1>5. ASSUME NEW r \in Rank, SetupFresh(r) \/ SetupRestart(r) \/ OpenCheck(r)
      PROVE  UNCHANGED <<pc[0], exit[0], chkNum[0], merge, disk>>
  <2>1. r # 0  BY <1>1, <1>5 DEF SetupFresh, SetupRestart, OpenCheck
  <2> QED BY <1>1, <1>5, <2>1 DEF SetupFresh, SetupRestart, OpenCheck
<1>6. ASSUME NEW r \in Rank,
             \/ MakeDir(r) \/ OpenFiles(r) \/ Close(r) \/ SyncRead(r) \/ SyncWrite(r) \/ Batch(r)
             \/ \E t \in Thread : WriteTrial(r, t) \/ FinishTrial(r, t)
      PROVE  FALSE
  <2>1. pc[r] \in DirPcs \cup RunPcs \cup SyncPcs
    BY <1>1, <1>6
    DEF MakeDir, OpenFiles, Close, SyncRead, SyncWrite, Batch, BatchFailed, BatchDone, BatchOver,
        WriteTrial, FinishTrial, TrialsOnlyInBatch, DirPcs, RunPcs, SyncPcs
  <2>2. pc[0] \notin EndPcs  BY <1>3, <2>1
  <2>3. pc'[0] # pc[0]  BY <2>2
  <2>4. \E p \in LocalPcs \cup CollectivePcs : pc' = [pc EXCEPT ![r] = p] /\ p \notin EndPcs
    <3>1. CASE MakeDir(r) \/ Close(r) \/ Batch(r)
      BY <3>1 DEF MakeDir, Close, Batch, BatchFailed, BatchDone, LocalPcs, CollectivePcs, BarrierPcs
    <3>2. CASE OpenFiles(r)  BY <3>2 DEF OpenFiles, EnterBatch, LocalPcs
    <3>3. CASE SyncRead(r) \/ SyncWrite(r)
      <4>1. pc' = [pc EXCEPT ![r] = "synced"] \/ pc' = [pc EXCEPT ![r] = "sync_write"]
        BY <2>3, <3>3 DEF SyncRead, SyncWrite
      <4> QED BY <4>1 DEF LocalPcs, CollectivePcs, BarrierPcs
    <3>4. CASE \E t \in Thread : WriteTrial(r, t) \/ FinishTrial(r, t)
      BY <2>3, <3>4 DEF WriteTrial, FinishTrial, TaskUnchanged
    <3> QED BY <1>6, <3>1, <3>2, <3>3, <3>4
  <2> QED BY <1>1, <2>3, <2>4
<1>7. ASSUME NEW r \in Rank, NEW t \in Thread, SkipTrial(r, t) \/ BeginTrial(r, t) \/ FailTrial(r, t)
      PROVE  UNCHANGED <<pc, exit, chkNum, merge, disk>>
  BY <1>7 DEF SkipTrial, BeginTrial, FailTrial, TaskUnchanged
<1>8. ASSUME NEW r \in Rank, Merge(r)
      PROVE  Merge(0)
  <2>1. r = 0
    BY <1>1, <1>8
    DEF RootOnly, Merge, MergeSkip, MergeCopy, MergeAppend, MergeClose, MergeUnlink, MergeRemove, MergeDone
  <2> QED BY <1>8, <2>1
<1>9. ASSUME Reduce
      PROVE  UNCHANGED <<pc[0], exit[0], chkNum[0], merge, disk>>
  <2>1. 0 \notin Active  BY <1>1, <1>9 DEF Reduce
  <2> QED BY <1>1, <1>9, <2>1 DEF Reduce
<1>10. ASSUME Barrier
       PROVE  \/ pc[0] = "synced" /\ exit[0] # "none"
              \/ UNCHANGED <<pc[0], exit[0], chkNum[0], merge, disk>>
  BY <1>1, <1>10 DEF Barrier, AfterBarrier
<1>11. Finalize \/ Crash => FALSE  BY <1>1 DEF Finalize, Crash, Forget
<1>12. \A n \in RankCounts, again \in BOOLEAN : ~Launch(n, again)  BY <1>1 DEF Launch
<1>13. ASSUME NEW r \in Rank, SigtermArrives(r)
       PROVE  UNCHANGED <<pc, exit, chkNum, merge, disk>>
  BY <1>13 DEF SigtermArrives
<1>14. DeleteUnreadable => FALSE
  <2>1. ASSUME DeleteUnreadable
        PROVE  FALSE
    <3>1. pc'[0] = "idle"  BY <1>1, <2>1, DeleteEffect
    <3> QED BY <3>1
  <2> QED BY <2>1
<1>15. Finished \/ UNCHANGED vars => UNCHANGED <<pc, exit, chkNum, merge, disk>>
  BY DEF Finished, vars
<1> QED
  BY <1>2, <1>4, <1>5, <1>6, <1>7, <1>8, <1>9, <1>10, <1>11, <1>12, <1>13, <1>14, <1>15
  DEF Next, RankStep, Setup, Open, Trial, Save, Collective, Outside

\* The outcome of a session is set when it ends.
LEMMA OutcomeMoves ==
  ASSUME IInv, [Next]_vars
  PROVE  /\ Running' => outcome' = "none" \/ (Running /\ outcome' = outcome)
         /\ outcome' \in {"done", "sigterm"} =>
              \/ /\ pc[0] = "finalize" /\ outcome' = exit[0] /\ UNCHANGED disk
              \/ outcome' = outcome /\ (Running \/ DeleteUnreadable \/ UNCHANGED disk)
<1>1. size \in Nat  BY OutputAssumption DEF IInv, TypeOK
<1>2. CASE Finalize
  <2>1. 0 \in Active  BY <1>1, <1>2 DEF Finalize, Running, Active
  <2> QED BY <1>2, <2>1 DEF Finalize, Forget, Running
<1>3. CASE Crash  BY <1>3 DEF Crash, Forget, Running
<1>4. ASSUME NEW n \in RankCounts, NEW again \in BOOLEAN, Launch(n, again)
      PROVE  outcome' = "none"
  BY <1>4 DEF Launch
<1>5. CASE UNCHANGED <<size, outcome>> /\ (Running \/ DeleteUnreadable \/ UNCHANGED disk)
  BY <1>5 DEF Running
<1>6. ASSUME NEW r \in Rank, RankStep(r) \/ (\E t \in Thread : FailTrial(r, t)) \/ SigtermArrives(r)
      PROVE  UNCHANGED <<size, outcome>> /\ Running
  <2>1. UNCHANGED <<size, outcome>> /\ pc[r] # "idle"
    <3>1. CASE RankStep(r)
      <4>1. UNCHANGED <<size, outcome>>
        BY <3>1
        DEF RankStep, Setup, SetupThrows, SetupFresh, SetupRestart, Open, OpenThrows, OpenCheck,
            MakeDir, OpenFiles, Trial, SkipTrial, BeginTrial, WriteTrial, FinishTrial,
            TaskUnchanged, Batch, BatchFailed, BatchDone, Save, Close, SyncRead, SyncWrite, Merge,
            MergeSkip, MergeCopy, MergeAppend, MergeClose, MergeUnlink, MergeRemove, MergeDone
      <4>2. pc[r] # "idle"
        BY <3>1
        DEF RankStep, Setup, SetupThrows, SetupFresh, SetupRestart, Open, OpenThrows, OpenCheck,
            MakeDir, OpenFiles, Trial, SkipTrial, BeginTrial, WriteTrial, FinishTrial,
            Batch, BatchFailed, BatchDone, BatchOver, Save, Close, SyncRead, SyncWrite, Merge,
            MergeSkip, MergeCopy, MergeAppend, MergeClose, MergeUnlink, MergeRemove, MergeDone, IInv,
            TrialsOnlyInBatch
      <4> QED BY <4>1, <4>2
    <3>2. CASE \E t \in Thread : FailTrial(r, t)
      BY <3>2 DEF FailTrial, TaskUnchanged, IInv, TrialsOnlyInBatch
    <3>3. CASE SigtermArrives(r)
      <4>1. inRun[r]  BY <3>3 DEF SigtermArrives
      <4> QED BY <3>3, <4>1 DEF SigtermArrives, IInv, FreshUntilSetup
    <3> QED BY <1>6, <3>1, <3>2, <3>3
  <2>2. r < size /\ r \in Nat  BY <2>1 DEF IInv, OnlyActiveRun, Rank
  <2> QED BY <1>1, <2>1, <2>2 DEF Running
<1>7. CASE Reduce \/ Barrier  BY <1>5, <1>7 DEF Reduce, Barrier
<1>8. CASE DeleteUnreadable  BY <1>5, <1>8 DEF DeleteUnreadable
<1>9. CASE Finished \/ UNCHANGED vars  BY <1>5, <1>9 DEF Finished, vars
<1>10. \/ \E n \in RankCounts, again \in BOOLEAN : Launch(n, again)
       \/ Finalize \/ Crash \/ Reduce \/ Barrier \/ DeleteUnreadable \/ Finished \/ UNCHANGED vars
       \/ \E r \in Rank : RankStep(r) \/ (\E t \in Thread : FailTrial(r, t)) \/ SigtermArrives(r)
  BY DEF Next, Collective, Outside
<1> QED BY <1>2, <1>3, <1>4, <1>5, <1>6, <1>7, <1>8, <1>9, <1>10

\* The last of the checkpoints from 0 up to k.
LEMMA LastOfAll ==
  ASSUME NEW k \in Chk, FoundCheckpoints = 0 .. k
  PROVE  FoundCheckpoints # {} /\ MaxCheckpoint = k
<1>1. k \in 0 .. k /\ \A c \in 0 .. k : c \in Int /\ c <= k  BY DEF Chk
<1>2. FoundCheckpoints # {}  BY <1>1
<1>3. MaxCheckpoint \in 0 .. k /\ k <= MaxCheckpoint  BY <1>1, <1>2, MaxCheckpointLast
<1> QED BY <1>1, <1>2, <1>3

\* A checkpoint that has been synchronised can be read.
LEMMA SyncedRestartable ==
  ASSUME NumbersInv, EarlierAgree, pc[0] = "synced"
  PROVE  MergeUnstarted /\ LastUnmerged /\ Restartable
<1>1. /\ IInv /\ DiskInv /\ OwnInv /\ 0 \in Rank /\ MergedSoFar
      /\ NoStrays /\ FilesOpened /\ EarlierSettled
  <2>1. 0 \in Rank  BY OutputAssumption DEF Rank
  <2> QED BY <2>1 DEF NumbersInv, DiskInv, OwnInv
<1>2. PICK k \in Chk : k = chkNum[0]  BY <1>1 DEF IInv, TypeOK
<1>3. FoundCheckpoints = 0 .. k /\ ~HasH5(k)  BY <1>1, <1>2, LastOne DEF SyncPcs
<1>4. files[k][0].st = "closed"  BY <1>1, <1>2 DEF FilesOpened, HasFile, SyncPcs, OwnFile
<1>5. 0 \in RanksIn(k) /\ hasDir[k]  BY <1>1, <1>2, <1>4 DEF RanksIn, NoStrays
<1>6. MergeUnstarted  BY <1>1, NothingMerging DEF EndPcs
<1>7. Settled(k) /\ CountsAgree(k)  BY <1>1, <1>2 DEF EarlierSettled, EarlierAgree
<1>8. Readable(k)
  <2>1. RestartSource(k) = {files[k][r] : r \in RanksIn(k)}  BY <1>3 DEF RestartSource
  <2>2. \A f \in RestartSource(k) : HasAttrs(f)  BY <1>7, <2>1 DEF Settled
  <2>3. \A f, g \in RestartSource(k) : f.tc = g.tc /\ f.mx = g.mx
    BY <1>7, <2>1 DEF Settled, CountsAgree
  <2> QED BY <1>5, <2>1, <2>2, <2>3 DEF Readable, AttrsAgree
<1> QED BY <1>2, <1>3, <1>5, <1>6, <1>8, LastOfAll DEF LastUnmerged, Restartable

\* What can be read stays so while nothing on disk changes.
LEMMA RestartableSame ==
  ASSUME UNCHANGED disk
  PROVE  Restartable' = Restartable
BY ReadableSame DEF Restartable

\* Nothing is consolidated meanwhile.
LEMMA LastUnmergedSame ==
  ASSUME UNCHANGED <<chkNum[0], merge, disk>>
  PROVE  LastUnmerged' = LastUnmerged /\ MergeUnstarted' = MergeUnstarted /\ MergeOver' = MergeOver
<1>1. UNCHANGED <<hasDir, files, h5>>  BY DEF disk
<1> QED
  BY <1>1
  DEF LastUnmerged, MergeUnstarted, MergeOver, FoundCheckpoints, Exists, HasH5, RanksIn

\* Consolidation leaves the checkpoints there are, in one form or the other.
LEMMA MergeFound ==
  ASSUME IInv, MergedSoFar, NEW r \in Rank, Merge(r)
  PROVE  FoundCheckpoints' = FoundCheckpoints
<1>1. CASE UNCHANGED <<hasDir, files, h5>>  BY <1>1 DEF FoundCheckpoints, Exists, HasH5
<1>2. CASE MergeCopy(r) /\ merge.chk \in Chk
  <2>1. hasDir' = hasDir /\ hasDir[merge.chk] /\ \A d \in Chk : d # merge.chk => h5'[d] = h5[d]
    <3>1. h5 \in [Chk -> File]  BY DEF IInv, TypeOK, DiskTypeOK
    <3> QED BY <1>2, <3>1 DEF MergeCopy, CopyFirstFile
  <2> QED BY <2>1 DEF FoundCheckpoints, Exists, HasH5
<1>3. ASSUME merge.chk \in Chk, hasDir' = hasDir, h5'[merge.chk].st # "none", h5[merge.chk].st # "none",
             \A d \in Chk : d # merge.chk => h5'[d] = h5[d]
      PROVE  FoundCheckpoints' = FoundCheckpoints
  BY <1>3 DEF FoundCheckpoints, Exists, HasH5
<1>4. ASSUME merge.chk \in Chk, h5' = h5, h5[merge.chk].st = "closed",
             \A d \in Chk : d # merge.chk => hasDir'[d] = hasDir[d]
      PROVE  FoundCheckpoints' = FoundCheckpoints
  BY <1>4 DEF FoundCheckpoints, Exists, HasH5
<1>5. MergeAppend(r) => h5[merge.chk].st # "none"  BY DEF MergeAppend, MergedSoFar, HasH5
<1> QED BY <1>1, <1>2, <1>3, <1>4, <1>5, MergeEffect

\* Consolidation comes to the last checkpoint at the end, and can then be read there.
LEMMA MergeLeft ==
  ASSUME NumbersInv, LeftReadable, Merge(0)
  PROVE  /\ pc'[0] = "merge" =>
              IF MergeOver' THEN MergeUnstarted' /\ Restartable' ELSE LastUnmerged'
         /\ pc'[0] = "finalize" => Restartable'
<1>1. /\ IInv /\ MergedSoFar /\ 0 \in Rank
      /\ pc \in [Rank -> {"idle"} \cup CollectivePcs \cup LocalPcs]
      /\ pc[0] = "merge" /\ MaxRanks \in Nat
  <2>1. 0 \in Rank /\ MaxRanks \in Nat  BY OutputAssumption DEF Rank
  <2>2. pc[0] = "merge"
    BY DEF Merge, MergeSkip, MergeCopy, MergeAppend, MergeClose, MergeUnlink, MergeRemove, MergeDone
  <2> QED BY <2>1, <2>2 DEF NumbersInv, DiskInv, IInv, TypeOK
<1>2. PICK k \in Chk : k = chkNum[0]  BY <1>1 DEF IInv, TypeOK
<1>3. chkNum' = chkNum
  BY DEF Merge, MergeSkip, MergeCopy, MergeAppend, MergeClose, MergeUnlink, MergeRemove, MergeDone
<1>4. IF MergeOver THEN MergeUnstarted /\ Restartable ELSE LastUnmerged  BY <1>1 DEF LeftReadable
<1>5. (MergeOver <=> merge.chk > k) /\ (MergeOver' <=> merge'.chk > k)  BY <1>2, <1>3 DEF MergeOver
<1>6. /\ k \in Nat /\ merge.chk \in Nat /\ h5 \in [Chk -> File]
      /\ merge \in [chk : 0 .. MaxChk + 1, last : 0 .. MaxRanks]
  <2>1. merge \in [chk : 0 .. MaxChk + 1, last : 0 .. MaxRanks] /\ h5 \in [Chk -> File]
    BY <1>1 DEF IInv, TypeOK, DiskTypeOK
  <2> QED BY <2>1, OutputAssumption DEF Chk
<1>7. CASE MergeDone(0)
  <2>1. MergeOver /\ pc' = [pc EXCEPT ![0] = "finalize"] /\ UNCHANGED disk  BY <1>7 DEF MergeDone
  <2> QED BY <1>1, <1>4, <2>1, RestartableSame
<1>8. ASSUME ~MergeOver, pc' = pc
      PROVE  /\ FoundCheckpoints' = 0 .. k
             /\ FoundCheckpoints = 0 .. k
             /\ HasH5(k) => merge.chk = k /\ ~MergeUnstarted
             /\ RanksIn(k) # {} \/ h5[k].st = "closed"
             /\ hasDir[k] /\ merge.chk <= k
  <2>1. LastUnmerged /\ FoundCheckpoints' = FoundCheckpoints  BY <1>1, <1>4, <1>8, MergeFound
  <2>2. merge.chk <= k
    <3>1. ~(merge.chk > k)  BY <1>5, <1>8
    <3>2. merge.chk \in Nat /\ k \in Nat  BY <1>6
    <3> QED BY <3>1, <3>2
  <2> QED BY <1>2, <2>1, <2>2 DEF LastUnmerged, HasH5, RanksIn
<1>9. ASSUME ~MergeOver, pc' = pc, ~MergeOver', RanksIn(k)' # {} \/ h5'[k].st = "closed",
             hasDir'[k],
             HasH5(k)' => merge'.chk = k /\ ~MergeUnstarted'
      PROVE  LastUnmerged' /\ pc'[0] = "merge"
  BY <1>1, <1>2, <1>3, <1>8, <1>9 DEF LastUnmerged
<1>10. CASE MergeSkip(0)
  <2>1. /\ ~MergeOver /\ MergeUnstarted /\ pc' = pc /\ UNCHANGED <<hasDir, files, h5>>
        /\ ~hasDir[merge.chk] \/ RanksIn(merge.chk) = {} \/ HasH5(merge.chk)
        /\ merge'.chk = merge.chk + 1
    BY <1>6, <1>10 DEF MergeSkip, disk
  <2>2. merge.chk # k  BY <1>8, <2>1 DEF HasH5
  <2>3. ~MergeOver'  BY <1>5, <1>6, <1>8, <2>1, <2>2
  <2>4. RanksIn(k)' = RanksIn(k) /\ HasH5(k)' = HasH5(k)  BY <2>1 DEF RanksIn, HasH5
  <2> QED BY <1>8, <1>9, <2>1, <2>3, <2>4
<1>11. CASE MergeCopy(0)
  <2>1. /\ ~MergeOver /\ MergeUnstarted /\ pc' = pc /\ UNCHANGED <<hasDir, files>>
        /\ RanksIn(merge.chk) # {}
        /\ merge' = [merge EXCEPT !.last = Min(RanksIn(merge.chk))]
        /\ \A d \in Chk : d # merge.chk => h5'[d] = h5[d]
    BY <1>6, <1>11 DEF MergeCopy, CopyFirstFile
  <2>2. Min(RanksIn(merge.chk)) \in Rank  BY <2>1, RanksInType DEF RanksIn
  <2>3. merge'.chk = merge.chk /\ ~MergeUnstarted'
    BY <1>1, <1>6, <2>1, <2>2 DEF MergeUnstarted, Rank
  <2>4. RanksIn(k)' = RanksIn(k) /\ RanksIn(k) # {}  BY <1>8, <2>1 DEF RanksIn, HasH5
  <2>5. HasH5(k)' => merge'.chk = k  BY <1>8, <2>1, <2>3 DEF HasH5
  <2> QED BY <1>5, <1>8, <1>9, <2>1, <2>3, <2>4, <2>5
<1>12. CASE MergeAppend(0)
  <2>1. ~MergeUnstarted /\ pc' = pc /\ UNCHANGED <<hasDir, files>> /\ NotYetMerged # {}
        /\ merge' = [merge EXCEPT !.last = Min(NotYetMerged)]
        /\ \A d \in Chk : d # merge.chk => h5'[d] = h5[d]
    BY <1>6, <1>12 DEF MergeAppend, AppendFile
  <2>2. Min(NotYetMerged) \in Rank  BY <2>1, RanksInType DEF RanksIn, NotYetMerged
  <2>3. merge'.chk = merge.chk /\ ~MergeUnstarted'
    BY <1>1, <1>6, <2>1, <2>2 DEF MergeUnstarted, Rank
  <2>4. RanksIn(k)' = RanksIn(k) /\ ~MergeOver  BY <1>4, <2>1 DEF RanksIn
  <2>6. RanksIn(k) # {}
    <3>1. CASE merge.chk = k  BY <2>1, <3>1 DEF NotYetMerged
    <3>2. CASE merge.chk # k  BY <1>8, <2>1, <2>4, <3>2 DEF HasH5
    <3> QED BY <3>1, <3>2
  <2>5. HasH5(k)' => merge'.chk = k  BY <1>8, <2>1, <2>3, <2>4 DEF HasH5
  <2> QED BY <1>5, <1>8, <1>9, <2>1, <2>3, <2>4, <2>5, <2>6
<1>13. CASE MergeClose(0)
  <2>1. /\ ~MergeUnstarted /\ pc' = pc /\ UNCHANGED <<hasDir, files, merge>>
        /\ \A d \in Chk : d # merge.chk => h5'[d] = h5[d]
        /\ merge.chk = k => h5'[k].st = "closed"
    BY <1>6, <1>13 DEF MergeClose, CloseConsolidated, File
  <2>4. RanksIn(k)' = RanksIn(k) /\ ~MergeOver /\ MergeUnstarted' = MergeUnstarted
    BY <1>4, <2>1 DEF RanksIn, MergeUnstarted
  <2>5. HasH5(k)' => merge'.chk = k  BY <1>8, <2>1, <2>4 DEF HasH5
  <2>6. RanksIn(k)' # {} \/ h5'[k].st = "closed"  BY <1>8, <2>1, <2>4 DEF HasH5
  <2> QED BY <1>5, <1>8, <1>9, <2>1, <2>4, <2>5, <2>6
<1>15. CASE MergeUnlink(0)
  <2>1. /\ pc' = pc /\ h5' = h5 /\ ~MergeUnstarted /\ h5[merge.chk].st = "closed"
        /\ UNCHANGED <<merge, hasDir>>
        /\ (merge.chk # k => \A q \in Rank : files'[k][q] = files[k][q])
    BY <1>1, <1>15, CleanupEffect DEF MergeUnlink, RemoveFile
  <2>2. ~MergeOver /\ ~MergeOver' /\ MergeUnstarted' = MergeUnstarted
    BY <1>4, <1>5, <2>1 DEF MergeUnstarted
  <2>3. RanksIn(k)' # {} \/ h5'[k].st = "closed"  BY <1>8, <2>1, <2>2 DEF RanksIn
  <2>4. HasH5(k)' => merge'.chk = k /\ ~MergeUnstarted'  BY <1>8, <2>1, <2>2 DEF HasH5
  <2> QED BY <1>8, <1>9, <2>1, <2>2, <2>3, <2>4
<1>14. CASE MergeRemove(0)
  <2>1. /\ ~MergeUnstarted /\ pc' = pc /\ UNCHANGED h5 /\ h5[merge.chk].st = "closed"
        /\ merge' = [chk |-> merge.chk + 1, last |-> MaxRanks]
    BY <1>14 DEF MergeRemove, RemoveDirectory
  <2>2. ~MergeOver /\ MergeUnstarted' /\ merge'.chk = merge.chk + 1
    BY <1>4, <2>1 DEF MergeUnstarted
  <2>3. CASE merge.chk = k
    <3>1. MergeOver'
      <4>1. merge'.chk > k  BY <1>6, <2>2, <2>3
      <4> QED BY <1>5, <4>1
    <3>2. FoundCheckpoints' # {} /\ MaxCheckpoint' = k
      <4>1. FoundCheckpoints' = 0 .. k /\ FoundCheckpoints = 0 .. k  BY <1>8, <2>1, <2>2
      <4>2. FoundCheckpoints # {} /\ MaxCheckpoint = k  BY <4>1, LastOfAll
      <4>3. MaxCheckpoint' = MaxCheckpoint  BY <4>1 DEF MaxCheckpoint
      <4> QED BY <4>1, <4>2, <4>3
    <3>3. Readable(k)'
      <4>1. RestartSource(k)' = {h5[k]} /\ h5[k].st = "closed"
        BY <2>1, <2>3 DEF RestartSource, HasH5
      <4> QED BY <4>1 DEF Readable, AttrsAgree, HasAttrs
    <3>4. Readable(MaxCheckpoint)'
      BY <3>2, <3>3 DEF Readable, AttrsAgree, RestartSource, HasH5, RanksIn
    <3> QED BY <1>1, <2>1, <2>2, <3>1, <3>2, <3>4 DEF Restartable
  <2>4. CASE merge.chk # k
    <3>2. files'[k] = files[k] /\ hasDir'[k] = hasDir[k]
      <4>1. files \in [Chk -> [Rank -> File]] /\ hasDir \in [Chk -> BOOLEAN]
        BY <1>1 DEF IInv, TypeOK, DiskTypeOK
      <4> QED BY <1>14, <2>4, <4>1 DEF MergeRemove, RemoveDirectory
    <3>3. RanksIn(k)' = RanksIn(k) /\ HasH5(k)' = HasH5(k)  BY <2>1, <3>2 DEF RanksIn, HasH5
    <3>4. ~MergeOver'  BY <1>5, <1>6, <1>8, <2>1, <2>2, <2>4
    <3> QED BY <1>8, <1>9, <2>1, <2>2, <2>4, <3>2, <3>3, <3>4
  <2> QED BY <2>3, <2>4
<1> QED BY <1>1, <1>7, <1>10, <1>11, <1>12, <1>13, <1>14, <1>15 DEF Merge

\* A session that ends by itself leaves a checkpoint a restart can read.
LEMMA LeftReadableStep ==
  ASSUME NumbersInv, EarlierAgree, LeftReadable, [Next]_vars
  PROVE  LeftReadable'
<1>1. IInv /\ 0 \in Rank /\ exit \in [Rank -> {"none", "done", "sigterm", "error"}]
  <2>1. 0 \in Rank  BY OutputAssumption DEF Rank
  <2> QED BY <2>1 DEF NumbersInv, DiskInv, IInv, TypeOK
<1>2. ASSUME pc'[0] \in EndPcs
      PROVE  /\ pc'[0] = "merge" =>
                  IF MergeOver' THEN MergeUnstarted' /\ Restartable' ELSE LastUnmerged'
             /\ pc'[0] = "finalize" /\ Ended(0)' => Restartable'
  <2>1. CASE Merge(0)  BY <2>1, MergeLeft
  <2>2. CASE Barrier /\ pc[0] = "synced" /\ exit[0] # "none"
    <3>1. UNCHANGED <<chkNum[0], merge, disk>>  BY <1>1, <2>2 DEF Barrier
    <3> QED BY <2>2, <3>1, SyncedRestartable, RestartableSame, LastUnmergedSame
  <2>3. CASE pc'[0] = "finalize" /\ exit'[0] = "error"  BY <2>3 DEF Ended
  <2>4. CASE UNCHANGED <<pc[0], exit[0], chkNum[0], merge, disk>>
    BY <2>4, RestartableSame, LastUnmergedSame DEF LeftReadable, Ended
  <2> QED BY <1>1, <1>2, <2>1, <2>2, <2>3, <2>4, EndMoves
<1>3. outcome' \in {"done", "sigterm"} => Restartable'
  <2>1. ASSUME pc[0] = "finalize", outcome' = exit[0], UNCHANGED disk, outcome' \in {"done", "sigterm"}
        PROVE  Restartable'
    BY <2>1, RestartableSame DEF LeftReadable, Ended
  <2>2. ASSUME outcome' = outcome, outcome' \in {"done", "sigterm"}, UNCHANGED disk
        PROVE  Restartable'
    BY <2>2, RestartableSame DEF LeftReadable
  <2>3. ASSUME outcome' = outcome, outcome' \in {"done", "sigterm"}, Running \/ DeleteUnreadable
        PROVE  FALSE
    BY <2>3 DEF LeftReadable, DeleteUnreadable, Restartable
  <2> QED BY <1>1, <2>1, <2>2, <2>3, OutcomeMoves
<1>4. Running' => outcome' = "none"  BY <1>1, OutcomeMoves DEF LeftReadable
<1> QED BY <1>2, <1>3, <1>4 DEF LeftReadable, EndPcs

-----------------------------------------------------------------------------
(* The number of trials asked for.                                         *)

\* The trials of earlier sessions and those this one may still do are as many as
\* were asked for.
LEMMA SessionTrials ==
  ASSUME NumbersInv, DoneHasRows, OthersOld, NewBounded, BudgetKept, CountsKnown,
         NEW r \in Active, \A q \in Active : Knows(q)
  PROVE  /\ IsFiniteSet(NewUpTo(size)) /\ Cardinality(NewUpTo(size)) \in Nat
         /\ prior[r] \in Nat
         /\ Cardinality(DoneOnDisk) = Cardinality(NewUpTo(size)) + prior[r]
         /\ NewUpTo(size) \subseteq NumberingStart(r) .. NumberingEnd(r) - 1
         /\ NumberingStart(r) \in Nat /\ NumberingEnd(r) \in Nat
         /\ NumberingEnd(r) - NumberingStart(r) = NTrial - prior[r]
         /\ prior[r] <= NTrial
         /\ NumberingStart(r) .. NumberingEnd(r) - 1 \subseteq DoneOnDisk =>
              NumberingStart(r) .. NumberingEnd(r) - 1 \subseteq NewUpTo(size)
<1>1. IInv /\ Active \subseteq Rank /\ size \in Nat
  BY ActiveRanks DEF NumbersInv, DiskInv, IInv, TypeOK
<1>2. 0 \in Active /\ r \in Rank /\ r \in Nat  BY <1>1 DEF Active
<1>3. /\ prior[r] \in Nat /\ NumberingStart(r) \in Nat /\ NumberingEnd(r) \in Nat /\ NTrial \in Nat
      /\ prior[r] <= NTrial
  BY <1>1, <1>2, NumberingType, RunAssumption DEF IInv, TypeOK, CountsKnown
<1>4. prior[0] = prior[r] /\ NumberingStart(0) = NumberingStart(r) /\ Cardinality(OldDone(0)) = prior[0]
  BY <1>1, <1>2, SameNumbering DEF CountsKnown
<1>5. /\ Cardinality(DoneOnDisk) = Cardinality(NewUpTo(size)) + Cardinality(OldDone(0))
      /\ \A n : n \in NewUpTo(size) <=> n \in DoneOnDisk /\ ~(n < NumberingStart(0))
  BY <1>2, NewAndOld
<1>6. IsFiniteSet(NewUpTo(size)) /\ Cardinality(NewUpTo(size)) \in Nat
  <2>1. NewUpTo(size) \in SUBSET DoneOnDisk  BY <1>5
  <2> QED BY <2>1, FS_Subset, FS_CardinalityType DEF BudgetKept
<1>7. NumberingEnd(r) - NumberingStart(r) = NTrial - prior[r]
  <2>1. TrialsRemaining(r) = NTrial - prior[r]  BY <1>3 DEF TrialsRemaining
  <2>2. NumberingEnd(r) = NumberingStart(r) + (NTrial - prior[r])  BY <2>1 DEF NumberingEnd
  <2> QED BY <1>3, <2>2
<1>8. ASSUME NEW n \in NewUpTo(size)
      PROVE  n \in NumberingStart(r) .. NumberingEnd(r) - 1
  <2>1. PICK q \in Active : n \in NewDone(q)  BY <1>8 DEF NewUpTo, Active
  <2>2. n \in NumberingStart(q) .. NumberingEnd(q) - 1  BY <1>1, <2>1, NewFinite
  <2> QED BY <1>1, <2>2, SameNumbering
<1>9. ASSUME NumberingStart(r) .. NumberingEnd(r) - 1 \subseteq DoneOnDisk,
             NEW n \in NumberingStart(r) .. NumberingEnd(r) - 1
      PROVE  n \in NewUpTo(size)
  <2>1. ~(n < NumberingStart(0))  BY <1>3, <1>4, <1>9
  <2> QED BY <1>5, <1>9, <2>1
<1>10. Cardinality(DoneOnDisk) = Cardinality(NewUpTo(size)) + prior[r]  BY <1>4, <1>5
<1> QED BY <1>3, <1>6, <1>7, <1>8, <1>9, <1>10

\* When all the numbers of the session are done, so are all trials.
LEMMA SessionFull ==
  ASSUME NumbersInv, DoneHasRows, OthersOld, NewBounded, BudgetKept, CountsKnown,
         NEW r \in Active, \A q \in Active : Knows(q),
         NumberingStart(r) .. NumberingEnd(r) - 1 \subseteq DoneOnDisk
  PROVE  Cardinality(DoneOnDisk) = NTrial
<1>1. /\ NumberingStart(r) \in Nat /\ NumberingEnd(r) \in Nat /\ prior[r] \in Nat /\ NTrial \in Nat
      /\ NumberingEnd(r) - NumberingStart(r) = NTrial - prior[r] /\ prior[r] <= NTrial
      /\ Cardinality(DoneOnDisk) = Cardinality(NewUpTo(size)) + prior[r]
      /\ NewUpTo(size) = NumberingStart(r) .. NumberingEnd(r) - 1
  BY SessionTrials, RunAssumption
<1>2. NumberingStart(r) \in Int /\ NumberingEnd(r) - 1 \in Int  BY <1>1
<1>3. Cardinality(NewUpTo(size)) = IF NumberingStart(r) > NumberingEnd(r) - 1 THEN 0
                                   ELSE NumberingEnd(r) - 1 - NumberingStart(r) + 1
  BY <1>1, <1>2, FS_Interval
<1>4. Cardinality(NewUpTo(size)) = NTrial - prior[r]  BY <1>1, <1>3
<1> QED BY <1>1, <1>4

\* A trial that is still running is one of those that remain.
LEMMA RoomForTrial ==
  ASSUME NumbersInv, DoneHasRows, TasksNotDone, BatchesDone, OthersOld, NewBounded, BudgetKept,
         CountsKnown, NEW r \in Rank, NEW t \in Thread, task[r][t].st = "written"
  PROVE  /\ task[r][t].trial \notin DoneOnDisk
         /\ Cardinality(DoneOnDisk) \in Nat /\ Cardinality(DoneOnDisk) + 1 <= NTrial
<1>1. PICK n : n = task[r][t].trial  OBVIOUS
<1>2. /\ pc[r] = "batch" /\ r \in Active /\ Knows(r) /\ GoingOn(r) /\ n \in Nat
      /\ BatchFirst(r) <= n /\ n < NumberingEnd(r)
  BY <1>1, RunningTrial
<1>3. n \notin DoneOnDisk  BY <1>1, TrialNotDone
<1>4. IInv /\ Active \subseteq Rank  BY ActiveRanks DEF NumbersInv, DiskInv
<1>5. \A q \in Active : Knows(q)
  <2>1. pc[r] \in RunPcs  BY <1>2 DEF RunPcs
  <2>2. \A q \in Active : pc[q] \in RunPcs  BY <1>4, <2>1, Together
  <2> QED BY <2>2 DEF Knows
<1>6. /\ NumberingStart(r) \in Nat /\ NumberingEnd(r) \in Nat /\ prior[r] \in Nat
      /\ NumberingEnd(r) - NumberingStart(r) = NTrial - prior[r] /\ prior[r] <= NTrial
      /\ Cardinality(DoneOnDisk) = Cardinality(NewUpTo(size)) + prior[r]
      /\ IsFiniteSet(NewUpTo(size)) /\ Cardinality(NewUpTo(size)) \in Nat
      /\ NewUpTo(size) \subseteq NumberingStart(r) .. NumberingEnd(r) - 1
  BY <1>2, <1>5, SessionTrials
<1>7. n \in NumberingStart(r) .. NumberingEnd(r) - 1 /\ NTrial \in Nat
  <2>1. BatchFirst(r) \in Nat /\ NumberingStart(r) <= BatchFirst(r)
    BY <1>2, <1>4 DEF BatchesDone, BatchFirst, IInv, TypeOK
  <2> QED BY <1>2, <1>6, <2>1, RunAssumption
<1>8. n \notin NewUpTo(size)
  <2>1. NewUpTo(size) \subseteq DoneOnDisk
    <3>1. \A q \in Active : NewDone(q) \subseteq DoneOnDisk  BY <1>4, DoneNat DEF NewDone
    <3> QED BY <3>1 DEF NewUpTo, Active
  <2> QED BY <1>3, <2>1
<1>9. Cardinality(NewUpTo(size) \cup {n}) = Cardinality(NewUpTo(size)) + 1
  BY <1>6, <1>8, FS_AddElement
<1>10. /\ IsFiniteSet(NumberingStart(r) .. NumberingEnd(r) - 1)
       /\ Cardinality(NumberingStart(r) .. NumberingEnd(r) - 1) = NTrial - prior[r]
  <2>1. NumberingStart(r) \in Int /\ NumberingEnd(r) - 1 \in Int /\ ~(NumberingStart(r) > NumberingEnd(r) - 1)
    BY <1>6, <1>7
  <2>2. /\ IsFiniteSet(NumberingStart(r) .. NumberingEnd(r) - 1)
        /\ Cardinality(NumberingStart(r) .. NumberingEnd(r) - 1)
             = NumberingEnd(r) - 1 - NumberingStart(r) + 1
    BY <2>1, FS_Interval
  <2> QED BY <1>6, <1>7, <2>2
<1>11. Cardinality(NewUpTo(size) \cup {n}) <= NTrial - prior[r]
  <2>1. NewUpTo(size) \cup {n} \in SUBSET (NumberingStart(r) .. NumberingEnd(r) - 1)  BY <1>6, <1>7
  <2> QED BY <1>10, <2>1, FS_Subset
<1> QED BY <1>1, <1>3, <1>6, <1>7, <1>9, <1>11

\* A rank ends with all trials done after its last batch, or with none to do.
LEMMA ExitMoves ==
  ASSUME IInv, [Next]_vars, NEW r \in Rank, exit'[r] = "done"
  PROVE  \/ exit[r] = "done"
         \/ OpenFiles(r) /\ NumberingEnd(r) <= BatchFirst(r)
         \/ Reduce /\ r \in Active /\ LastBatch(r)
<1>1. /\ pc \in [Rank -> {"idle"} \cup CollectivePcs \cup LocalPcs]
      /\ exit \in [Rank -> {"none", "done", "sigterm", "error"}]
  BY DEF IInv, TypeOK
<1>2. CASE exit' = exit  BY <1>2
<1>3. ASSUME NEW q \in Rank, SetupThrows(q) \/ OpenThrows(q) \/ BatchFailed(q)
      PROVE  exit[r] = "done"
  BY <1>1, <1>3 DEF SetupThrows, OpenThrows, ConstructorThrows, BatchFailed
<1>4. ASSUME NEW q \in Rank, OpenFiles(q), exit[r] # "done"
      PROVE  OpenFiles(r) /\ NumberingEnd(r) <= BatchFirst(r)
  <2>1. q = r /\ pc[r] = "open_files"  BY <1>1, <1>4 DEF OpenFiles, EnterBatch
  <2>2. PICK first : /\ first = IF inRun[r] THEN batchStart[r] + BatchSize(r) ELSE NumberingStart(r)
                     /\ EnterBatch(r, first)
    BY <1>4, <2>1 DEF OpenFiles
  <2>3. ~(first < NumberingEnd(r))  BY <1>1, <1>4, <2>2 DEF EnterBatch
  <2>4. first = BatchFirst(r)  BY <2>1, <2>2 DEF BatchFirst, Closing, SyncPcs
  <2>5. first \in Nat /\ NumberingEnd(r) \in Nat  BY <2>2, NumberingType DEF IInv, TypeOK
  <2> QED BY <1>4, <2>1, <2>3, <2>4, <2>5
<1>5. CASE Reduce  BY <1>1, <1>5 DEF Reduce
<1>6. ASSUME Forget
      PROVE  FALSE
  BY <1>6 DEF Forget
<1>7. ASSUME NEW q \in Rank,
             \/ SetupFresh(q) \/ SetupRestart(q) \/ OpenCheck(q) \/ MakeDir(q) \/ BatchDone(q)
             \/ (\E t \in Thread : Trial(q, t) \/ FailTrial(q, t)) \/ Save(q) \/ SigtermArrives(q)
      PROVE  exit' = exit
  BY <1>7
  DEF SetupFresh, SetupRestart, OpenCheck, MakeDir, BatchDone, Trial, SkipTrial, BeginTrial,
      WriteTrial, FinishTrial, FailTrial, TaskUnchanged, Save, Close, SyncRead, SyncWrite,
      SigtermArrives
<1>8. ASSUME NEW q \in Rank, Merge(q)
      PROVE  exit' = exit
  BY <1>8
  DEF Merge, MergeSkip, MergeCopy, MergeAppend, MergeClose, MergeUnlink, MergeRemove, MergeDone
<1>9. ASSUME \/ \E n \in RankCounts, again \in BOOLEAN : Launch(n, again)
             \/ Barrier \/ DeleteUnreadable \/ Finished \/ UNCHANGED vars
      PROVE  exit' = exit
  BY <1>9 DEF Launch, Barrier, DeleteUnreadable, Finished, vars
<1> QED
  BY <1>2, <1>3, <1>4, <1>5, <1>6, <1>7, <1>8, <1>9
  DEF Next, RankStep, Setup, Open, Batch, Collective, Finalize, Outside, Crash

\* A rank that ends with all trials done leaves as many as were asked for.
LEMMA BudgetAtEnd ==
  ASSUME NumbersInv, DoneHasRows, TakenDone, BatchesDone, OthersOld, NewBounded, BudgetKept,
         CountsKnown, [Next]_vars, NEW r \in Rank, exit'[r] = "done"
  PROVE  Cardinality(DoneOnDisk) = NTrial
<1>1. IInv  BY DEF NumbersInv, DiskInv
<1>2. CASE exit[r] = "done"  BY <1>2 DEF BudgetKept
<1>3. CASE OpenFiles(r) /\ NumberingEnd(r) <= BatchFirst(r)
  <2>1. pc[r] = "open_files" /\ r \in Active  BY <1>1, <1>3, ActiveRanks DEF OpenFiles
  <2>2. \A q \in Active : Knows(q)
    <3>1. \A q \in Active : pc[q] \in RunPcs  BY <1>1, <2>1, Together DEF RunPcs
    <3> QED BY <3>1 DEF Knows
  <2>3. NumberingStart(r) .. BatchFirst(r) - 1 \subseteq DoneOnDisk
    BY <2>1, <2>2 DEF BatchesDone, GoingOn, Constructed, Closing, SyncPcs
  <2>4. NumberingEnd(r) \in Nat /\ NumberingStart(r) \in Nat /\ BatchFirst(r) \in Nat
    BY <1>1, NumberingType DEF BatchFirst, IInv, TypeOK
  <2>5. NumberingStart(r) .. NumberingEnd(r) - 1 \subseteq NumberingStart(r) .. BatchFirst(r) - 1
    BY <1>3, <2>4
  <2> QED BY <2>1, <2>2, <2>3, <2>5, SessionFull
<1>4. CASE Reduce /\ r \in Active /\ LastBatch(r)
  <2>1. \A q \in Active : Knows(q) /\ q \in Rank
    BY <1>1, <1>4, ActiveRanks DEF Reduce, Knows, RunPcs
  <2>2. NumberingStart(r) .. BatchEnd(r) - 1 \subseteq DoneOnDisk  BY <1>4, ReduceDone
  <2>3. BatchEnd(r) >= NumberingEnd(r)  BY <1>4 DEF LastBatch
  <2>4. NumberingEnd(r) \in Nat /\ NumberingStart(r) \in Nat /\ BatchEnd(r) \in Nat
    BY <1>1, NumberingType DEF BatchEnd, Lesser, IInv, TypeOK
  <2>5. NumberingStart(r) .. NumberingEnd(r) - 1 \subseteq NumberingStart(r) .. BatchEnd(r) - 1
    BY <2>3, <2>4
  <2> QED BY <1>4, <2>1, <2>2, <2>5, SessionFull
<1> QED BY <1>1, <1>2, <1>3, <1>4, ExitMoves

\* No more trials are done than were asked for, and as many when a session ends
\* with nothing in its way.
LEMMA BudgetKeptStep ==
  ASSUME NumbersInv, DoneHasRows, CopiesOnly, TasksNotDone, TakenDone, BatchesDone, OthersOld,
         NewBounded, LeftReadable, BudgetKept, CountsKnown, [Next]_vars
  PROVE  BudgetKept'
<1>1. IInv /\ MergedSoFar /\ FilesNew /\ NoFileNoRows /\ 0 \in Rank
  <2>1. 0 \in Rank  BY OutputAssumption DEF Rank
  <2> QED BY <2>1 DEF NumbersInv, DiskInv
<1>2. IsFiniteSet(DoneOnDisk) /\ Cardinality(DoneOnDisk) \in Nat /\ Cardinality(DoneOnDisk) <= NTrial
      /\ NTrial \in Nat
  BY FS_CardinalityType, RunAssumption DEF BudgetKept
<1>3. CASE DoneOnDisk' = DoneOnDisk
  <2>1. \A r \in Rank : exit'[r] = "done" => Cardinality(DoneOnDisk) = NTrial  BY BudgetAtEnd
  <2>2. outcome' = "done" => Cardinality(DoneOnDisk) = NTrial
    <3>1. outcome' = "done" => outcome = "done" \/ exit[0] = "done"  BY <1>1, OutcomeMoves
    <3> QED BY <1>1, <3>1 DEF BudgetKept
  <2> QED BY <1>2, <1>3, <2>1, <2>2 DEF BudgetKept
<1>4. ASSUME NEW r \in Rank, NEW t \in Thread, FinishTrial(r, t)
      PROVE  BudgetKept'
  <2>1. /\ task[r][t].trial \notin DoneOnDisk
        /\ Cardinality(DoneOnDisk) + 1 <= NTrial
    <3>1. task[r][t].st = "written"  BY <1>4 DEF FinishTrial
    <3> QED BY <3>1, RoomForTrial
  <2>2. DoneOnDisk' = DoneOnDisk \cup {task[r][t].trial}  BY <1>1, <1>4, FinishDone
  <2>3. IsFiniteSet(DoneOnDisk') /\ Cardinality(DoneOnDisk') <= NTrial
    BY <1>2, <2>1, <2>2, FS_AddElement
  <2>4. UNCHANGED <<exit, outcome>>  BY <1>4 DEF FinishTrial, TaskUnchanged
  <2>5. outcome # "done" /\ \A q \in Rank : exit[q] # "done"
    <3>1. Cardinality(DoneOnDisk) # NTrial  BY <1>2, <2>1
    <3> QED BY <3>1 DEF BudgetKept
  <2> QED BY <2>3, <2>4, <2>5 DEF BudgetKept
<1>5. CASE DeleteUnreadable
  <2>1. DoneOnDisk' \in SUBSET DoneOnDisk
    <3>1. PICK m \in Chk : m = MaxCheckpoint  BY <1>1, <1>5, DeleteEffect
    <3>2. \A c \in Chk : DoneIn(c)' \subseteq DoneIn(c)  BY <1>1, <1>5, <3>1, DeleteDone
    <3> QED BY <3>2 DEF DoneOnDisk
  <2>2. IsFiniteSet(DoneOnDisk') /\ Cardinality(DoneOnDisk') <= Cardinality(DoneOnDisk)
        /\ Cardinality(DoneOnDisk') \in Nat
    BY <1>2, <2>1, FS_Subset, FS_CardinalityType
  <2>3. UNCHANGED <<exit, outcome>> /\ \A r \in Rank : pc[r] = "idle"
    BY <1>1, <1>5, DeleteEffect DEF DeleteUnreadable
  <2>4. \A r \in Rank : exit[r] = "none"  BY <1>1, <2>3 DEF IInv, FreshUntilSetup
  <2>5. outcome # "done"  BY <1>5 DEF LeftReadable, DeleteUnreadable, Restartable
  <2> QED BY <1>2, <2>2, <2>3, <2>4, <2>5 DEF BudgetKept
<1> QED BY <1>1, <1>3, <1>4, <1>5, DoneMoves

\* A run begins with nothing done.
LEMMA InitDone == Init => DoneInv
<1> SUFFICES ASSUME Init
             PROVE  DoneInv
  OBVIOUS
<1>1. NumbersInv  BY InitNumbers
<1>2. 0 \in Rank /\ NTrial \in Nat  BY OutputAssumption, RunAssumption DEF Rank
<1>3. /\ \A c \in Chk : /\ h5[c] = NoFile /\ ~hasDir[c]
                        /\ \A r \in Rank : files[c][r] = NoFile
      /\ \A r \in Rank : pc[r] = "idle" /\ ~inRun[r] /\ exit[r] = "none" /\ prior[r] = 0
                         /\ restartMax[r] = 0 /\ count[r] = 0 /\ ~failed[r] /\ ~sigterm[r]
                         /\ \A t \in Thread : task[r][t].st = "idle"
      /\ outcome = "none" /\ merge.last = MaxRanks /\ size = 0
  BY DEF Init, DiskInit, Idle, NoMerge
<1>4. /\ NoFile.st = "none" /\ NoFile.rows = {} /\ NoFile.done = {}
  BY DEF NoFile
<1>5. /\ \A c \in Chk : RowsIn(c) = {} /\ DoneIn(c) = {} /\ RanksIn(c) = {} /\ ~HasH5(c)
      /\ DoneOnDisk = {} /\ FoundCheckpoints = {}
  <2>1. \A c \in Chk : RowsIn(c) = {}  BY <1>3, <1>4 DEF RowsIn
  <2>2. \A c \in Chk : DoneIn(c) = {}  BY <1>3, <1>4 DEF DoneIn
  <2>3. \A c \in Chk : RanksIn(c) = {} /\ ~HasH5(c)  BY <1>3, <1>4 DEF RanksIn, HasH5
  <2> QED BY <1>3, <2>1, <2>2, <2>3 DEF DoneOnDisk, FoundCheckpoints, Exists
<1>6. \A r \in Rank : ~Knows(r) /\ ~HasFile(r) /\ ~Closing(r) /\ ~NameFree(r)
  BY <1>3 DEF Knows, NameFree, DirPcs, RunPcs, SyncPcs, HasFile, Closing
<1>7. BudgetKept  BY <1>2, <1>3, <1>5, FS_EmptySet DEF BudgetKept
<1>8. LeftReadable /\ FreshStart /\ MaxAttained /\ CountSynced
  BY <1>2, <1>3, <1>6 DEF LeftReadable, Ended, Running, FreshStart, MaxAttained, CountSynced
<1>9. DoneHasRows /\ CopiesOnly /\ TasksNotDone
  BY <1>3, <1>4 DEF DoneHasRows, CopiesOnly, MergeUnstarted, TasksNotDone
<1>10. RowsWhole  BY <1>3, <1>4, <1>6 DEF RowsWhole, Whole, Trials
<1>11. TakenDone /\ BatchesDone /\ Ascending /\ OthersOld
  BY <1>3, <1>5, <1>6 DEF TakenDone, BatchesDone, Ascending, OthersOld
<1>12. NewBounded /\ CountsKnown  BY <1>2, <1>3, <1>6 DEF NewBounded, CountsKnown
<1>13. EarlierAgree /\ CountsAccurate
  <2>1. \A c \in Chk : CountsAgree(c)  BY <1>5 DEF CountsAgree
  <2>2. CountsAccurate  BY <1>3, <1>4, <1>5 DEF CountsAccurate
  <2> QED BY <2>1, <2>2 DEF EarlierAgree
<1> QED BY <1>1, <1>7, <1>8, <1>9, <1>10, <1>11, <1>12, <1>13 DEF DoneInv

\* Every step keeps the invariant.
LEMMA NextDone ==
  ASSUME "error" \notin Faults \/ MaxRanks = 1
  PROVE  DoneInv /\ [Next]_vars => DoneInv'
<1> SUFFICES ASSUME DoneInv, [Next]_vars
             PROVE  DoneInv'
  OBVIOUS
<1>1. /\ NumbersInv /\ BudgetKept /\ LeftReadable /\ DoneHasRows /\ CopiesOnly /\ TasksNotDone
      /\ RowsWhole /\ TakenDone /\ BatchesDone /\ Ascending /\ OthersOld /\ NewBounded
      /\ CountsKnown /\ FreshStart /\ MaxAttained /\ CountSynced /\ EarlierAgree /\ CountsAccurate
  BY DEF DoneInv
<1>2. IInv /\ MergedSoFar /\ FilesNew /\ NoFileNoRows  BY <1>1 DEF NumbersInv, DiskInv
<1>3. NumbersInv'  BY <1>1, NextNumbers
<1>4. DoneHasRows'  BY <1>1, <1>2, DoneRowsStep
<1>5. CopiesOnly'  BY <1>1, <1>2, CopiesStep
<1>6. TasksNotDone'  BY <1>1, <1>3, TasksStep
<1>7. RowsWhole'  BY <1>1, <1>3, RowsWholeStep
<1>8. TakenDone'  BY <1>1, <1>3, TakenDoneStep
<1>9. BatchesDone' /\ Ascending'  BY <1>1, BatchesDoneStep, AscendingStep
<1>10. OthersOld' /\ NewBounded'  BY <1>1, <1>3, <1>4, OthersOldStep, NewBoundedStep
<1>11. CountsKnown'  BY <1>1, <1>3, <1>4, CountsKnownStep
<1>12. FreshStart' /\ MaxAttained' /\ CountSynced'
  BY <1>1, <1>2, FreshStartStep, MaxAttainedStep, CountSyncedStep
<1>13. EarlierAgree' /\ CountsAccurate'  BY <1>1, CountsStep DEF CountsInv
<1>14. LeftReadable'  BY <1>1, LeftReadableStep
<1>15. BudgetKept'  BY <1>1, BudgetKeptStep
<1> QED
  BY <1>3, <1>4, <1>5, <1>6, <1>7, <1>8, <1>9, <1>10, <1>11, <1>12, <1>13, <1>14, <1>15
  DEF DoneInv

-----------------------------------------------------------------------------
(* What the counts stand for.                                              *)

\* What the counts of trials rest on holds in every session of a run in which no
\* trial throws.
THEOREM DoneInductive ==
  ASSUME "error" \notin Faults \/ MaxRanks = 1
  PROVE  Spec => []DoneInv
<1>1. Init => DoneInv  BY InitDone
<1>2. DoneInv /\ [Next]_vars => DoneInv'  BY NextDone
<1> QED BY <1>1, <1>2, PTL DEF Spec

\* A checkpoint a restart accepts says how many trials are done, and the highest number.
LEMMA AccurateFromInv == DoneInv => RestartIsAccurate
<1> SUFFICES ASSUME DoneInv, FoundCheckpoints # {}, Readable(MaxCheckpoint)
             PROVE  /\ RestartTrialsDone(MaxCheckpoint) = Cardinality(DoneOnDisk)
                    /\ \A row \in RowsOnDisk : row.trial <= RestartMaxTrial(MaxCheckpoint)
  BY DEF RestartIsAccurate
<1>1. /\ NumbersInv /\ DoneHasRows /\ CountsAccurate /\ HighestAccurate
      /\ NoStrays /\ NoFileNoRows
  BY DEF DoneInv, NumbersInv, DiskInv
<1>2. /\ MaxCheckpoint \in Chk /\ \A c \in FoundCheckpoints : c <= MaxCheckpoint
  BY MaxCheckpointType, MaxCheckpointLast
<1>3. PICK m \in Chk : m = MaxCheckpoint  BY <1>2
<1>4. RestartTrialsDone(MaxCheckpoint) = Cardinality(DoneOnDisk)
  BY <1>1, <1>2, DoneAll, ReadableCount
<1>5. Covers(RestartMaxTrial(m), m)  BY <1>1, <1>3, ReadableCovers
<1>6. ASSUME NEW row \in RowsOnDisk
      PROVE  row.trial <= RestartMaxTrial(m)
  <2>1. PICK c \in Chk : row \in RowsIn(c)  BY DEF RowsOnDisk
  <2>2. c \in FoundCheckpoints
    <3>1. SUFFICES ASSUME c \notin FoundCheckpoints
                   PROVE  RowsIn(c) = {}
      BY <2>1
    <3>2. h5[c].rows = {} /\ \A r \in Rank : files[c][r].rows = {}
      BY <1>1, <3>1, NothingBeyond DEF NoFileNoRows, HasH5
    <3> QED BY <3>2 DEF RowsIn
  <2>3. c \in 0 .. m  BY <1>2, <1>3, <2>2 DEF Chk
  <2> QED BY <1>5, <2>1, <2>3 DEF Covers
<1> QED BY <1>3, <1>4, <1>6

\* No more trials are done than were asked for.
LEMMA BudgetFromInv == DoneInv => TrialBudget
BY DEF DoneInv, BudgetKept, TrialBudget

\* Ranks that go on to the next checkpoint have done the batch.
LEMMA RolloverFromInv == DoneInv => RolloverOnlyWhenBatchDone
BY DEF DoneInv, BatchesDone, RolloverOnlyWhenBatchDone, Closing

\* A checkpoint a restart accepts has the rows of trials that are done, and only those.
LEMMA WholeFromInv == DoneInv => NoHalfTrialSaved
<1> SUFFICES ASSUME DoneInv, "error" \notin Faults, NEW c \in Chk, Readable(c)
             PROVE  {row.trial : row \in RowsIn(c)} = DoneIn(c)
  BY DEF NoHalfTrialSaved
<1>1. DoneHasRows /\ RowsWhole /\ NoFileNoRows /\ EarlierSettled  BY DEF DoneInv, NumbersInv
<1>2. \A f \in RestartSource(c) : f.st = "closed"  BY DEF Readable, AttrsAgree, HasAttrs
<1>3. \A r \in Rank : files[c][r].st \in {"none", "closed"}
  <2>1. CASE HasH5(c)  BY <1>1, <2>1 DEF EarlierSettled, Settled, RanksIn, HasAttrs
  <2>2. CASE ~HasH5(c)  BY <1>2, <2>2 DEF RestartSource, RanksIn
  <2> QED BY <2>1, <2>2
<1>4. \A r \in Rank : Trials(files[c][r].rows) \subseteq files[c][r].done
  <2> TAKE r \in Rank
  <2>1. CASE files[c][r].st = "closed"  BY <1>1, <2>1 DEF RowsWhole, Whole
  <2>2. CASE files[c][r].st = "none"  BY <1>1, <2>2 DEF NoFileNoRows, Trials
  <2> QED BY <1>3, <2>1, <2>2
<1>5. Trials(h5[c].rows) \subseteq h5[c].done
  <2>1. CASE h5[c].st # "none"  BY <1>1, <2>1 DEF RowsWhole, Whole
  <2>2. CASE h5[c].st = "none"  BY <1>1, <2>2 DEF NoFileNoRows, Trials
  <2> QED BY <2>1, <2>2
<1>6. /\ h5[c].done \subseteq Trials(h5[c].rows)
      /\ \A r \in Rank : files[c][r].done \subseteq Trials(files[c][r].rows)
  BY <1>1 DEF DoneHasRows
<1>7. ASSUME NEW row \in RowsIn(c)
      PROVE  row.trial \in DoneIn(c)
  BY <1>4, <1>5, <1>7 DEF RowsIn, DoneIn, Trials
<1>8. ASSUME NEW n \in DoneIn(c)
      PROVE  \E row \in RowsIn(c) : row.trial = n
  BY <1>6, <1>8 DEF RowsIn, DoneIn, Trials
<1> QED BY <1>7, <1>8

\* Whatever a restart reads is true of the disk: as many trials as are done in all
\* sessions before, and a number no row exceeds.
THEOREM RestartAccurate ==
  ASSUME "error" \notin Faults \/ MaxRanks = 1
  PROVE  Spec => []RestartIsAccurate
<1>1. DoneInv => RestartIsAccurate  BY AccurateFromInv
<1> QED BY <1>1, DoneInductive, PTL

\* A run never does more trials than n_trial, and a run that says it is done has
\* done as many.
THEOREM Budget ==
  ASSUME "error" \notin Faults \/ MaxRanks = 1
  PROVE  Spec => []TrialBudget
<1>1. DoneInv => TrialBudget  BY BudgetFromInv
<1> QED BY <1>1, DoneInductive, PTL

\* A checkpoint is left for the next only when every trial up to its end is done.
THEOREM Rollover ==
  ASSUME "error" \notin Faults \/ MaxRanks = 1
  PROVE  Spec => []RolloverOnlyWhenBatchDone
<1>1. DoneInv => RolloverOnlyWhenBatchDone  BY RolloverFromInv
<1> QED BY <1>1, DoneInductive, PTL

\* Where no trial throws, the rows of a checkpoint a restart accepts are those of the
\* trials done in it: neither SIGTERM nor a rollover saves half a trial.
THEOREM WholeTrials == Spec => []NoHalfTrialSaved
<1>1. CASE "error" \notin Faults
  <2>1. DoneInv => NoHalfTrialSaved  BY <1>1, WholeFromInv
  <2>2. Spec => []DoneInv  BY <1>1, DoneInductive
  <2> QED BY <2>1, <2>2, PTL
<1>2. CASE "error" \in Faults
  <2>1. NoHalfTrialSaved  BY <1>2 DEF NoHalfTrialSaved
  <2> QED BY <2>1, PTL
<1> QED BY <1>1, <1>2

-----------------------------------------------------------------------------
(* What the ledger needs besides.                                          *)

\* The highest number is taken over from one file after the other.
LEMMA HighestFoundStep ==
  ASSUME NumbersInv, HighestFound, [Next]_vars
  PROVE  HighestFound'
<1>1. IInv /\ HighestSynced /\ 0 \in Rank
  <2>1. 0 \in Rank  BY OutputAssumption DEF Rank
  <2> QED BY <2>1 DEF NumbersInv, DiskInv
<1>2. SUFFICES ASSUME pc'[0] \in {"sync_read", "sync_write"}
               PROVE  sync'.mx = 0 \/ \E q \in Active' : sync'.mx = maxTrial'[q]
  BY DEF HighestFound
<1>3. CASE SyncRead(0)
  <2>1. pc[0] = "sync_read" /\ UNCHANGED <<size, maxTrial>>
        /\ sync'.mx \in {sync.mx, Left(sync.next).mx}
    BY <1>3 DEF SyncRead
  <2>2. sync.next \in Active /\ Left(sync.next).mx = maxTrial[sync.next]
    <3>1. sync.next \in Active  BY <1>1, <2>1, SyncKnows
    <3> QED BY <1>1, <2>1, <3>1 DEF HighestSynced
  <2> QED BY <2>1, <2>2 DEF HighestFound, Active
<1>4. CASE SyncWrite(0)
  <2>1. pc[0] = "sync_write" /\ UNCHANGED <<size, maxTrial>> /\ sync'.mx \in {sync.mx, 0}
    <3>1. sync \in [tc : Nat, mx : Nat, next : Rank]  BY <1>1 DEF IInv, TypeOK
    <3> QED BY <1>4, <3>1 DEF SyncWrite, NoSync
  <2> QED BY <2>1 DEF HighestFound, Active
<1>5. CASE Barrier /\ pc[0] = "closed"
  <2>1. sync' = sync /\ sync = NoSync  BY <1>1, <1>5 DEF Barrier, IInv, SyncVisitsRanks
  <2> QED BY <2>1 DEF NoSync
<1>6. CASE UNCHANGED <<size, maxTrial, sync, pc>>  BY <1>2, <1>6 DEF HighestFound, Active
<1> QED BY <1>1, <1>2, <1>3, <1>4, <1>5, <1>6, SyncMoves

\* A rank closes its file when its batch is over, or when there is none.
LEMMA CloseMoves ==
  ASSUME IInv, [Next]_vars, NEW r \in Rank, pc'[r] \in {"close", "closed"}
  PROVE  \/ pc[r] \in {"close", "closed"} \/ pc[r] \in {"batch", "reduce"}
         \/ OpenFiles(r)
<1>1. pc \in [Rank -> {"idle"} \cup CollectivePcs \cup LocalPcs]  BY DEF IInv, TypeOK
<1>2. CASE pc'[r] = pc[r]  BY <1>2
<1>3. ASSUME NEW q \in Rank, Setup(q) \/ OpenThrows(q) \/ OpenCheck(q) \/ MakeDir(q) \/ Merge(q)
      PROVE  pc'[r] = pc[r]
  <2>1. \/ pc' = pc
        \/ \E p \in {"open_check", "finalize", "open_checked", "dir_made"} :
             pc' = [pc EXCEPT ![q] = p]
    BY <1>3
    DEF Setup, SetupThrows, SetupFresh, SetupRestart, ConstructorThrows, OpenThrows, OpenCheck,
        MakeDir, Merge, MergeSkip, MergeCopy, MergeAppend, MergeClose, MergeUnlink, MergeRemove, MergeDone
  <2> QED BY <1>1, <2>1
<1>4. ASSUME NEW q \in Rank, OpenFiles(q), pc'[r] # pc[r]
      PROVE  OpenFiles(r)
  <2>1. q = r  BY <1>1, <1>4 DEF OpenFiles, EnterBatch
  <2> QED BY <1>4, <2>1
<1>5. ASSUME NEW q \in Rank, NEW t \in Thread, Trial(q, t) \/ FailTrial(q, t)
      PROVE  pc' = pc
  BY <1>5 DEF Trial, SkipTrial, BeginTrial, WriteTrial, FinishTrial, FailTrial, TaskUnchanged
<1>6. ASSUME NEW q \in Rank, Batch(q) \/ Close(q), pc'[r] # pc[r]
      PROVE  pc[r] \in {"batch", "close"}
  <2>1. pc[q] \in {"batch", "close"} /\ \E p : pc' = [pc EXCEPT ![q] = p]
    BY <1>6 DEF Batch, BatchFailed, BatchDone, BatchOver, Close
  <2> QED BY <1>1, <1>6, <2>1
<1>7. ASSUME NEW q \in Rank, SyncRead(q) \/ SyncWrite(q)
      PROVE  pc'[r] = pc[r]
  <2>1. pc' = pc \/ pc' = [pc EXCEPT ![q] = "synced"] \/ pc' = [pc EXCEPT ![q] = "sync_write"]
    BY <1>7 DEF SyncRead, SyncWrite
  <2> QED BY <1>1, <2>1
<1>8. CASE Reduce  BY <1>1, <1>8 DEF Reduce
<1>9. CASE Barrier  BY <1>1, <1>9 DEF Barrier, AfterBarrier, BarrierPcs
<1>10. ASSUME Forget \/ \E n \in RankCounts, again \in BOOLEAN : Launch(n, again)
       PROVE  FALSE
  BY <1>10 DEF Forget, Launch
<1>11. ASSUME \/ \E q \in Rank : SigtermArrives(q)
              \/ DeleteUnreadable \/ Finished \/ UNCHANGED vars
       PROVE  pc' = pc
  BY <1>11 DEF SigtermArrives, DeleteUnreadable, Finished, vars
<1> QED
  BY <1>2, <1>3, <1>4, <1>5, <1>6, <1>7, <1>8, <1>9, <1>10, <1>11
  DEF Next, RankStep, Open, Save, Collective, Finalize, Outside, Crash

\* A rank with no batch to do leaves its file as it opened it.
LEMMA NothingToDoStep ==
  ASSUME NumbersInv, DoneHasRows, BatchesDone, NothingToDo, [Next]_vars
  PROVE  NothingToDo'
<1>1. /\ IInv /\ FilesNew /\ NoFileNoRows /\ BatchesTogether
  BY DEF NumbersInv, DiskInv
<1>2. SUFFICES ASSUME NEW r \in Rank, pc'[r] \in {"close", "closed"},
                      NumberingEnd(r)' <= NumberingStart(r)'
               PROVE  OwnFile(r)'.done = {}
  BY DEF NothingToDo
<1>3. Knows(r)' /\ pc'[r] # "idle"  BY <1>2 DEF Knows, RunPcs
<1>4. /\ NumberingStart(r)' = NumberingStart(r) /\ NumberingEnd(r)' = NumberingEnd(r)
      /\ r \in Active
  BY <1>1, <1>3, KnowsCases
<1>5. chkNum'[r] = chkNum[r] /\ chkNum[r] \in Chk
  <2>1. ~RollsOver(r)  BY <1>1, <1>2 DEF RollsOver, Barrier, AfterBarrier
  <2> QED BY <1>1, <1>3, <2>1, KnowsMoves DEF StaysOn, IInv, TypeOK
<1>6. CASE OpenFiles(r)  BY <1>1, <1>6, OpenEffect DEF NoFile
<1>7. ASSUME pc[r] \in {"batch", "reduce"}
      PROVE  FALSE
  <2>1. batchStart[r] < NumberingEnd(r)  BY <1>1, <1>4, <1>7 DEF BatchesTogether
  <2>2. NumberingStart(r) <= batchStart[r]
    BY <1>7
    DEF BatchesDone, Knows, RunPcs, GoingOn, Constructed, Closing, SyncPcs, BatchFirst
  <2>3. NumberingStart(r) \in Nat /\ NumberingEnd(r) \in Nat /\ batchStart[r] \in Nat
    BY <1>1, NumberingType DEF IInv, TypeOK
  <2> QED BY <1>2, <1>4, <2>1, <2>2, <2>3
<1>8. CASE pc[r] \in {"close", "closed"}
  <2>1. DoneKept \/ \E q \in Rank, t \in Thread : FinishTrial(q, t)  BY <1>3, KnowsDone
  <2>2. OwnFile(r).done = {}  BY <1>2, <1>4, <1>8 DEF NothingToDo
  <2>3. CASE DoneKept  BY <1>5, <2>2, <2>3 DEF DoneKept, OwnFile
  <2>4. ASSUME NEW q \in Rank, NEW t \in Thread, FinishTrial(q, t)
        PROVE  OwnFile(r)'.done = {}
    <3>1. q # r  BY <1>1, <1>8, <2>4 DEF FinishTrial, IInv, TrialsOnlyInBatch
    <3> QED BY <1>1, <1>5, <2>2, <2>4, <3>1, FinishContent DEF OwnFile
  <2> QED BY <2>1, <2>3, <2>4
<1> QED BY <1>1, <1>2, <1>6, <1>7, <1>8, CloseMoves

\* At the start there is nothing to account for.
LEMMA InitLedger == Init => LedgerInv
<1> SUFFICES ASSUME Init
             PROVE  LedgerInv
  OBVIOUS
<1>1. DoneInv  BY InitDone
<1>2. 0 \in Rank  BY OutputAssumption DEF Rank
<1>3. \A r \in Rank : pc[r] = "idle"  BY DEF Init
<1> QED BY <1>1, <1>2, <1>3 DEF LedgerInv, NothingToDo, HighestFound

\* Every step keeps the invariant of the ledger.
LEMMA NextLedger ==
  ASSUME "error" \notin Faults \/ MaxRanks = 1
  PROVE  LedgerInv /\ [Next]_vars => LedgerInv'
<1> SUFFICES ASSUME LedgerInv, [Next]_vars
             PROVE  LedgerInv'
  OBVIOUS
<1>1. DoneInv /\ NothingToDo /\ HighestFound  BY DEF LedgerInv
<1>2. NumbersInv /\ DoneHasRows /\ BatchesDone  BY <1>1 DEF DoneInv
<1>3. DoneInv'  BY <1>1, NextDone
<1>4. NothingToDo'  BY <1>1, <1>2, NothingToDoStep
<1>5. HighestFound'  BY <1>1, <1>2, HighestFoundStep
<1> QED BY <1>3, <1>4, <1>5 DEF LedgerInv

-----------------------------------------------------------------------------
(* The steps of the ledger.                                                *)

\* The steps of the ledger: nothing is recorded, or a checkpoint is.
LedgerSame == Recorded' = Recorded
LedgerGrows == Recorded \subseteq Recorded' /\ \A n \in Recorded' \ Recorded, m \in Recorded : n > m

\* No checkpoint with trials in it becomes readable, or ceases to be.
LEMMA SameRecorded ==
  ASSUME \A c \in Chk : \/ ~Sealed(c) /\ ~Sealed(c)'
                        \/ DoneIn(c)' = DoneIn(c) /\ (DoneIn(c) # {} => Sealed(c)' = Sealed(c))
  PROVE  LedgerSame
<1>1. ASSUME NEW n \in Recorded
      PROVE  n \in Recorded'
  BY <1>1 DEF Recorded
<1>2. ASSUME NEW n \in Recorded'
      PROVE  n \in Recorded
  BY <1>2 DEF Recorded
<1> QED BY <1>1, <1>2 DEF LedgerSame

\* The last checkpoint becomes readable: its trials have higher numbers.
LEMMA MoreRecorded ==
  ASSUME DiskTypeOK, DoneHasRows, Ascending, NEW k \in Chk, ~Sealed(k),
         \A c \in Chk : c > k => DoneIn(c) = {},
         \A c \in Chk : DoneIn(c)' = DoneIn(c),
         \A c \in Chk : c # k => Sealed(c)' = Sealed(c)
  PROVE  LedgerGrows
<1>1. Recorded \subseteq Recorded'  BY DEF Recorded
<1>2. ASSUME NEW n \in Recorded' \ Recorded, NEW m \in Recorded
      PROVE  n > m
  <2>1. n \in DoneIn(k)  BY <1>2 DEF Recorded
  <2>2. PICK c \in Chk : Sealed(c) /\ m \in DoneIn(c)  BY <1>2 DEF Recorded
  <2>3. c < k
    <3>1. c # k /\ ~(c > k) /\ c \in Int /\ k \in Int  BY <2>2 DEF Chk
    <3> QED BY <3>1
  <2>4. \A d \in Chk : \A x \in DoneIn(d) : \E row \in RowsIn(d) : row.trial = x
    BY DEF DoneHasRows, DoneIn, RowsIn, Trials
  <2>5. PICK y \in RowsIn(k) : y.trial = n  BY <2>1, <2>4
  <2>6. PICK x \in RowsIn(c) : x.trial = m  BY <2>2, <2>4
  <2>7. x.trial < y.trial  BY <2>3, <2>5, <2>6 DEF Ascending
  <2>8. x.trial \in Nat /\ y.trial \in Nat  BY <2>5, <2>6, RowTypes
  <2> QED BY <2>5, <2>6, <2>7, <2>8
<1> QED BY <1>1, <1>2 DEF LedgerGrows

\* A checkpoint that is being consolidated, or was, is readable all the while.
LEMMA SealedWhole ==
  ASSUME NumbersInv, DoneHasRows, CopiesOnly, EarlierAgree,
         NEW c \in Chk, HasH5(c), DoneIn(c) # {}
  PROVE  Sealed(c)
<1>1. NoFileNoRows /\ EarlierSettled /\ IInv  BY DEF NumbersInv, DiskInv
<1>2. h5[c].st \in {"open", "torn", "closed"}
  <2>1. h5[c] \in File  BY <1>1 DEF IInv, TypeOK, DiskTypeOK
  <2> QED BY <2>1 DEF HasH5, File, FileStatus
<1>3. CASE h5[c].st = "closed"  BY <1>3 DEF Sealed
<1>4. CASE h5[c].st \in {"open", "torn"}
  <2>1. PICK q \in Rank : files[c][q].done # {}  BY <1>4 DEF CopiesOnly, DoneIn
  <2>2. q \in RanksIn(c)  BY <1>1, <2>1, NoFileNoDone DEF RanksIn
  <2>3. Settled(c) /\ CountsAgree(c)  BY <1>1 DEF EarlierSettled, EarlierAgree
  <2> QED BY <2>2, <2>3 DEF Sealed, Settled, CountsAgree
<1> QED BY <1>2, <1>3, <1>4

\* Whether a checkpoint is readable depends on its files only.
LEMMA SealedSame ==
  ASSUME NEW c \in Chk, h5'[c] = h5[c], \A q \in Rank : files'[c][q] = files[c][q]
  PROVE  Sealed(c)' = Sealed(c) /\ DoneIn(c)' = DoneIn(c)
<1>1. RanksIn(c)' = RanksIn(c) /\ RanksIn(c) \subseteq Rank  BY DEF RanksIn
<1>2. Sealed(c)' = Sealed(c)  BY <1>1 DEF Sealed, HasAttrs
<1>3. DoneIn(c)' = DoneIn(c)  BY DEF DoneIn
<1> QED BY <1>2, <1>3

\* A rank opens a file beside one that is closed only when there is nothing to do.
LEMMA LedgerOpen ==
  ASSUME LedgerInv, LedgerInv', NEW r \in Rank, OpenFiles(r)
  PROVE  LedgerSame
<1>1. /\ NumbersInv /\ NumbersInv' /\ DoneHasRows /\ NothingToDo /\ IInv /\ OnlyOurFiles /\ FilesNew
      /\ FilesOpened /\ BatchesTogether /\ NoFileNoRows /\ DiskInv /\ OwnInv
      /\ OnlyOurFiles' /\ pc[r] = "open_files" /\ chkNum' = chkNum
  BY DEF LedgerInv, DoneInv, NumbersInv, DiskInv, OwnInv, OpenFiles
<1>2. PICK k \in Chk : k = chkNum[r]  BY <1>1 DEF IInv, TypeOK
<1>3. OnlyFile(k, r) /\ files'[k][r].st = "open" /\ r \in Active
  BY <1>1, <1>2, OpenEffect, ActiveRanks
<1>4. \A c \in Chk : c # k => Sealed(c)' = Sealed(c) /\ DoneIn(c)' = DoneIn(c)
  BY <1>3, SealedSame DEF OnlyFile
<1>5. DoneIn(k)' = DoneIn(k)  BY <1>1, OwnFileContent, DoneSame DEF ContentKept, DoneKept
<1>6. ASSUME Sealed(k)
      PROVE  DoneIn(k) = {}
  <2>1. h5[k].done = {} /\ h5[k].st = "none"
    <3>1. ~HasH5(k)  BY <1>1, <1>2 DEF OnlyOurFiles, Knows, RunPcs
    <3> QED BY <1>1, <3>1, NoFileNoDone DEF HasH5
  <2>2. ASSUME NEW q \in Rank
        PROVE  files[k][q].done = {}
    <3>1. CASE q \notin RanksIn(k)  BY <1>1, <3>1, NoFileNoDone DEF RanksIn
    <3>2. CASE q \in RanksIn(k)
      <4>1. files[k][q].st = "closed"  BY <1>6, <2>1, <3>2 DEF Sealed, HasAttrs
      <4>2. q \in Active  BY <1>1, <1>2, <3>2, LastOne DEF RunPcs
      <4>3. pc[q] \in RunPcs /\ chkNum[q] = k  BY <1>1, <1>2, <4>2, Together DEF RunPcs
      <4>4. pc[q] = "closed"
        <5>1. pc[q] # "open_files"  BY <1>1, <4>1, <4>3 DEF FilesNew
        <5>2. pc[q] \notin {"batch", "reduce", "close"}
          BY <1>1, <4>1, <4>3 DEF FilesOpened, HasFile, OwnFile
        <5> QED BY <4>3, <5>1, <5>2 DEF RunPcs
      <4>5. NumberingEnd(r) <= NumberingStart(r)  BY <1>1, <1>3, <4>2, <4>4 DEF BatchesTogether
      <4>6. NumberingEnd(q) = NumberingEnd(r) /\ NumberingStart(q) = NumberingStart(r)
        BY <1>1, <1>3, <4>2, <4>3, SameNumbering DEF Knows, RunPcs
      <4>7. OwnFile(q).done = {}  BY <1>1, <4>4, <4>5, <4>6 DEF NothingToDo
      <4> QED BY <4>3, <4>7 DEF OwnFile
    <3> QED BY <3>1, <3>2
  <2> QED BY <2>1, <2>2 DEF DoneIn
<1>7. ~Sealed(k)'
  <2>1. h5'[k].st = "none"
    <3>1. h5[k].st = "none"  BY <1>1, <1>2 DEF OnlyOurFiles, Knows, RunPcs, HasH5
    <3> QED BY <1>3, <3>1 DEF OnlyFile
  <2>2. r \in RanksIn(k)'  BY <1>3 DEF RanksIn
  <2> QED BY <1>3, <2>1, <2>2 DEF Sealed, HasAttrs
<1> QED BY <1>4, <1>5, <1>6, <1>7, SameRecorded

\* A trial works on a file that is open.
LEMMA LedgerTrial ==
  ASSUME LedgerInv, LedgerInv', NEW r \in Rank, NEW t \in Thread,
         WriteTrial(r, t) \/ FinishTrial(r, t)
  PROVE  LedgerSame
<1>1. /\ NumbersInv /\ IInv /\ OnlyOurFiles /\ FilesOpened
  BY DEF LedgerInv, DoneInv, NumbersInv, DiskInv
<1>2. PICK k \in Chk : k = chkNum[r]  BY <1>1 DEF IInv, TypeOK
<1>3. pc[r] = "batch"  BY <1>1 DEF WriteTrial, FinishTrial, IInv, TrialsOnlyInBatch
<1>4. files[k][r].st = "open" /\ h5[k].st = "none"
  BY <1>1, <1>2, <1>3
  DEF FilesOpened, HasFile, OwnFile, OnlyOurFiles, Knows, RunPcs, HasH5
<1>5. OnlyFile(k, r) /\ files'[k][r].st = files[k][r].st  BY <1>1, <1>2, WriteEffect, FinishEffect
<1>6. \A c \in Chk : c # k => Sealed(c)' = Sealed(c) /\ DoneIn(c)' = DoneIn(c)
  BY <1>5, SealedSame DEF OnlyFile
<1>7. ~Sealed(k)  BY <1>4 DEF Sealed, RanksIn, HasAttrs
<1>8. ~Sealed(k)'
  <2>1. h5'[k].st = "none" /\ files'[k][r].st = "open"  BY <1>4, <1>5 DEF OnlyFile
  <2> QED BY <2>1 DEF Sealed, RanksIn, HasAttrs
<1> QED BY <1>6, <1>7, <1>8, SameRecorded

\* While a rank runs or synchronises, no checkpoint is beyond its own.
LEMMA NoneBeyond ==
  ASSUME NumbersInv, DoneHasRows, NEW r \in Rank, pc[r] \in RunPcs \cup SyncPcs
  PROVE  chkNum[r] \in Chk /\ \A c \in Chk : c > chkNum[r] => DoneIn(c) = {}
<1>1. DiskInv /\ OwnInv /\ NoFileNoRows  BY DEF NumbersInv, OwnInv
<1>2. /\ chkNum[r] \in Chk
      /\ \A c \in Chk : c > chkNum[r] => ~HasH5(c) /\ RanksIn(c) = {}
  BY <1>1, LastOne
<1>3. ASSUME NEW c \in Chk, c > chkNum[r]
      PROVE  DoneIn(c) = {}
  <2>1. h5[c].done = {} /\ \A q \in Rank : files[c][q].done = {}
    BY <1>1, <1>2, <1>3, NoFileNoDone DEF HasH5, RanksIn
  <2> QED BY <2>1 DEF DoneIn
<1> QED BY <1>2, <1>3

\* A rank closes its file: the checkpoint may now be readable, and was not.
LEMMA LedgerClose ==
  ASSUME LedgerInv, NEW r \in Rank, Close(r)
  PROVE  LedgerGrows
<1>1. /\ NumbersInv /\ IInv /\ OnlyOurFiles /\ FilesOpened /\ DoneHasRows /\ Ascending /\ DiskTypeOK
      /\ FilesNew /\ NoFileNoRows /\ pc[r] = "close"
  BY DEF LedgerInv, DoneInv, NumbersInv, DiskInv, IInv, TypeOK, Close
<1>2. PICK k \in Chk : k = chkNum[r]  BY <1>1 DEF IInv, TypeOK
<1>3. files[k][r].st = "open" /\ h5[k].st = "none"
  BY <1>1, <1>2
  DEF FilesOpened, HasFile, OwnFile, OnlyOurFiles, Knows, RunPcs, HasH5
<1>4. OnlyFile(k, r)  BY <1>1, <1>2, CloseEffect
<1>5. \A c \in Chk : c # k => Sealed(c)' = Sealed(c)  BY <1>4, SealedSame DEF OnlyFile
<1>6. \A c \in Chk : DoneIn(c)' = DoneIn(c)
  BY <1>1, OwnFileContent, DoneSame DEF ContentKept, DoneKept
<1>7. ~Sealed(k)  BY <1>3 DEF Sealed, RanksIn, HasAttrs
<1>8. \A c \in Chk : c > k => DoneIn(c) = {}  BY <1>1, <1>2, NoneBeyond DEF RunPcs
<1> QED BY <1>1, <1>5, <1>6, <1>7, <1>8, MoreRecorded

\* What is written over a file all others agree with is what it said.
LEMMA AgreedIsSum ==
  ASSUME LedgerInv, pc[0] = "sync_write", NEW k \in Chk, k = chkNum[0], Agreeing(k),
         NEW p, p = sync.next
  PROVE  files[k][p].tc = sync.tc /\ files[k][p].mx = sync.mx
<1>1. /\ NumbersInv /\ IInv /\ HighestSynced /\ CountSynced /\ HighestFound /\ CountsAccurate
      /\ DoneHasRows /\ FilesOpened
  BY DEF LedgerInv, DoneInv, NumbersInv, DiskInv
<1>2. /\ 0 \in Active /\ Active \subseteq Rank /\ p \in Active /\ 0 \in Rank /\ size \in Nat
      /\ \A q \in Active : pc[q] \in SyncPcs /\ chkNum[q] = k
  <2>1. 0 \in Active /\ Active \subseteq Rank /\ p \in Active /\ 0 \in Rank /\ size \in Nat
    BY <1>1, SyncKnows
  <2> QED BY <1>1, <2>1, Together DEF SyncPcs
<1>3. \A q \in Active : q \in RanksIn(k)
  <2> TAKE q \in Active
  <2>1. OwnFile(q).st = "closed"  BY <1>1, <1>2 DEF FilesOpened, HasFile, SyncPcs
  <2> QED BY <1>2, <2>1 DEF OwnFile, RanksIn
<1>4. \A q, s \in Active : files[k][q].tc = files[k][s].tc /\ files[k][q].mx = files[k][s].mx
  BY <1>3 DEF Agreeing, Settled, CountsAgree
<1>5. files[k][p].tc = sync.tc
  <2>1. files[k][p].tc = Cardinality(DoneUpTo(k))  BY <1>1, <1>2, <1>3 DEF CountsAccurate
  <2>2. DoneUpTo(k) = DoneOnDisk  BY <1>1, <1>2, DoneToLast DEF SyncPcs
  <2> QED BY <1>1, <2>1, <2>2 DEF CountSynced
<1>6. \A q \in Active : /\ maxTrial[q] <= sync.mx
                        /\ Left(q).mx = IF q < p THEN sync.mx ELSE maxTrial[q]
  BY <1>1 DEF HighestSynced
<1>7. \A q \in Active : Left(q) = files[k][q] /\ maxTrial[q] \in Nat /\ q \in Nat
  BY <1>1, <1>2 DEF Left, IInv, TypeOK, Rank
<1>8. files[k][p].mx = sync.mx
  <2>1. CASE 0 < p
    <3>1. files[k][0].mx = sync.mx  BY <1>2, <1>6, <1>7, <2>1
    <3> QED BY <1>2, <1>4, <3>1
  <2>2. CASE ~(0 < p)
    <3>1. p = 0  BY <1>2, <1>7, <2>2
    <3>2. \A q \in Active : files[k][q].mx = maxTrial[q]  BY <1>6, <1>7, <3>1
    <3>3. \A q \in Active : maxTrial[q] = maxTrial[p]  BY <1>2, <1>4, <3>2
    <3>4. CASE sync.mx = 0
      <4>1. maxTrial[p] <= 0 /\ maxTrial[p] \in Nat  BY <1>2, <1>6, <1>7, <3>4
      <4> QED BY <1>2, <3>2, <3>4, <4>1
    <3>5. CASE \E q \in Active : sync.mx = maxTrial[q]  BY <1>2, <3>2, <3>3, <3>5
    <3> QED BY <1>1, <3>4, <3>5 DEF HighestFound
  <2> QED BY <2>1, <2>2
<1> QED BY <1>5, <1>8

\* Rank 0 gives a file the totals: the checkpoint is readable when all have them.
LEMMA LedgerSync ==
  ASSUME LedgerInv, SyncWrite(0)
  PROVE  LedgerSame \/ LedgerGrows
<1>1. /\ NumbersInv /\ IInv /\ OnlyOurFiles /\ FilesOpened /\ DoneHasRows /\ Ascending /\ DiskTypeOK
      /\ FilesNew /\ NoFileNoRows /\ pc[0] = "sync_write" /\ 0 \in Rank
  <2>1. 0 \in Rank  BY OutputAssumption DEF Rank
  <2> QED BY <2>1 DEF LedgerInv, DoneInv, NumbersInv, DiskInv, IInv, TypeOK, SyncWrite
<1>2. PICK k \in Chk : k = chkNum[0]  BY <1>1 DEF IInv, TypeOK
<1>3. PICK p \in Rank : p = sync.next  BY <1>1, SyncKnows
<1>4. /\ OnlyFile(k, p)
      /\ files'[k][p] = [files[k][p] EXCEPT !.tc = sync.tc, !.mx = sync.mx]
  BY <1>1, <1>2, <1>3, SyncEffect
<1>5. \A c \in Chk : c # k => Sealed(c)' = Sealed(c)  BY <1>4, SealedSame DEF OnlyFile
<1>6. \A c \in Chk : DoneIn(c)' = DoneIn(c)
  BY <1>1, OwnFileContent, DoneSame DEF ContentKept, DoneKept
<1>7. CASE ~Sealed(k)
  <2>1. \A c \in Chk : c > k => DoneIn(c) = {}  BY <1>1, <1>2, NoneBeyond DEF SyncPcs
  <2> QED BY <1>1, <1>5, <1>6, <1>7, <2>1, MoreRecorded
<1>8. CASE Sealed(k)
  <2>1. h5[k].st = "none"  BY <1>1, <1>2 DEF OnlyOurFiles, Knows, SyncPcs, HasH5
  <2>2. Agreeing(k)  BY <1>8, <2>1 DEF Sealed, Agreeing, Settled, CountsAgree
  <2>3. files[k][p].tc = sync.tc /\ files[k][p].mx = sync.mx  BY <1>1, <1>2, <1>3, <2>2, AgreedIsSum
  <2>4. files'[k][p] = files[k][p]
    <3>1. files[k][p] \in File  BY <1>1 DEF DiskTypeOK
    <3> QED BY <1>4, <2>3, <3>1 DEF File
  <2>5. Sealed(k)' = Sealed(k)
    <3>1. h5'[k] = h5[k] /\ \A q \in Rank : files'[k][q] = files[k][q]  BY <1>4, <2>4 DEF OnlyFile
    <3> QED BY <3>1, SealedSame
  <2> QED BY <1>5, <1>6, <2>5, SameRecorded
<1> QED BY <1>7, <1>8

\* The directory and the consolidated file of a checkpoint stand in for each other.
LEMMA LedgerMerge ==
  ASSUME LedgerInv, NEW r \in Rank, Merge(r)
  PROVE  LedgerSame
<1>1. /\ NumbersInv /\ IInv /\ MergedSoFar /\ NoFileNoRows /\ DoneHasRows /\ CopiesOnly
      /\ EarlierAgree
  BY DEF LedgerInv, DoneInv, NumbersInv, DiskInv
<1>2. \A c \in Chk : DoneIn(c)' = DoneIn(c)  BY <1>1, MergeDoneSame
<1>3. CASE UNCHANGED disk
  <2>1. UNCHANGED <<files, h5>>  BY <1>3 DEF disk
  <2>2. \A c \in Chk : Sealed(c)' = Sealed(c)  BY <2>1, SealedSame
  <2> QED BY <1>2, <2>2, SameRecorded
<1>4. ASSUME NEW c \in Chk,
             \A d \in Chk : d # c => h5'[d] = h5[d] /\ \A q \in Rank : files'[d][q] = files[d][q],
             Copied(c) \/ Appended(c) \/ Completed(c) \/ Removed(c)
      PROVE  LedgerSame
  <2>1. \A d \in Chk : d # c => Sealed(d)' = Sealed(d)  BY <1>4, SealedSame
  <2>2. CASE Copied(c) \/ Appended(c)
    <3>1. UNCHANGED files /\ (h5'[c].st = "closed" <=> h5[c].st = "closed")
      BY <2>2 DEF Copied, Appended
    <3>2. Sealed(c)' = Sealed(c)  BY <3>1 DEF Sealed, RanksIn
    <3> QED BY <1>2, <2>1, <3>2, SameRecorded
  <2>3. CASE Completed(c)
    <3>1. Sealed(c)' /\ HasH5(c)  BY <2>3 DEF Completed, Sealed, HasH5
    <3>2. DoneIn(c) # {} => Sealed(c)  BY <1>1, <3>1, SealedWhole
    <3> QED BY <1>2, <2>1, <3>1, <3>2, SameRecorded
  <2>4. CASE Removed(c)
    <3>1. Sealed(c)' /\ Sealed(c)  BY <2>4 DEF Removed, Sealed
    <3> QED BY <1>2, <2>1, <3>1, SameRecorded
  <2> QED BY <1>4, <2>2, <2>3, <2>4
<1> QED BY <1>1, <1>3, <1>4, MergeContent

\* A crash leaves what is readable so, though a consolidated file may come to be.
LEMMA LedgerCrash ==
  ASSUME LedgerInv, Crash
  PROVE  LedgerSame
<1>1. NumbersInv /\ DoneHasRows /\ CopiesOnly /\ EarlierAgree /\ IInv
  BY DEF LedgerInv, DoneInv, NumbersInv, DiskInv
<1>2. /\ \A c \in Chk, q \in Rank :
           /\ files'[c][q].st = IF files[c][q].st = "open" THEN "torn" ELSE files[c][q].st
           /\ files'[c][q].mx = files[c][q].mx
      /\ \A c \in Chk : h5'[c].st \in IF h5[c].st = "open" THEN {"torn", "closed"} ELSE {h5[c].st}
  BY <1>1, CrashEffect
<1>3. \A c \in Chk, q \in Rank : files'[c][q].tc = files[c][q].tc  BY <1>1, CrashCounts
<1>4. \A c \in Chk : DoneIn(c)' = DoneIn(c)
  BY <1>1, CrashContent, DoneSame DEF ContentKept, DoneKept
<1>5. ASSUME NEW c \in Chk
      PROVE  \/ ~Sealed(c) /\ ~Sealed(c)'
             \/ DoneIn(c)' = DoneIn(c) /\ (DoneIn(c) # {} => Sealed(c)' = Sealed(c))
  <2>1. RanksIn(c)' = RanksIn(c) /\ \A q \in Rank : HasAttrs(files[c][q])' = HasAttrs(files[c][q])
    BY <1>2 DEF RanksIn, HasAttrs
  <2> DEFINE InFiles == /\ RanksIn(c) # {}
                        /\ \A q \in RanksIn(c) : HasAttrs(files[c][q])
                        /\ \A q, r \in RanksIn(c) : /\ files[c][q].tc = files[c][r].tc
                                                    /\ files[c][q].mx = files[c][r].mx
  <2>5. InFiles' <=> InFiles
    <3>1. RanksIn(c) \subseteq Rank  BY DEF RanksIn
    <3> QED BY <1>2, <1>3, <2>1, <3>1
  <2>6. /\ Sealed(c) <=> h5[c].st = "closed" \/ InFiles
        /\ Sealed(c)' <=> h5'[c].st = "closed" \/ InFiles'
    BY DEF Sealed
  <2> HIDE DEF InFiles
  <2>2. h5[c].st # "open" => (Sealed(c)' <=> Sealed(c))
    <3>1. h5[c].st # "open" => h5'[c].st = h5[c].st  BY <1>2
    <3> QED BY <2>5, <2>6, <3>1
  <2>3. h5[c].st = "open" /\ Sealed(c) => Sealed(c)'  BY <2>5, <2>6
  <2>4. h5[c].st = "open" /\ DoneIn(c) # {} => Sealed(c)  BY <1>1, SealedWhole DEF HasH5
  <2> QED BY <1>4, <2>2, <2>3, <2>4
<1> QED BY <1>5, SameRecorded

\* The user deletes only what is not readable, or is so in another form.
LEMMA LedgerDelete ==
  ASSUME LedgerInv, DeleteUnreadable
  PROVE  LedgerSame
<1>1. NumbersInv /\ DoneHasRows /\ CopiesOnly /\ IInv /\ NoFileNoRows
  BY DEF LedgerInv, DoneInv, NumbersInv, DiskInv
<1>2. PICK m \in Chk : m = MaxCheckpoint  BY <1>1, DeleteEffect
<1>3. /\ \A c \in Chk : c # m => DoneIn(c)' = DoneIn(c)
      /\ DoneIn(m)' = DoneIn(m) \/ (DoneIn(m)' = {} /\ h5[m].st = "none" /\ ~Readable(m))
  BY <1>1, <1>2, DeleteDone
<1>4. /\ \A d \in Chk : d # m => h5'[d] = h5[d] /\ \A q \in Rank : files'[d][q] = files[d][q]
      /\ \/ UNCHANGED files /\ h5[m].st \in {"open", "torn"} /\ h5'[m] = NoFile
         \/ /\ UNCHANGED h5 /\ h5[m].st = "none" /\ ~Readable(m)
            /\ \A q \in Rank : files'[m][q] = NoFile
  BY <1>1, <1>2, DeleteContent
<1>5. \A c \in Chk : c # m => Sealed(c)' = Sealed(c)  BY <1>4, SealedSame
<1>6. NoFile.st = "none"  BY DEF NoFile
<1>7. CASE UNCHANGED files /\ h5[m].st \in {"open", "torn"} /\ h5'[m] = NoFile
  <2>1. Sealed(m)' = Sealed(m)  BY <1>6, <1>7 DEF Sealed, RanksIn
  <2>2. DoneIn(m)' = DoneIn(m)  BY <1>3, <1>7
  <2> QED BY <1>3, <1>5, <2>1, <2>2, SameRecorded
<1>8. CASE /\ UNCHANGED h5 /\ h5[m].st = "none" /\ ~Readable(m)
           /\ \A q \in Rank : files'[m][q] = NoFile
  <2>1. ~Sealed(m)
    <3>1. RestartSource(m) = {files[m][q] : q \in RanksIn(m)}  BY <1>8 DEF RestartSource, HasH5
    <3> QED BY <1>8, <3>1 DEF Sealed, Readable, AttrsAgree
  <2>2. ~Sealed(m)'  BY <1>6, <1>8 DEF Sealed, RanksIn
  <2> QED BY <1>3, <1>5, <2>1, <2>2, SameRecorded
<1> QED BY <1>4, <1>7, <1>8

\* The files are as they were.
LEMMA LedgerDisk ==
  ASSUME UNCHANGED <<files, h5>>
  PROVE  LedgerSame
<1>1. \A c \in Chk : Sealed(c)' = Sealed(c) /\ DoneIn(c)' = DoneIn(c)  BY SealedSame
<1> QED BY <1>1, SameRecorded

\* A step of the run is one of the ledger, or changes nothing of it.
LEMMA LedgerStep ==
  ASSUME LedgerInv, LedgerInv', [Next]_vars
  PROVE  LedgerSame \/ LedgerGrows
<1>1. IInv  BY DEF LedgerInv, DoneInv, NumbersInv, DiskInv
<1>2. CASE UNCHANGED disk  BY <1>2, LedgerDisk DEF disk
<1>3. ASSUME NEW r \in Rank, MakeDir(r)
      PROVE  LedgerSame
  BY <1>3, LedgerDisk DEF MakeDir, CreateDirectory
<1>4. ASSUME NEW r \in Rank, SyncWrite(r)
      PROVE  LedgerSame \/ LedgerGrows
  <2>1. r = 0  BY <1>1, <1>4 DEF IInv, RootOnly, SyncWrite
  <2> QED BY <1>4, <2>1, LedgerSync
<1> QED
  BY <1>2, <1>3, <1>4, DiskSteps, LedgerOpen, LedgerClose, LedgerMerge, LedgerTrial, LedgerCrash,
     LedgerDelete
  DEF DiskStep

\* They have numbers, and are no more than were asked for.
RecordedBound == Recorded \subseteq Nat /\ Cardinality(Recorded) <= NTrial

\* No more is recorded than is done, and that is no more than was asked for.
LEMMA RecordedBounded ==
  ASSUME LedgerInv
  PROVE  RecordedBound
<1>1. IInv /\ BudgetKept  BY DEF LedgerInv, DoneInv, NumbersInv, DiskInv
<1>2. Recorded \subseteq DoneOnDisk  BY DEF Recorded, DoneOnDisk
<1>3. DoneOnDisk \subseteq Nat  BY <1>1, DoneNat
<1>4. Cardinality(Recorded) <= NTrial
  <2>1. IsFiniteSet(DoneOnDisk) /\ Cardinality(DoneOnDisk) <= NTrial  BY <1>1 DEF BudgetKept
  <2>2. /\ Cardinality(Recorded) <= Cardinality(DoneOnDisk)
        /\ Cardinality(Recorded) \in Nat /\ Cardinality(DoneOnDisk) \in Nat
    BY <1>2, <2>1, FS_Subset, FS_CardinalityType
  <2>3. NTrial \in Int  BY RunAssumption
  <2> QED BY <2>1, <2>2, <2>3
<1> QED BY <1>2, <1>3, <1>4 DEF RecordedBound

\* Nothing is recorded when there is nothing.
LEMMA RecordedNothing ==
  ASSUME Init
  PROVE  Recorded = {}
<1>1. \A c \in Chk : ~Sealed(c)  BY DEF Init, DiskInit, NoFile, Sealed, RanksIn
<1> QED BY <1>1 DEF Recorded

\* The ledger's invariant holds throughout a run.
THEOREM LedgerInductive ==
  ASSUME "error" \notin Faults \/ MaxRanks = 1
  PROVE  Spec => []LedgerInv
<1>1. LedgerInv /\ [Next]_vars => LedgerInv'  BY NextLedger
<1> QED BY <1>1, InitLedger, PTL DEF Spec

\* The checkpoints of a run, over all its sessions, crashes and deletions, implement
\* the ledger: what a restart would count as done only grows, by numbers higher than
\* all before, and never beyond n_trial.
THEOREM LedgerImplemented ==
  ASSUME "error" \notin Faults \/ MaxRanks = 1
  PROVE  Spec => ImplementsLedger
<1>1. Init => Ledger!Init  BY RecordedNothing DEF Ledger!Init, Recorded
<1>2. LedgerInv /\ LedgerInv' /\ RecordedBound' /\ [Next]_vars => [Ledger!Record]_Recorded
  <2> SUFFICES ASSUME LedgerInv, LedgerInv', RecordedBound', [Next]_vars, ~LedgerSame
               PROVE  Ledger!Record
    BY DEF LedgerSame
  <2>1. LedgerGrows  BY LedgerStep
  <2>2. Recorded' \subseteq Nat /\ Cardinality(Recorded') <= NTrial  BY DEF RecordedBound
  <2>3. Ledger!Cardinality(Recorded') = Cardinality(Recorded')
    BY DEF Ledger!Cardinality, Cardinality
  <2> QED BY <2>1, <2>2, <2>3 DEF Ledger!Record, Recorded, LedgerGrows
<1>3. Spec => []LedgerInv  BY LedgerInductive
<1>4. LedgerInv => RecordedBound  BY RecordedBounded
<1> QED BY <1>1, <1>2, <1>3, <1>4, PTL DEF Spec, ImplementsLedger, Ledger!Spec, Recorded

-----------------------------------------------------------------------------
(* What the ranks of a restart are told of their IDs.                      *)

\* The checkpoints it looks for are among those there are.
LEMMA UidCheckpointsFound ==
  ASSUME NoStrays, NEW r \in Rank, NEW c \in UidCheckpoints(r)
  PROVE  /\ c \in FoundCheckpoints /\ c \in Chk
         /\ FoundCheckpoints # {} /\ MaxCheckpoint \in FoundCheckpoints /\ c <= MaxCheckpoint
<1>1. c \in FoundCheckpoints  BY DEF UidCheckpoints, FoundCheckpoints, Exists, NoStrays
<1> QED BY <1>1, MaxCheckpointLast DEF FoundCheckpoints

\* A rank that stops at a directory finds its file closed.
LEMMA DirectoryGivesId ==
  ASSUME NoStrays, EarlierSettled, Readable(MaxCheckpoint), NEW r \in Rank,
         UidCheckpoints(r) # {}, ~HasH5(Max(UidCheckpoints(r))), NEW n
  PROVE  ~UidRefused(r, n)
<1>1. PICK k \in UidCheckpoints(r) : k = Max(UidCheckpoints(r))  BY LastUidCheckpoint
<1>2. /\ k \in Chk /\ k \in FoundCheckpoints /\ k <= MaxCheckpoint
      /\ MaxCheckpoint \in FoundCheckpoints
  BY <1>1, UidCheckpointsFound
<1>3. r \in RanksIn(k) /\ ~HasH5(k) /\ UidFile(r) = files[k][r]
  BY <1>1 DEF UidCheckpoints, RanksIn, UidFile
<1>4. HasAttrs(files[k][r])
  <2>1. CASE k = MaxCheckpoint  BY <1>3, <2>1 DEF Readable, AttrsAgree, RestartSource
  <2>2. CASE k < MaxCheckpoint  BY <1>2, <1>3, <2>2 DEF EarlierSettled, Settled
  <2>3. k \in Int /\ MaxCheckpoint \in Int  BY <1>2 DEF Chk, FoundCheckpoints
  <2> QED BY <1>2, <2>1, <2>2, <2>3
<1> QED BY <1>1, <1>3, <1>4 DEF UidRefused

\* Where nothing is consolidated no rank is refused.
LEMMA NoneRefused ==
  ASSUME NoStrays, EarlierSettled, Readable(MaxCheckpoint), NEW r \in Rank,
         \A c \in Chk : ~HasH5(c), NEW n
  PROVE  ~UidRefused(r, n)
<1>1. CASE UidCheckpoints(r) = {}  BY <1>1 DEF UidRefused
<1>2. CASE UidCheckpoints(r) # {}  BY <1>2, LastUidCheckpoint, UidCheckpointsFound, DirectoryGivesId
<1> QED BY <1>1, <1>2

\* A run of one rank goes on with the last checkpoint, in one form or the other.
LEMMA OnlyRankAccepted ==
  ASSUME MaxRanks = 1, NoStrays, FoundCheckpoints # {}, Readable(MaxCheckpoint)
  PROVE  ~UidRefused(0, 1)
<1>1. 0 \in Rank /\ Rank = {0}  BY OutputAssumption DEF Rank
<1>2. PICK m \in FoundCheckpoints : m = MaxCheckpoint  BY MaxCheckpointLast
<1>3. m \in Chk /\ m \in UidCheckpoints(0)
  BY <1>1, <1>2 DEF FoundCheckpoints, Readable, RestartSource, RanksIn, UidCheckpoints
<1>4. Max(UidCheckpoints(0)) = m
  <2>1. PICK k \in UidCheckpoints(0) : k = Max(UidCheckpoints(0)) /\ m <= k
    BY <1>1, <1>3, LastUidCheckpoint
  <2>2. k <= m /\ k \in Chk  BY <1>1, <1>2, UidCheckpointsFound
  <2>3. k \in Int /\ m \in Int  BY <1>3, <2>2 DEF Chk
  <2> QED BY <2>1, <2>2, <2>3
<1>5. UidFile(0) \in RestartSource(m)
  <2>1. UidFile(0) = IF HasH5(m) THEN h5[m] ELSE files[m][0]  BY <1>4 DEF UidFile
  <2> QED BY <1>1, <1>3, <2>1 DEF UidCheckpoints, RestartSource, RanksIn
<1>6. HasAttrs(UidFile(0))  BY <1>2, <1>5 DEF Readable, AttrsAgree
<1> QED BY <1>6 DEF UidRefused

-----------------------------------------------------------------------------
(* Runs that do not consolidate, and the sizes of sessions.                *)

\* Without consolidation there is never a consolidated file.
LEMMA NoneConsolidatedStep ==
  ASSUME IInv, ~Consolidate, NoneConsolidated, [Next]_vars
  PROVE  NoneConsolidated'
<1>1. 0 \in Rank  BY OutputAssumption DEF Rank
<1>2. \A r \in Rank : ~Merge(r)
  BY DEF NoneConsolidated, IInv, RootOnly, Merge, MergeSkip, MergeCopy, MergeAppend, MergeClose,
         MergeUnlink, MergeRemove, MergeDone
<1>3. pc'[0] # "merge"
  <2>1. CASE Barrier /\ pc[0] = "synced"  BY <1>1, <2>1 DEF Barrier, AfterBarrier
  <2> QED BY <1>1, <1>2, <2>1, EndMoves DEF NoneConsolidated, EndPcs
<1>4. \A c \in Chk : ~HasH5(c)'  BY <1>2, H5Moves DEF NoneConsolidated
<1> QED BY <1>3, <1>4 DEF NoneConsolidated, HasH5

\* A session keeps the ranks it was launched with.
LEMMA RanksChosenStep ==
  ASSUME RanksChosen, [Next]_vars
  PROVE  RanksChosen'
<1>1. ASSUME NEW n \in RankCounts, NEW again \in BOOLEAN, Launch(n, again)
      PROVE  RanksChosen'
  BY <1>1 DEF Launch, RanksChosen
<1>2. CASE Forget  BY <1>2 DEF Forget, RanksChosen, Running
<1>3. CASE size' = size  BY <1>3 DEF RanksChosen, Running
<1>4. ASSUME NEW r \in Rank, RankStep(r)
      PROVE  size' = size
  <2>1. CASE Setup(r) \/ Open(r) \/ Batch(r) \/ Save(r)
    BY <2>1
    DEF Setup, SetupThrows, SetupFresh, SetupRestart, Open, OpenThrows, OpenCheck, MakeDir,
        OpenFiles, Batch, BatchDone, BatchFailed, Save, Close, SyncRead, SyncWrite
  <2>2. CASE Merge(r)
    BY <2>2
    DEF Merge, MergeSkip, MergeCopy, MergeAppend, MergeClose, MergeUnlink, MergeRemove, MergeDone
  <2>3. CASE \E t \in Thread : Trial(r, t)
    BY <2>3
    DEF Trial, SkipTrial, BeginTrial, WriteTrial, FinishTrial, TaskUnchanged
  <2> QED BY <1>4, <2>1, <2>2, <2>3 DEF RankStep
<1>5. Collective => size' = size \/ Forget  BY DEF Collective, Reduce, Barrier, Finalize
<1>6. Outside => size' = size \/ Forget \/ \E n \in RankCounts, again \in BOOLEAN : Launch(n, again)
  BY DEF Outside, SigtermArrives, FailTrial, TaskUnchanged, Crash, DeleteUnreadable
<1>7. Finished \/ UNCHANGED vars => size' = size  BY DEF Finished, vars
<1> QED BY <1>1, <1>2, <1>3, <1>4, <1>5, <1>6, <1>7 DEF Next

-----------------------------------------------------------------------------
(* Constructors that throw.                                                *)

\* Whether a constructor throws depends on the disk and how it was launched.
LEMMA RefusedSame ==
  ASSUME UNCHANGED <<size, restart, disk>>, NEW r
  PROVE  SetupRefused(r)' = SetupRefused(r) /\ FoundCheckpoints' = FoundCheckpoints
<1>1. FoundCheckpoints' = FoundCheckpoints /\ Readable(MaxCheckpoint)' = Readable(MaxCheckpoint)
  BY ReadableSame
<1>2. UidRefused(r, size)' = UidRefused(r, size)
  BY DEF disk, UidRefused, UidCheckpoints, UidFile, HasH5
<1> QED BY <1>1, <1>2 DEF SetupRefused

\* While a rank is in its constructor, or looks for the name of its checkpoint, nothing
\* is written.
LEMMA OpeningReadsOnly ==
  ASSUME IInv, [Next]_vars, NEW r \in Active, r \in Rank,
         pc[r] \in {"setup", "open_check", "open_checked"}, pc'[r] # "idle"
  PROVE  UNCHANGED disk
<1> SUFFICES ASSUME DiskStep
             PROVE  FALSE
  BY DiskSteps
<1>1. CASE Crash \/ DeleteUnreadable
  <2>1. pc'[r] = "idle"  BY <1>1, DeleteEffect DEF Crash, Forget
  <2> QED BY <2>1
<1>2. PICK q \in Rank :
        \/ MakeDir(q) \/ OpenFiles(q) \/ Close(q) \/ SyncWrite(q) \/ Merge(q)
        \/ \E t \in Thread : WriteTrial(q, t) \/ FinishTrial(q, t)
  BY <1>1 DEF DiskStep
<1>3. pc[q] \in DirPcs \cup RunPcs \cup SyncPcs \cup {"merge"}
  <2>1. CASE \E t \in Thread : WriteTrial(q, t) \/ FinishTrial(q, t)
    BY <2>1 DEF WriteTrial, FinishTrial, IInv, TrialsOnlyInBatch, RunPcs
  <2>2. CASE MakeDir(q) \/ OpenFiles(q) \/ Close(q) \/ SyncWrite(q) \/ Merge(q)
    BY <2>2
    DEF MakeDir, OpenFiles, Close, SyncWrite, Merge, MergeSkip, MergeCopy, MergeAppend,
        MergeClose, MergeUnlink, MergeRemove, MergeDone, DirPcs, RunPcs, SyncPcs
  <2> QED BY <1>2, <2>1, <2>2
<1> QED BY <1>3, OnePhase

\* How a rank comes to where it opens its files.
LEMMA OpeningMoves ==
  ASSUME IInv, [Next]_vars, NEW r \in Rank, pc'[r] \in {"setup", "open_check", "open_checked"}
  PROVE  \/ \E n \in RankCounts, again \in BOOLEAN : Launch(n, again)
         \/ Barrier /\ pc[r] = "synced" /\ exit[r] = "none"
         \/ /\ r \in Active /\ UNCHANGED <<size, restart, disk>> /\ inRun'[r] = inRun[r]
            /\ \/ pc[r] = "setup" /\ (pc'[r] = "setup" \/ SetupFresh(r) \/ SetupRestart(r))
               \/ pc[r] \in {"open_check", "open_checked"} /\ pc'[r] # "setup"
<1>1. /\ pc \in [Rank -> {"idle"} \cup CollectivePcs \cup LocalPcs]
      /\ inRun \in [Rank -> BOOLEAN]
  BY DEF IInv, TypeOK
<1> DEFINE Was == \/ pc[r] = "setup" /\ (pc'[r] = "setup" \/ SetupFresh(r) \/ SetupRestart(r))
                  \/ pc[r] \in {"open_check", "open_checked"} /\ pc'[r] # "setup"
           Goal == UNCHANGED <<size, restart>> /\ inRun'[r] = inRun[r] /\ Was
<1>2. ASSUME Goal
      PROVE  r \in Active /\ UNCHANGED <<size, restart, disk>> /\ inRun'[r] = inRun[r] /\ Was
  <2>1. r \in Active  BY <1>2, ActiveRanks
  <2> QED BY <1>2, <2>1, OpeningReadsOnly
<1>3. ASSUME Forget
      PROVE  FALSE
  BY <1>3 DEF Forget
<1>4. ASSUME NEW q \in Rank, Setup(q)
      PROVE  Goal
  BY <1>1, <1>4 DEF Setup, SetupThrows, SetupFresh, SetupRestart, ConstructorThrows
<1>5. ASSUME NEW q \in Rank, Open(q)
      PROVE  Goal
  BY <1>1, <1>5
  DEF Open, OpenThrows, OpenCheck, MakeDir, OpenFiles, EnterBatch, ConstructorThrows
<1>6. ASSUME NEW q \in Rank,
             Batch(q) \/ SigtermArrives(q) \/ \E t \in Thread : Trial(q, t) \/ FailTrial(q, t)
      PROVE  Goal
  BY <1>1, <1>6
  DEF Batch, BatchDone, BatchFailed, Trial, SkipTrial, BeginTrial, WriteTrial, FinishTrial,
      FailTrial, TaskUnchanged, SigtermArrives
<1>7. ASSUME NEW q \in Rank, Save(q) \/ Merge(q)
      PROVE  Goal
  <2>1. CASE Save(q)  BY <1>1, <2>1 DEF Save, Close, SyncRead, SyncWrite
  <2>2. CASE Merge(q)
    BY <1>1, <2>2
    DEF Merge, MergeSkip, MergeCopy, MergeAppend, MergeClose, MergeUnlink, MergeRemove, MergeDone
  <2> QED BY <1>7, <2>1, <2>2
<1>8. CASE Barrier
  <2>1. pc'[r] = AfterBarrier(r) /\ UNCHANGED <<size, restart, inRun>>  BY <1>8 DEF Barrier
  <2>2. CASE pc[r] = "synced"  BY <1>8, <2>1, <2>2 DEF AfterBarrier
  <2>3. CASE pc[r] # "synced" /\ r \in Active
    <3>1. pc[r] \in BarrierPcs  BY <1>8, <2>3 DEF Barrier
    <3> QED BY <2>1, <2>3, <3>1 DEF AfterBarrier, BarrierPcs
  <2>4. CASE r \notin Active
    <3>1. pc[r] = "idle"  BY <2>4, ActiveRanks
    <3> QED BY <2>1, <3>1 DEF AfterBarrier
  <2> QED BY <2>2, <2>3, <2>4
<1>9. CASE Reduce  BY <1>1, <1>9, ActiveRanks DEF Reduce
<1>10. ASSUME UNCHANGED <<size, restart, pc, inRun>>
       PROVE  Goal
  BY <1>1, <1>10
<1>11. DeleteUnreadable => UNCHANGED <<size, restart, pc, inRun>>  BY DEF DeleteUnreadable
<1>12. UNCHANGED vars => UNCHANGED <<size, restart, pc, inRun>>  BY DEF vars
<1> HIDE DEF Goal
<1>13. ASSUME NEW q \in Rank, RankStep(q)
       PROVE  Goal
  BY <1>4, <1>5, <1>6, <1>7, <1>13 DEF RankStep
<1>14. \/ Goal \/ Forget \/ Reduce \/ Barrier
       \/ \E n \in RankCounts, again \in BOOLEAN : Launch(n, again)
  BY <1>6, <1>10, <1>11, <1>12, <1>13
  DEF Next, Collective, Outside, Crash, Finalize, Finished
<1> QED BY <1>2, <1>3, <1>8, <1>9, <1>14

\* The ranks of the next state are ranks.
LEMMA NextActive ==
  ASSUME IInv'
  PROVE  Active' \subseteq Rank
<1>1. size' \in 0 .. MaxRanks  BY DEF IInv, TypeOK
<1>2. \A n \in 0 .. MaxRanks : 0 .. n - 1 \subseteq Rank  BY OutputAssumption DEF Rank
<1>3. Active' = 0 .. size' - 1  BY DEF Active
<1> QED BY <1>1, <1>2, <1>3

\* What a constructor has read it may still go on with.
LEMMA OpenPassedStep ==
  ASSUME IInv, IInv', OpenPassed, [Next]_vars
  PROVE  OpenPassed'
<1> SUFFICES ASSUME NEW r \in Active', pc'[r] \in {"open_check", "open_checked"}, ~inRun'[r]
             PROVE  ~SetupRefused(r)'
  BY DEF OpenPassed
<1>1. r \in Rank  BY NextActive
<1>2. ~\E n \in RankCounts, again \in BOOLEAN : Launch(n, again)  BY <1>1 DEF Launch
<1>3. ~(Barrier /\ pc[r] = "synced")
  <2>1. Barrier => inRun' = inRun  BY DEF Barrier
  <2>2. InRunWhenClosing  BY DEF IInv
  <2> QED BY <1>1, <2>1, <2>2 DEF InRunWhenClosing, Closing, SyncPcs
<1>4. r \in Active /\ UNCHANGED <<size, restart, disk>> /\ inRun'[r] = inRun[r]
  BY <1>1, <1>2, <1>3, OpeningMoves
<1>5. ~SetupRefused(r)
  BY <1>1, <1>2, <1>3, <1>4, OpeningMoves DEF OpenPassed, SetupFresh, SetupRestart
<1> QED BY <1>4, <1>5, RefusedSame

\* How a rank comes to MPI_Finalize.
LEMMA FinalizeMoves ==
  ASSUME IInv, [Next]_vars, NEW q \in Rank, pc'[q] = "finalize"
  PROVE  \/ pc[q] \in {"finalize", "merge"}
         \/ SetupThrows(q) \/ OpenThrows(q)
         \/ Barrier /\ pc[q] = "synced" /\ exit[q] # "none"
<1>1. pc \in [Rank -> {"idle"} \cup CollectivePcs \cup LocalPcs]  BY DEF IInv, TypeOK
<1>2. ASSUME NEW p \in Rank, Setup(p) \/ Open(p)
      PROVE  pc[q] = "finalize" \/ SetupThrows(q) \/ OpenThrows(q)
  <2>1. CASE Setup(p)
    BY <1>1, <2>1 DEF Setup, SetupThrows, SetupFresh, SetupRestart, ConstructorThrows
  <2>2. CASE Open(p)
    BY <1>1, <2>2 DEF Open, OpenThrows, OpenCheck, MakeDir, OpenFiles, EnterBatch, ConstructorThrows
  <2> QED BY <1>2, <2>1, <2>2
<1>3. ASSUME NEW p \in Rank, Batch(p) \/ Save(p) \/ Merge(p)
      PROVE  pc[q] \in {"finalize", "merge"}
  <2>1. CASE Batch(p) \/ Save(p)
    BY <1>1, <2>1 DEF Batch, BatchDone, BatchFailed, Save, Close, SyncRead, SyncWrite
  <2>2. CASE Merge(p)
    BY <1>1, <2>2
    DEF Merge, MergeSkip, MergeCopy, MergeAppend, MergeClose, MergeUnlink, MergeRemove, MergeDone
  <2> QED BY <1>3, <2>1, <2>2
<1>4. CASE pc' = pc  BY <1>4
<1>5. ASSUME NEW p \in Rank, SigtermArrives(p) \/ \E t \in Thread : Trial(p, t) \/ FailTrial(p, t)
      PROVE  pc' = pc
  BY <1>5
  DEF Trial, SkipTrial, BeginTrial, WriteTrial, FinishTrial, FailTrial, TaskUnchanged, SigtermArrives
<1>6. CASE Barrier
  <2>1. pc'[q] = AfterBarrier(q)  BY <1>6 DEF Barrier
  <2> QED BY <1>6, <2>1 DEF AfterBarrier
<1>7. CASE Reduce  BY <1>1, <1>7 DEF Reduce
<1>8. ASSUME Forget \/ \E n \in RankCounts, again \in BOOLEAN : Launch(n, again)
      PROVE  FALSE
  BY <1>8 DEF Forget, Launch
<1>9. DeleteUnreadable \/ UNCHANGED vars => pc' = pc  BY DEF DeleteUnreadable, vars
<1> QED
  BY <1>2, <1>3, <1>4, <1>5, <1>6, <1>7, <1>8, <1>9
  DEF Next, RankStep, Collective, Outside, Crash, Finalize, Finished

\* A rank whose name is taken when it starts is not in a restart.
LEMMA TakenName ==
  ASSUME DiskInv, NEW q \in Active, q \in Rank, pc[q] = "open_check", Exists(chkNum[q])
  PROVE  ~inRun[q] /\ ~restart /\ FoundCheckpoints # {}
<1>1. /\ NumbersTaken /\ SetupReadsDisk /\ chkNum[q] \in Chk
  BY DEF DiskInv, IInv, TypeOK
<1>2. chkNum[q] \in FoundCheckpoints  BY <1>1 DEF FoundCheckpoints
<1>3. ~inRun[q]
  <2>1. chkNum[q] \notin 0 .. chkNum[q] - 1  BY <1>1 DEF Chk
  <2> QED BY <1>1, <1>2, <2>1 DEF NumbersTaken, NameFree
<1>4. ~restart
  <2> SUFFICES ASSUME restart
               PROVE  FALSE
    OBVIOUS
  <2>1. chkNum[q] = MaxCheckpoint + 1  BY <1>1, <1>2, <1>3 DEF SetupReadsDisk
  <2>2. MaxCheckpoint \in Int /\ chkNum[q] <= MaxCheckpoint
    BY <1>2, MaxCheckpointLast DEF FoundCheckpoints, Chk
  <2> QED BY <2>1, <2>2
<1> QED BY <1>2, <1>3, <1>4

\* No rank goes on to its run where another has thrown.
LEMMA ThrewAlikeStep ==
  ASSUME DiskInv, IInv', ThrewAlike, [Next]_vars
  PROVE  ThrewAlike'
<1> SUFFICES ASSUME NEW q \in Active', NEW r \in Active', pc'[q] = "finalize",
                    pc'[r] \in {"setup", "open_check", "open_checked"}
             PROVE  ~inRun'[r] /\ (SetupRefused(q) \/ (~restart /\ FoundCheckpoints # {}))'
  BY DEF ThrewAlike, OpenPcs
<1>1. q \in Rank /\ r \in Rank /\ IInv  BY NextActive DEF DiskInv
<1>2. ~\E n \in RankCounts, again \in BOOLEAN : Launch(n, again)  BY <1>1 DEF Launch
<1>3. q \in Active  BY <1>1, FinalizeMoves, ActiveRanks DEF SetupThrows, OpenThrows
<1>4. ~(Barrier /\ pc[r] = "synced" /\ exit[r] = "none")
  <2> SUFFICES ASSUME Barrier, pc[r] = "synced", exit[r] = "none"
               PROVE  FALSE
    OBVIOUS
  <2>1. pc[q] \in SyncPcs /\ r \in Active  BY <1>1, <1>3, Together, ActiveRanks DEF SyncPcs
  <2>2. pc[q] = "synced" /\ exit[q] # "none"
    BY <1>1, <2>1, FinalizeMoves DEF SyncPcs, SetupThrows, OpenThrows
  <2>3. exit[q] = "none"  BY <1>1, <1>3, <2>1, <2>2 DEF IInv, RanksAgree, Closing, SyncPcs
  <2> QED BY <2>2, <2>3
<1>5. /\ r \in Active /\ UNCHANGED <<size, restart, disk>> /\ inRun'[r] = inRun[r]
      /\ pc[r] \in {"setup", "open_check", "open_checked"}
  BY <1>1, <1>2, <1>4, OpeningMoves
<1>6. ~inRun[r] /\ (SetupRefused(q) \/ (~restart /\ FoundCheckpoints # {}))
  <2>1. CASE pc[q] = "finalize"  BY <1>3, <1>5, <2>1 DEF ThrewAlike, OpenPcs
  <2>2. CASE pc[q] \in {"merge", "synced"}  BY <1>1, <1>5, <2>2, OnePhase DEF SyncPcs
  <2>3. CASE SetupThrows(q)  BY <1>1, <1>3, <1>5, <2>3 DEF SetupThrows, IInv, NoneInRunDuringSetup
  <2>4. CASE OpenThrows(q)
    <3>1. pc[q] = "open_check" /\ Exists(chkNum[q])  BY <2>4 DEF OpenThrows
    <3>2. ~inRun[q] /\ ~restart /\ FoundCheckpoints # {}  BY <1>1, <1>3, <3>1, TakenName
    <3>3. ~inRun[r]
      <4> SUFFICES ASSUME inRun[r]
                   PROVE  FALSE
        OBVIOUS
      <4>1. pc[r] \in {"open_check", "open_checked"}  BY <1>1, <1>5 DEF IInv, FreshUntilSetup
      <4>2. chkNum[q] = chkNum[r] /\ chkNum[q] \in Chk
        BY <1>1, <1>3, <1>5, <3>1, <4>1 DEF IInv, TypeOK, RanksAgree, Constructed
      <4>3. FoundCheckpoints = 0 .. chkNum[r] - 1  BY <1>1, <4>1 DEF DiskInv, NumbersTaken, NameFree
      <4>4. chkNum[q] \in FoundCheckpoints  BY <3>1, <4>2 DEF FoundCheckpoints
      <4> QED BY <4>2, <4>3, <4>4 DEF Chk
    <3> QED BY <3>2, <3>3
  <2> QED BY <1>1, <2>1, <2>2, <2>3, <2>4, FinalizeMoves
<1> QED BY <1>5, <1>6, RefusedSame

-----------------------------------------------------------------------------
(* What is consolidated, where all sessions have the same number of ranks. *)

\* A directory whose files stay keeps what it has.
LEMMA KeepsSame ==
  ASSUME NEW d, \A q \in Rank : files'[d][q] = files[d][q]
  PROVE  KeepsAll(d)' = KeepsAll(d)
<1>1. RanksIn(d)' = RanksIn(d) /\ RanksIn(d) \subseteq Rank  BY DEF RanksIn
<1>2. \A q \in RanksIn(d) : files'[d][q] = files[d][q]  BY <1>1
<1>3. Settled(d)' = Settled(d) /\ CountsAgree(d)' = CountsAgree(d)
  BY <1>1, <1>2 DEF Settled, CountsAgree, HasAttrs
<1> QED BY <1>1, <1>3 DEF KeepsAll, Agreeing

\* While rank 0 knows its checkpoint it is active, and does not consolidate.
LEMMA RootKnows ==
  ASSUME IInv, Knows(0)
  PROVE  /\ 0 \in Rank /\ 0 \in Active /\ chkNum[0] \in Chk
         /\ pc[0] \in {"open_check", "open_checked"} \cup DirPcs \cup RunPcs \cup SyncPcs
<1>1. 0 \in Rank  BY OutputAssumption DEF Rank
<1>2. pc[0] \in {"open_check", "open_checked"} \cup DirPcs \cup RunPcs \cup SyncPcs
  BY DEF Knows, NameFree, DirPcs
<1>3. pc[0] # "idle"  BY <1>2 DEF DirPcs, RunPcs, SyncPcs
<1> QED BY <1>1, <1>2, <1>3, ActiveRanks DEF IInv, TypeOK

\* What a step may do to the disk while rank 0 knows its checkpoint: another
\* checkpoint is left alone.
LEMMA OthersLeftAlone ==
  ASSUME IInv, [Next]_vars, Knows(0), Knows(0)', NEW k \in Chk, k = chkNum[0]
  PROVE  /\ h5' = h5
         /\ \A d \in Chk : d # k => \A q \in Rank : files'[d][q] = files[d][q]
<1>1. /\ 0 \in Rank /\ 0 \in Active
      /\ pc[0] \in {"open_check", "open_checked"} \cup DirPcs \cup RunPcs \cup SyncPcs
  BY RootKnows
<1>2. pc'[0] # "idle"  BY DEF Knows, NameFree, DirPcs, RunPcs, SyncPcs
<1> DEFINE Goal == /\ h5' = h5
                   /\ \A d \in Chk : d # k => \A q \in Rank : files'[d][q] = files[d][q]
<1>3. CASE UNCHANGED disk  BY <1>3 DEF disk
<1>4. ASSUME NEW q \in Rank, NEW p, OnlyFile(chkNum[q], p), pc[q] \in RunPcs \cup SyncPcs
      PROVE  Goal
  <2>1. chkNum[0] = chkNum[q]  BY <1>1, <1>4, Together
  <2> QED BY <1>4, <2>1 DEF OnlyFile
<1>5. ASSUME NEW q \in Rank, MakeDir(q)
      PROVE  Goal
  BY <1>5 DEF MakeDir, CreateDirectory
<1>6. ASSUME NEW q \in Rank, Merge(q)
      PROVE  FALSE
  <2>1. pc[q] = "merge"
    BY <1>6 DEF Merge, MergeSkip, MergeCopy, MergeAppend, MergeClose, MergeUnlink, MergeRemove, MergeDone
  <2> QED BY <1>1, <2>1, MergeAlone DEF DirPcs, RunPcs, SyncPcs, EndPcs
<1>7. ASSUME Crash \/ DeleteUnreadable
      PROVE  FALSE
  <2>1. pc'[0] = "idle"  BY <1>1, <1>7, DeleteEffect DEF Crash, Forget
  <2> QED BY <1>2, <2>1
<1> HIDE DEF Goal
<1>8. ASSUME NEW q \in Rank, OpenFiles(q) \/ Close(q) \/ SyncWrite(q)
      PROVE  Goal
  <2>1. pc[q] \in RunPcs \cup SyncPcs  BY <1>8 DEF OpenFiles, Close, SyncWrite, RunPcs, SyncPcs
  <2>2. OnlyFile(chkNum[q], q) \/ OnlyFile(chkNum[q], sync.next)
    BY <1>8, OpenEffect, CloseEffect, SyncEffect
  <2> QED BY <1>4, <2>1, <2>2
<1>9. ASSUME NEW q \in Rank, NEW t \in Thread, WriteTrial(q, t) \/ FinishTrial(q, t)
      PROVE  Goal
  <2>1. pc[q] = "batch"  BY <1>9 DEF WriteTrial, FinishTrial, IInv, TrialsOnlyInBatch
  <2>2. OnlyFile(chkNum[q], q)  BY <1>9, WriteEffect, FinishEffect
  <2> QED BY <1>4, <2>1, <2>2 DEF RunPcs
<1> QED BY <1>3, <1>5, <1>6, <1>7, <1>8, <1>9, DiskSteps DEF DiskStep, Goal

\* No checkpoint below its own becomes the last to be found consolidated.
LEMMA UnmergedKept ==
  ASSUME IInv, [Next]_vars, Knows(0), Knows(0)', NEW k \in Chk, k = chkNum[0],
         NEW n \in Chk, n = chkNum'[0], k <= n, UnmergedBefore(k)
  PROVE  UnmergedBefore(chkNum[0])'
<1>1. h5' = h5 /\ \A d \in Chk : d # k => \A q \in Rank : files'[d][q] = files[d][q]
  BY OthersLeftAlone
<1>2. CASE \A c \in Chk : ~HasH5(c)  BY <1>1, <1>2 DEF UnmergedBefore, HasH5
<1>3. ASSUME NEW d \in 0 .. k - 1, KeepsAll(d), \A c \in Chk : HasH5(c) => c < d
      PROVE  UnmergedBefore(chkNum[0])'
  <2>1. d \in Chk /\ d # k /\ d \in 0 .. n - 1  BY <1>3, OutputAssumption DEF Chk
  <2>2. KeepsAll(d)'  BY <1>1, <1>3, <2>1, KeepsSame
  <2>3. \A c \in Chk : HasH5(c)' => c < d  BY <1>1, <1>3 DEF HasH5
  <2> QED BY <2>1, <2>2, <2>3 DEF UnmergedBefore
<1> QED BY <1>2, <1>3 DEF UnmergedBefore

\* A directory with files is one of the checkpoints found.
LEMMA KeptFound ==
  ASSUME NoStrays, NEW d \in Chk, KeepsAll(d)
  PROVE  d \in FoundCheckpoints /\ FoundCheckpoints # {} /\ d <= MaxCheckpoint
<1>1. d \in FoundCheckpoints  BY DEF KeepsAll, RanksIn, NoStrays, FoundCheckpoints, Exists
<1> QED BY <1>1, MaxCheckpointLast

\* Several ranks are refused where the last checkpoint is consolidated.
LEMMA ConsolidatedRefused ==
  ASSUME NoStrays, NEW r \in Rank, NEW m \in Chk, m = MaxCheckpoint, HasH5(m),
         NEW n \in Nat, n > 1
  PROVE  UidRefused(r, n)
<1>1. m \in UidCheckpoints(r)  BY DEF UidCheckpoints
<1>2. PICK k \in UidCheckpoints(r) : k = Max(UidCheckpoints(r)) /\ m <= k
  BY <1>1, LastUidCheckpoint
<1>3. k <= m /\ k \in Chk  BY <1>2, UidCheckpointsFound
<1>4. k = m  BY <1>2, <1>3 DEF Chk
<1> QED BY <1>1, <1>2, <1>4 DEF UidRefused

\* The size of a session, where there is only one and it is not one rank.
LEMMA SeveralRanks ==
  ASSUME IInv, RanksChosen, SameRanks, 1 \notin RankCounts, Running
  PROVE  size \in Nat /\ size > 1 /\ RankCounts = {size}
<1>1. size \in RankCounts /\ RankCounts = {size}  BY DEF RanksChosen, SameRanks
<1>2. size \in 1 .. MaxRanks /\ size # 1  BY <1>1, RunAssumption
<1> QED BY <1>1, <1>2, OutputAssumption

\* A restart that goes on finds its IDs in a directory.
LEMMA UnmergedFirst ==
  ASSUME DiskInv, DiskInv', RanksChosen, OpenPassed, SameRanks, 1 \notin RankCounts, MergedAlike,
         OpenCheck(0), ~inRun[0]
  PROVE  UnmergedBefore(chkNum[0])'
<1>1. /\ 0 \in Rank /\ 0 \in Active /\ Running
      /\ IInv /\ NoStrays /\ SetupReadsDisk
  <2>1. 0 \in Rank /\ IInv /\ NoStrays /\ SetupReadsDisk
    BY OutputAssumption DEF Rank, DiskInv, IInv
  <2>2. 0 \in Active  BY <2>1, ActiveRanks DEF OpenCheck
  <2> QED BY <2>1, <2>2 DEF Active, Running
<1>2. /\ pc[0] = "open_check" /\ pc'[0] = "open_checked" /\ UNCHANGED disk
      /\ chkNum'[0] = chkNum[0] /\ UNCHANGED <<size, restart>> /\ chkNum[0] \in Chk
  <2>1. pc \in [Rank -> {"idle"} \cup CollectivePcs \cup LocalPcs] /\ chkNum \in [Rank -> Chk]
    BY <1>1 DEF IInv, TypeOK
  <2> QED BY <1>1, <2>1 DEF OpenCheck
<1>3. FoundCheckpoints' = FoundCheckpoints  BY <1>2, ReadableSame
<1>4. h5' = h5 /\ \A d \in Chk : KeepsAll(d)' = KeepsAll(d)  BY <1>2, KeepsSame DEF disk
<1> SUFFICES UnmergedBefore(chkNum[0])
  <2>1. \A d \in 0 .. chkNum[0] - 1 : d \in Chk  BY <1>2, OutputAssumption DEF Chk
  <2>2. \A d \in 0 .. chkNum[0] - 1 : KeepsAll(d)' = KeepsAll(d)  BY <1>4, <2>1
  <2>3. \A c \in Chk : HasH5(c)' <=> HasH5(c)  BY <1>4 DEF HasH5
  <2> QED BY <1>2, <2>2, <2>3 DEF UnmergedBefore
<1>5. CASE restart /\ FoundCheckpoints # {}
  <2>1. PICK m \in FoundCheckpoints : m = MaxCheckpoint  BY <1>5, MaxCheckpointLast
  <2>2. m \in Chk /\ chkNum[0] = m + 1
    BY <1>1, <1>2, <1>5, <2>1 DEF SetupReadsDisk, FoundCheckpoints
  <2>3. ~UidRefused(0, size)  BY <1>1, <1>2, <1>5 DEF OpenPassed, SetupRefused
  <2>4. ~HasH5(m)  BY <1>1, <2>1, <2>2, <2>3, SeveralRanks, ConsolidatedRefused
  <2>5. ASSUME NEW d \in Chk, KeepsAll(d), \A c \in Chk : HasH5(c) => c < d
        PROVE  UnmergedBefore(chkNum[0])
    <3>1. d <= m  BY <1>1, <2>1, <2>5, KeptFound
    <3>2. d \in 0 .. chkNum[0] - 1  BY <2>2, <3>1 DEF Chk
    <3> QED BY <2>5, <3>2 DEF UnmergedBefore
  <2> QED BY <2>1, <2>4, <2>5 DEF MergedAlike, UnmergedBefore, HasH5
<1>6. CASE ~(restart /\ FoundCheckpoints # {})
  <2>1. chkNum[0] = 0  BY <1>1, <1>2, <1>6 DEF SetupReadsDisk
  <2>2. FoundCheckpoints = 0 .. chkNum[0] - 1
    <3>1. NumbersTaken'  BY DEF DiskInv
    <3>2. FoundCheckpoints' = 0 .. chkNum'[0] - 1  BY <1>1, <1>2, <3>1 DEF NumbersTaken, NameFree
    <3> QED BY <1>2, <1>3, <3>2
  <2>3. FoundCheckpoints = {}  BY <2>1, <2>2
  <2> QED BY <2>3 DEF FoundCheckpoints, Exists, UnmergedBefore
<1> QED BY <1>5, <1>6

\* So it is while rank 0 knows its checkpoint.
LEMMA UnmergedStep ==
  ASSUME DiskInv, DiskInv', RanksChosen, OpenPassed, SameRanks, 1 \notin RankCounts, MergedAlike,
         Knows(0) => UnmergedBefore(chkNum[0]), Knows(0)', [Next]_vars
  PROVE  UnmergedBefore(chkNum[0])'
<1>1. 0 \in Rank /\ IInv /\ IInv'  BY OutputAssumption DEF Rank, DiskInv
<1>2. StaysOn(0) \/ RollsOver(0)  BY <1>1, KnowsMoves
<1>3. CASE OpenCheck(0) /\ ~inRun[0]  BY <1>3, UnmergedFirst
<1>4. CASE Knows(0)
  <2>1. chkNum[0] \in Chk /\ chkNum'[0] \in Chk  BY <1>1 DEF IInv, TypeOK
  <2>2. chkNum[0] <= chkNum'[0]  BY <1>2, <1>4, <2>1 DEF StaysOn, RollsOver, Chk
  <2> QED BY <1>1, <1>4, <2>1, <2>2, UnmergedKept
<1> QED BY <1>2, <1>3, <1>4 DEF StaysOn, RollsOver

\* A checkpoint that is synchronised has the files of all ranks.
LEMMA SyncedKeepsAll ==
  ASSUME NumbersInv, EarlierAgree, RanksChosen, SameRanks, 1 \notin RankCounts, pc[0] = "synced",
         NEW k \in Chk, k = chkNum[0]
  PROVE  KeepsAll(k) /\ k = MaxCheckpoint
<1>1. /\ 0 \in Rank /\ 0 \in Active /\ Running
      /\ IInv /\ DiskInv /\ OwnInv /\ EarlierSettled /\ FilesOpened
  <2>1. 0 \in Rank  BY OutputAssumption DEF Rank
  <2>2. IInv /\ DiskInv /\ OwnInv /\ EarlierSettled /\ FilesOpened
    BY DEF NumbersInv, DiskInv, OwnInv
  <2>3. 0 \in Active  BY <2>1, <2>2, ActiveRanks
  <2> QED BY <2>1, <2>2, <2>3 DEF Active, Running
<1>2. FoundCheckpoints = 0 .. k  BY <1>1, LastOne DEF SyncPcs
<1>3. Agreeing(k)  BY <1>1 DEF EarlierSettled, EarlierAgree, Agreeing
<1>4. \A q \in Active : q \in RanksIn(k)
  <2> SUFFICES ASSUME NEW q \in Active
               PROVE  q \in RanksIn(k)
    OBVIOUS
  <2>1. q \in Rank /\ pc[q] \in SyncPcs /\ chkNum[q] = k  BY <1>1, Together, ActiveRanks DEF SyncPcs
  <2>2. HasFile(q) /\ OwnFile(q) = files[k][q]  BY <2>1 DEF HasFile, OwnFile
  <2>3. files[k][q].st \in {"open", "closed"}  BY <1>1, <2>1, <2>2 DEF FilesOpened
  <2> QED BY <2>1, <2>3 DEF RanksIn
<1>5. \A n \in RankCounts : 0 .. n - 1 \subseteq RanksIn(k)  BY <1>1, <1>4, SeveralRanks DEF Active
<1> QED BY <1>1, <1>2, <1>3, <1>4, <1>5, LastOfAll DEF KeepsAll

\* The last checkpoint is consolidated, or has the files of all ranks, while rank 0
\* consolidates.
LEMMA LastMergedStep ==
  ASSUME NumbersInv, EarlierAgree, LeftReadable, RanksChosen, SameRanks, 1 \notin RankCounts,
         pc[0] = "merge" => h5[MaxCheckpoint].st = "closed" \/ KeepsAll(MaxCheckpoint),
         [Next]_vars, pc'[0] = "merge"
  PROVE  (h5[MaxCheckpoint].st = "closed" \/ KeepsAll(MaxCheckpoint))'
<1>1. 0 \in Rank /\ IInv /\ MergedSoFar /\ chkNum[0] \in Chk
  <2>1. IInv /\ MergedSoFar  BY DEF NumbersInv, DiskInv
  <2>2. 0 \in Rank  BY OutputAssumption DEF Rank
  <2> QED BY <2>1, <2>2 DEF IInv, TypeOK
<1> DEFINE Last(m) == (h5[m].st = "closed" \/ KeepsAll(m))
           LastAfter(m) == h5'[m].st = "closed" \/ KeepsAll(m)'
<1>2. ASSUME UNCHANGED disk, Last(MaxCheckpoint)
      PROVE  Last(MaxCheckpoint)'
  <2>1. MaxCheckpoint' = MaxCheckpoint  BY <1>2, DiskSame
  <2>2. h5' = h5 /\ files' = files  BY <1>2 DEF disk
  <2>3. KeepsAll(MaxCheckpoint)' = KeepsAll(MaxCheckpoint)
    BY <2>1, <2>2 DEF KeepsAll, RanksIn, Agreeing, Settled, CountsAgree, HasAttrs
  <2> QED BY <1>2, <2>1, <2>2, <2>3
<1>3. CASE Merge(0)
  <2>1. pc[0] = "merge"
    BY <1>3 DEF Merge, MergeSkip, MergeCopy, MergeAppend, MergeClose, MergeUnlink, MergeRemove, MergeDone
  <2>2. FoundCheckpoints # {}  BY <1>1, <2>1, LastOfAll DEF LeftReadable, Restartable, LastUnmerged
  <2>3. PICK m \in FoundCheckpoints : m = MaxCheckpoint  BY <2>2, MaxCheckpointLast
  <2>4. MaxCheckpoint' = m  BY <1>1, <1>3, <2>3, MergeFound DEF MaxCheckpoint
  <2>5. m \in Chk /\ Last(m)  BY <2>1, <2>3 DEF FoundCheckpoints
  <2> HIDE DEF Last
  <2>6. LastAfter(m)
    <3>1. CASE files' = files
      <4>1. KeepsAll(m)' = KeepsAll(m)  BY <3>1, KeepsSame
      <4>2. h5[m].st = "closed" => h5'[m].st = "closed"
        BY <1>1, <1>3, <2>5, MergeEffect DEF MergeCopy, HasH5
      <4> QED BY <2>5, <4>1, <4>2 DEF Last
    <3>2. CASE files' # files
      <4>1. /\ UNCHANGED h5 /\ h5[merge.chk].st = "closed" /\ merge.chk \in Chk
            /\ \A d \in Chk, q \in Rank :
                 d # merge.chk => files'[d][q] = files[d][q]
        BY <1>1, <1>3, <3>2, MergeEffect
      <4>2. m # merge.chk => KeepsAll(m)' = KeepsAll(m)  BY <2>5, <4>1, KeepsSame
      <4> QED BY <2>5, <4>1, <4>2 DEF Last
    <3> QED BY <3>1, <3>2
  <2>7. KeepsAll(MaxCheckpoint)' <=> KeepsAll(m)'
    BY <2>4 DEF KeepsAll, RanksIn, Agreeing, Settled, CountsAgree, HasAttrs
  <2> QED BY <2>4, <2>6, <2>7
<1>4. CASE Barrier /\ pc[0] = "synced"
  <2>1. UNCHANGED disk  BY <1>4 DEF Barrier
  <2>2. KeepsAll(MaxCheckpoint)  BY <1>1, <1>4, SyncedKeepsAll
  <2> QED BY <1>2, <2>1, <2>2
<1>5. CASE UNCHANGED <<pc[0], disk>>  BY <1>2, <1>5
<1> QED BY <1>1, <1>3, <1>4, <1>5, EndMoves DEF EndPcs

\* A crash takes no consolidated file away, and no directory that is kept.
LEMMA MergedAlikeCrash ==
  ASSUME IInv, MergedAlike, Crash
  PROVE  MergedAlike'
<1>1. /\ hasDir' = hasDir
      /\ \A c \in Chk, q \in Rank :
           /\ files'[c][q] = [files[c][q] EXCEPT !.st = files'[c][q].st]
           /\ files'[c][q].st = IF files[c][q].st = "open" THEN "torn" ELSE files[c][q].st
      /\ \A c \in Chk : h5'[c].st \in IF h5[c].st = "open" THEN {"torn", "closed"} ELSE {h5[c].st}
  BY CrashEffect
<1>2. \A c \in Chk : HasH5(c)' <=> HasH5(c)  BY <1>1 DEF HasH5
<1>3. MaxCheckpoint' = MaxCheckpoint
  <2>1. FoundCheckpoints' = FoundCheckpoints  BY <1>1, <1>2 DEF FoundCheckpoints, Exists
  <2> QED BY <2>1 DEF MaxCheckpoint
<1>4. ASSUME NEW d \in Chk, KeepsAll(d)
      PROVE  KeepsAll(d)'
  <2>1. \A q \in Rank : files[d][q] \in File  BY DEF IInv, TypeOK, DiskTypeOK
  <2>2. \A q \in Rank : files[d][q].st \in {"none", "closed"}
    BY <1>4 DEF KeepsAll, Agreeing, Settled, HasAttrs, RanksIn
  <2>3. \A q \in Rank : files'[d][q] = files[d][q]
    <3> SUFFICES ASSUME NEW q \in Rank
                 PROVE  files'[d][q] = files[d][q]
      OBVIOUS
    <3>1. files'[d][q].st = files[d][q].st  BY <1>1, <2>2
    <3>2. files'[d][q] = [files[d][q] EXCEPT !.st = files[d][q].st]  BY <1>1, <3>1
    <3>3. files[d][q] \in File  BY <2>1
    <3> QED BY <3>2, <3>3 DEF File
  <2> QED BY <1>4, <2>3, KeepsSame
<1>5. CASE \A c \in Chk : ~HasH5(c)  BY <1>2, <1>5 DEF MergedAlike
<1>6. CASE h5[MaxCheckpoint].st = "closed" /\ \E c \in Chk : HasH5(c)
  <2>1. FoundCheckpoints # {}  BY <1>6 DEF FoundCheckpoints, Exists
  <2>2. MaxCheckpoint \in Chk  BY <2>1, MaxCheckpointType
  <2>3. h5'[MaxCheckpoint].st = "closed"  BY <1>1, <1>6, <2>2
  <2> QED BY <1>3, <2>3 DEF MergedAlike
<1>7. ASSUME NEW d \in Chk, KeepsAll(d),
             \A c \in Chk : HasH5(c) => c < d \/ (c = d /\ d = MaxCheckpoint)
      PROVE  MergedAlike'
  BY <1>2, <1>3, <1>4, <1>7 DEF MergedAlike
<1> QED BY <1>5, <1>6, <1>7 DEF MergedAlike

\* A directory whose files agree is readable.
LEMMA KeptReadable ==
  ASSUME NEW d \in Chk, KeepsAll(d), ~HasH5(d)
  PROVE  Readable(d)
BY DEF KeepsAll, Agreeing, Settled, CountsAgree, Readable, AttrsAgree, RestartSource

\* The user deletes only the last checkpoint, and not one that is kept.
LEMMA MergedAlikeDelete ==
  ASSUME IInv, NoStrays, MergedAlike, DeleteUnreadable
  PROVE  MergedAlike'
<1>1. PICK m \in Chk : m = MaxCheckpoint  BY DeleteEffect
<1>2. ~Readable(m)  BY <1>1 DEF DeleteUnreadable
<1>3. h5[m].st # "closed"  BY <1>2 DEF Readable, RestartSource, AttrsAgree, HasH5, HasAttrs
<1>4. CASE \A c \in Chk : ~HasH5(c)
  <2>1. h5' = h5  BY <1>1, <1>4, DeleteEffect
  <2> QED BY <1>4, <2>1 DEF MergedAlike, HasH5
<1>5. ASSUME NEW d \in Chk, KeepsAll(d), \A c \in Chk : HasH5(c) => c < d \/ (c = d /\ d = m)
      PROVE  MergedAlike'
  <2>2. \A q \in Rank : files'[d][q] = files[d][q]
    <3>1. CASE HasH5(m)  BY <1>1, <3>1, DeleteEffect
    <3>2. CASE ~HasH5(m)
      <4>1. d # m  BY <1>2, <1>5, <3>2, KeptReadable
      <4> QED BY <1>1, <3>2, <4>1, DeleteEffect
    <3> QED BY <3>1, <3>2
  <2>3. KeepsAll(d)'  BY <1>5, <2>2, KeepsSame
  <2>4. \A c \in Chk : HasH5(c)' => HasH5(c) /\ c # m
    <3>1. CASE HasH5(m)  BY <1>1, <3>1, DeleteEffect DEF HasH5, NoFile
    <3>2. CASE ~HasH5(m)  BY <1>1, <3>2, DeleteEffect DEF HasH5
    <3> QED BY <3>1, <3>2
  <2>5. \A c \in Chk : HasH5(c)' => c < d  BY <1>5, <2>4
  <2> QED BY <2>3, <2>5 DEF MergedAlike
<1> QED BY <1>1, <1>3, <1>4, <1>5 DEF MergedAlike

\* Rank 0 knows its checkpoint after any step that writes a file.
LEMMA RootStillKnows ==
  ASSUME IInv, [Next]_vars, NEW q \in Rank,
         \/ MakeDir(q) \/ OpenFiles(q) \/ Close(q) \/ SyncWrite(q)
         \/ \E t \in Thread : WriteTrial(q, t) \/ FinishTrial(q, t)
  PROVE  Knows(0)'
<1>1. 0 \in Rank /\ q \in Active /\ 0 \in Active
      /\ pc \in [Rank -> {"idle"} \cup CollectivePcs \cup LocalPcs]
  <2>1. pc[q] # "idle"
    BY DEF MakeDir, OpenFiles, Close, SyncWrite, WriteTrial, FinishTrial, IInv, TrialsOnlyInBatch
  <2>2. q \in Active  BY <2>1, ActiveRanks
  <2>3. size \in Nat  BY OutputAssumption DEF IInv, TypeOK
  <2>4. 0 \in Active  BY <2>2, <2>3 DEF Active, Rank
  <2>5. 0 \in Rank  BY OutputAssumption DEF Rank
  <2> QED BY <2>2, <2>4, <2>5 DEF IInv, TypeOK
<1>2. CASE MakeDir(q) \/ SyncWrite(q)
  <2>1. q = 0  BY <1>2 DEF MakeDir, SyncWrite, IInv, RootOnly
  <2> QED BY <1>1, <1>2, <2>1 DEF MakeDir, SyncWrite, Knows, DirPcs, SyncPcs
<1>3. CASE \/ OpenFiles(q) \/ Close(q)
           \/ \E t \in Thread : WriteTrial(q, t) \/ FinishTrial(q, t)
  <2>1. pc[q] \in RunPcs
    <3>1. CASE OpenFiles(q) \/ Close(q)  BY <3>1 DEF OpenFiles, Close, RunPcs
    <3>2. CASE \E t \in Thread : WriteTrial(q, t) \/ FinishTrial(q, t)
      BY <3>2 DEF WriteTrial, FinishTrial, IInv, TrialsOnlyInBatch, RunPcs
    <3> QED BY <1>3, <3>1, <3>2
  <2>2. pc[0] \in RunPcs  BY <1>1, <2>1, Together
  <2>3. pc'[0] = pc[0] \/ pc'[0] \in RunPcs
    <3>1. CASE OpenFiles(q)  BY <1>1, <3>1 DEF OpenFiles, EnterBatch, RunPcs
    <3>2. CASE Close(q)  BY <1>1, <3>2 DEF Close, RunPcs
    <3>3. CASE \E t \in Thread : WriteTrial(q, t) \/ FinishTrial(q, t)
      BY <3>3 DEF WriteTrial, FinishTrial, TaskUnchanged
    <3> QED BY <1>3, <3>1, <3>2, <3>3
  <2> QED BY <2>2, <2>3 DEF Knows
<1> QED BY <1>2, <1>3

\* What the ranks of a restart are told stays the same for all of them.
LEMMA MergedAlikeStep ==
  ASSUME NumbersInv, DiskInv', MergedAlike, [Next]_vars,
         Knows(0)' => UnmergedBefore(chkNum[0])',
         pc'[0] = "merge" => (h5[MaxCheckpoint].st = "closed" \/ KeepsAll(MaxCheckpoint))'
  PROVE  MergedAlike'
<1>1. IInv /\ NoStrays /\ MergedSoFar /\ IInv' /\ 0 \in Rank
  BY OutputAssumption DEF NumbersInv, DiskInv, Rank
<1>2. ASSUME UNCHANGED disk
      PROVE  MergedAlike'
  <2>1. MaxCheckpoint' = MaxCheckpoint /\ h5' = h5 /\ files' = files  BY <1>2, DiskSame DEF disk
  <2>2. \A d \in Chk : KeepsAll(d)' = KeepsAll(d)  BY <2>1, KeepsSame
  <2> QED BY <2>1, <2>2 DEF MergedAlike, HasH5
<1>3. ASSUME Knows(0)'
      PROVE  MergedAlike'
  <2>1. CASE \A c \in Chk : ~HasH5(c)'  BY <2>1 DEF MergedAlike
  <2>2. ASSUME NEW d \in 0 .. chkNum'[0] - 1, KeepsAll(d)', \A c \in Chk : HasH5(c)' => c < d
        PROVE  MergedAlike'
    <3>1. chkNum'[0] \in Chk  BY <1>1 DEF IInv, TypeOK
    <3>2. d \in Chk  BY <3>1, OutputAssumption DEF Chk
    <3> QED BY <2>2, <3>2 DEF MergedAlike
  <2> QED BY <1>3, <2>1, <2>2 DEF UnmergedBefore
<1>4. CASE \E r \in Rank : Merge(r)
  <2>1. PICK r \in Rank : Merge(r)  BY <1>4
  <2>2. r = 0 /\ pc[0] = "merge"
    BY <1>1, <2>1
    DEF Merge, MergeSkip, MergeCopy, MergeAppend, MergeClose, MergeUnlink, MergeRemove, MergeDone, IInv, RootOnly
  <2>3. UNCHANGED disk \/ pc' = pc
    BY <2>1 DEF Merge, MergeSkip, MergeCopy, MergeAppend, MergeClose, MergeUnlink, MergeRemove, MergeDone
  <2>4. ASSUME pc'[0] = "merge"
        PROVE  MergedAlike'
    <3>1. CASE h5'[MaxCheckpoint'].st = "closed"  BY <3>1 DEF MergedAlike
    <3>2. CASE ~(h5'[MaxCheckpoint'].st = "closed") /\ \E c \in Chk : HasH5(c)'
      <4>1. FoundCheckpoints' # {}  BY <3>2 DEF FoundCheckpoints, Exists
      <4>2. MaxCheckpoint' \in FoundCheckpoints' /\ \A c \in FoundCheckpoints' : c <= MaxCheckpoint'
        <5>1. FoundCheckpoints' = FoundCheckpoints  BY <1>1, <2>1, MergeFound
        <5>2. MaxCheckpoint' = MaxCheckpoint  BY <5>1 DEF MaxCheckpoint
        <5> QED BY <4>1, <5>1, <5>2, MaxCheckpointLast
      <4>3. PICK m \in Chk : m = MaxCheckpoint' /\ \A c \in Chk : HasH5(c)' => c <= m
        BY <4>2 DEF FoundCheckpoints, Exists
      <4>4. KeepsAll(MaxCheckpoint)'  BY <2>4, <3>2
      <4>5. KeepsAll(m)'
        BY <4>3, <4>4 DEF KeepsAll, RanksIn, Agreeing, Settled, CountsAgree, HasAttrs
      <4>6. \A c \in Chk : HasH5(c)' => c < m \/ (c = m /\ m = MaxCheckpoint')  BY <4>3 DEF Chk
      <4> QED BY <4>5, <4>6 DEF MergedAlike
    <3>3. CASE \A c \in Chk : ~HasH5(c)'  BY <3>3 DEF MergedAlike
    <3> QED BY <3>1, <3>2, <3>3
  <2> QED BY <1>2, <2>2, <2>3, <2>4
<1>5. CASE Crash  BY <1>1, <1>5, MergedAlikeCrash
<1>6. CASE DeleteUnreadable  BY <1>1, <1>6, MergedAlikeDelete
<1> QED BY <1>1, <1>2, <1>3, <1>4, <1>5, <1>6, RootStillKnows, DiskSteps DEF DiskStep

-----------------------------------------------------------------------------
(* The invariant of a session.                                             *)

\* A run begins without a session, a checkpoint or a rank.
LEMMA InitSession == Init => SessionInv
<1> SUFFICES ASSUME Init
             PROVE  SessionInv
  OBVIOUS
<1>1. LedgerInv  BY InitLedger
<1>2. 0 \in Rank  BY OutputAssumption DEF Rank
<1>3. size = 0 /\ Active = {} /\ \A r \in Rank : pc[r] = "idle" /\ ~inRun[r]  BY DEF Init, Active
<1>4. pc[0] = "idle" /\ ~Knows(0)  BY <1>2, <1>3 DEF Knows, NameFree, DirPcs, RunPcs, SyncPcs
<1>5. \A c \in Chk : ~HasH5(c)  BY DEF Init, DiskInit, HasH5, NoFile
<1> QED
  BY <1>1, <1>3, <1>4, <1>5
  DEF SessionInv, RanksChosen, Running, OpenPassed, ThrewAlike, ConsolidatedInOrder, MergedAlike,
      NoneConsolidated

\* Every step keeps the consolidated checkpoints in order.
LEMMA InOrderStep ==
  ASSUME NumbersInv, EarlierAgree, LeftReadable, RanksChosen, OpenPassed, ConsolidatedInOrder,
         DiskInv', [Next]_vars
  PROVE  ConsolidatedInOrder'
<1> SUFFICES ASSUME SameRanks, 1 \notin RankCounts
             PROVE  /\ MergedAlike'
                    /\ Knows(0)' => UnmergedBefore(chkNum[0])'
                    /\ pc'[0] = "merge" => (h5[MaxCheckpoint].st = "closed" \/ KeepsAll(MaxCheckpoint))'
  BY DEF ConsolidatedInOrder, SameRanks
<1>1. /\ MergedAlike
      /\ Knows(0) => UnmergedBefore(chkNum[0])
      /\ pc[0] = "merge" => h5[MaxCheckpoint].st = "closed" \/ KeepsAll(MaxCheckpoint)
  BY DEF ConsolidatedInOrder
<1>2. DiskInv  BY DEF NumbersInv
<1>3. Knows(0)' => UnmergedBefore(chkNum[0])'  BY <1>1, <1>2, UnmergedStep
<1>4. pc'[0] = "merge" => (h5[MaxCheckpoint].st = "closed" \/ KeepsAll(MaxCheckpoint))'
  BY <1>1, LastMergedStep
<1>5. MergedAlike'  BY <1>1, <1>3, <1>4, MergedAlikeStep
<1> QED BY <1>3, <1>4, <1>5

\* Every step keeps the invariant.
LEMMA NextSession ==
  ASSUME "error" \notin Faults \/ MaxRanks = 1
  PROVE  SessionInv /\ [Next]_vars => SessionInv'
<1> SUFFICES ASSUME SessionInv, [Next]_vars
             PROVE  SessionInv'
  OBVIOUS
<1>1. /\ LedgerInv /\ RanksChosen /\ OpenPassed /\ ThrewAlike /\ ConsolidatedInOrder
      /\ ~Consolidate => NoneConsolidated
  BY DEF SessionInv
<1>2. NumbersInv /\ EarlierAgree /\ LeftReadable  BY <1>1 DEF LedgerInv, DoneInv
<1>3. DiskInv /\ IInv  BY <1>2 DEF NumbersInv, DiskInv
<1>4. LedgerInv'  BY <1>1, NextLedger
<1>5. DiskInv'  BY <1>4 DEF LedgerInv, DoneInv, NumbersInv
<1>6. IInv'  BY <1>5 DEF DiskInv
<1>7. RanksChosen'  BY <1>1, RanksChosenStep
<1>8. OpenPassed'  BY <1>1, <1>3, <1>6, OpenPassedStep
<1>9. ThrewAlike'  BY <1>1, <1>3, <1>6, ThrewAlikeStep
<1>10. ConsolidatedInOrder'  BY <1>1, <1>2, <1>5, InOrderStep
<1>11. ~Consolidate => NoneConsolidated'  BY <1>1, <1>3, NoneConsolidatedStep
<1> QED BY <1>4, <1>7, <1>8, <1>9, <1>10, <1>11 DEF SessionInv

\* What the ranks of a session rest on, and what it leaves to the next, holds in every
\* session of a run in which no trial throws.
THEOREM SessionInductive ==
  ASSUME "error" \notin Faults \/ MaxRanks = 1
  PROVE  Spec => []SessionInv
<1>1. SessionInv /\ [Next]_vars => SessionInv'  BY NextSession
<1> QED BY <1>1, InitSession, PTL DEF Spec

-----------------------------------------------------------------------------
(* What it is for.                                                         *)

\* Where all sessions have the same number of ranks, findRestartUidForRank throws on
\* all of them or on none.
LEMMA RefusedAlike ==
  ASSUME NoStrays, EarlierSettled, MergedAlike, Readable(MaxCheckpoint),
         NEW n \in RankCounts, n > 1, NEW q \in 0 .. n - 1, NEW r \in 0 .. n - 1, UidRefused(q, n)
  PROVE  UidRefused(r, n)
<1>1. q \in Rank /\ r \in Rank /\ n \in Nat  BY RunAssumption, OutputAssumption DEF Rank
<1>2. UidCheckpoints(q) # {}  BY DEF UidRefused
<1>3. PICK k \in UidCheckpoints(q) : k = Max(UidCheckpoints(q))
                                     /\ \A c \in UidCheckpoints(q) : c <= k
  BY <1>1, <1>2, LastUidCheckpoint
<1>4. PICK m \in FoundCheckpoints : m = MaxCheckpoint /\ m \in Chk
  BY <1>1, <1>3, UidCheckpointsFound DEF FoundCheckpoints
<1>5. CASE HasH5(m)  BY <1>1, <1>4, <1>5, ConsolidatedRefused
<1>6. CASE \A c \in Chk : ~HasH5(c)  BY <1>1, <1>6, NoneRefused
<1>7. ASSUME NEW d \in Chk, KeepsAll(d), \A c \in Chk : HasH5(c) => c < d
      PROVE  FALSE
  <2>1. d \in UidCheckpoints(q)  BY <1>7 DEF KeepsAll, RanksIn, UidCheckpoints
  <2>2. d <= k /\ k \in Chk  BY <1>1, <1>3, <2>1, UidCheckpointsFound
  <2>3. ~HasH5(k)  BY <1>7, <2>2, OutputAssumption DEF Chk
  <2> QED BY <1>1, <1>2, <1>3, <2>3, DirectoryGivesId
<1> QED BY <1>4, <1>5, <1>6, <1>7 DEF MergedAlike, HasH5

\* The ranks of a session are not some in MPI_Finalize and some at the first barrier
\* of openNewOutputFiles.
LEMMA NoneLeftBehind ==
  ASSUME SessionInv, ~Consolidate \/ SameRanks, NEW q \in Active, NEW r \in Active,
         pc[q] = "finalize"
  PROVE  pc[r] # "open_checked"
<1> SUFFICES ASSUME pc[r] = "open_checked"
             PROVE  FALSE
  OBVIOUS
<1>1. /\ RanksChosen /\ OpenPassed /\ ThrewAlike /\ ConsolidatedInOrder
      /\ ~Consolidate => NoneConsolidated
      /\ NumbersInv
  BY DEF SessionInv, LedgerInv, DoneInv
<1>2. EarlierSettled /\ IInv /\ NoStrays /\ NumbersTaken /\ SetupReadsDisk
  BY <1>1 DEF NumbersInv, DiskInv, IInv
<1>3. /\ q \in Rank /\ r \in Rank /\ Running /\ size \in RankCounts /\ size \in Nat
      /\ q # r
  <2>1. q \in Rank /\ r \in Rank  BY <1>2, ActiveRanks
  <2>2. Running  BY DEF Active, Running
  <2>3. size \in RankCounts  BY <1>1, <2>2 DEF RanksChosen
  <2> QED BY <2>1, <2>2, <2>3, RunAssumption, OutputAssumption
<1>4. ~inRun[r] /\ (SetupRefused(q) \/ (~restart /\ FoundCheckpoints # {}))
  BY <1>1 DEF ThrewAlike, OpenPcs
<1>5. ~SetupRefused(r)  BY <1>1, <1>4 DEF OpenPassed
<1>6. FoundCheckpoints = 0 .. chkNum[r] - 1  BY <1>2, <1>3 DEF NumbersTaken, NameFree
<1>7. CASE ~restart /\ FoundCheckpoints # {}
  <2>1. chkNum[r] = 0  BY <1>2, <1>4, <1>7 DEF SetupReadsDisk
  <2> QED BY <1>6, <1>7, <2>1
<1>8. CASE SetupRefused(q)
  <2>1. restart /\ FoundCheckpoints # {} /\ Readable(MaxCheckpoint)
        /\ UidRefused(q, size) /\ ~UidRefused(r, size)
    BY <1>5, <1>8 DEF SetupRefused
  <2>2. CASE ~Consolidate  BY <1>1, <1>2, <1>3, <2>1, <2>2, NoneRefused DEF NoneConsolidated
  <2>3. CASE SameRanks
    <3>1. size > 1  BY <1>3 DEF Active
    <3>2. 1 \notin RankCounts  BY <1>3, <2>3, <3>1 DEF SameRanks
    <3>3. MergedAlike  BY <1>1, <2>3, <3>2 DEF ConsolidatedInOrder
    <3> QED BY <1>2, <1>3, <2>1, <3>1, <3>3, RefusedAlike DEF Active
  <2> QED BY <2>2, <2>3
<1> QED BY <1>4, <1>7, <1>8

\* The ranks of a session are never left waiting for each other: neither where one has
\* thrown in its constructor, nor where SIGTERM or the end of the trials comes between
\* two batches.  Where checkpoints are consolidated this needs sessions of the same
\* number of ranks; with others findRestartUidForRank may throw on some ranks only.
THEOREM NeverHangs ==
  ASSUME "error" \notin Faults \/ MaxRanks = 1, ~Consolidate \/ SameRanks
  PROVE  Spec => []NoHang
<1>1. SessionInv => NoHang
  <2> SUFFICES ASSUME SessionInv, \A r \in Active : pc[r] \in CollectivePcs
               PROVE  \/ \A r \in Active : pc[r] \in BarrierPcs
                      \/ \A r \in Active : pc[r] = "reduce"
                      \/ \A r \in Active : pc[r] = "finalize"
    BY DEF NoHang
  <2>1. NumbersInv /\ BatchesTogether  BY DEF SessionInv, LedgerInv, DoneInv, NumbersInv
  <2>2. PICK P \in Phases : \A r \in Active : pc[r] \in P
    BY <2>1 DEF NumbersInv, DiskInv, IInv, RanksAgree, SamePhase
  <2>3. CASE P \in {DirPcs, SyncPcs}  BY <2>2, <2>3 DEF DirPcs, SyncPcs, CollectivePcs, BarrierPcs
  <2>4. CASE P = EndPcs  BY <2>2, <2>4 DEF EndPcs, CollectivePcs, BarrierPcs
  <2>5. CASE P = RunPcs
    <3>1. \A r \in Active : pc[r] \in {"reduce", "closed"}
      BY <2>2, <2>5 DEF RunPcs, CollectivePcs, BarrierPcs
    <3>2. \A q, r \in Active : pc[r] = "reduce" => pc[q] # "closed"  BY <2>1 DEF BatchesTogether
    <3> QED BY <3>1, <3>2 DEF BarrierPcs
  <2>6. CASE P = OpenPcs
    <3>1. \A r \in Active : pc[r] \in {"open_checked", "finalize"}
      BY <2>2, <2>6 DEF OpenPcs, CollectivePcs, BarrierPcs
    <3>2. \A q, r \in Active : pc[q] = "finalize" => pc[r] # "open_checked"  BY NoneLeftBehind
    <3> QED BY <3>1, <3>2 DEF BarrierPcs
  <2> QED BY <2>2, <2>3, <2>4, <2>5, <2>6 DEF Phases
<1> QED BY <1>1, SessionInductive, PTL

\* After a session that ended by itself, by SIGTERM or with all trials done, the next
\* one is not refused, on any number of ranks: the last checkpoint is whole, and each
\* rank finds its unique ID or begins with its first.  Where checkpoints are
\* consolidated this is so of one rank only, as several do not find their IDs in the
\* consolidated file.
THEOREM GracefulExit ==
  ASSUME "error" \notin Faults \/ MaxRanks = 1, ~Consolidate \/ MaxRanks = 1
  PROVE  Spec => []GracefulExitRestartable
<1>1. SessionInv => GracefulExitRestartable
  <2> SUFFICES ASSUME SessionInv, outcome \in {"done", "sigterm"}
               PROVE  /\ Readable(MaxCheckpoint)
                      /\ \A n \in RankCounts : \A r \in 0 .. n - 1 : ~UidRefused(r, n)
    BY DEF GracefulExitRestartable
  <2>1. NumbersInv /\ Restartable  BY DEF SessionInv, LedgerInv, DoneInv, LeftReadable
  <2>2. NoStrays /\ EarlierSettled /\ FoundCheckpoints # {} /\ Readable(MaxCheckpoint)
    BY <2>1 DEF NumbersInv, DiskInv, Restartable
  <2>3. ASSUME NEW n \in RankCounts, NEW r \in 0 .. n - 1
        PROVE  ~UidRefused(r, n)
    <3>1. n \in 1 .. MaxRanks /\ r \in Rank  BY RunAssumption, OutputAssumption DEF Rank
    <3>2. CASE ~Consolidate  BY <2>2, <3>1, <3>2, NoneRefused DEF SessionInv, NoneConsolidated
    <3>3. CASE MaxRanks = 1
      <4>1. n = 1 /\ r = 0  BY <3>1, <3>3
      <4> QED BY <2>2, <3>3, <4>1, OnlyRankAccepted
    <3> QED BY <3>2, <3>3
  <2> QED BY <2>2, <2>3
<1> QED BY <1>1, SessionInductive, PTL

=============================================================================
