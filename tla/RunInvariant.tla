---------------------------- MODULE RunInvariant ----------------------------
(***************************************************************************)
(* The inductive invariants of CheckpointedRun, each with those before it: *)
(* IInv, which is TypeOK and RanksAgree with what they rest on; DiskInv,   *)
(* what the ranks know of the disk; NumbersInv, the numbers of trials;     *)
(* DoneInv, the trials that are done and what the counts of them stand     *)
(* for; LedgerInv, what the ledger needs besides; SessionInv, what the     *)
(* ranks of a session rest on; and, on top of DiskInv, UidInv, the unique  *)
(* IDs of trials.                                                          *)
(***************************************************************************)
EXTENDS RunProperties

\* Ranks the session was not launched with do nothing.
OnlyActiveRun == \A r \in Rank : pc[r] # "idle" => r < size

\* Until its constructor has run, a rank's memory is that of a fresh process.
FreshUntilSetup ==
  \A r \in Rank : pc[r] \in {"idle", "setup"} =>
    /\ ~inRun[r] /\ exit[r] = "none" /\ count[r] = 0
    /\ prior[r] = 0 /\ restartMax[r] = 0 /\ chkNum[r] = 0

TrialsOnlyInBatch ==
  \A r \in Rank, t \in Thread : task[r][t].st # "idle" => pc[r] = "batch"

\* Only rank 0 makes directories, synchronises and consolidates.
RootOnly ==
  \A r \in Rank : pc[r] \in {"make_dir", "sync_read", "sync_write", "merge"} => r = 0

ExitOnlyAtEnd ==
  \A r \in Rank : exit[r] # "none" => Closing(r) \/ pc[r] \in {"finalize", "merge"}

InRunWhenClosing ==
  \A r \in Rank : pc[r] \in {"batch", "reduce"} \/ Closing(r) => inRun[r]

\* run() begins on no rank while another is still being constructed.
NoneInRunDuringSetup == \A q, r \in Active : pc[q] = "setup" => ~inRun[r]

\* A constructor reads the disk as it was when the session was launched.
SetupReadsDisk ==
  \A r \in Active : pc[r] \in {"open_check", "open_checked"} /\ ~inRun[r] =>
    IF restart /\ FoundCheckpoints # {}
    THEN /\ prior[r] = RestartTrialsDone(MaxCheckpoint)
         /\ restartMax[r] = RestartMaxTrial(MaxCheckpoint)
         /\ chkNum[r] = MaxCheckpoint + 1
    ELSE prior[r] = 0 /\ restartMax[r] = 0 /\ chkNum[r] = 0

\* A closed file counts the trials of earlier sessions and its rank's own.
ClosedFileCounts ==
  \A r \in Rank : pc[r] = "closed" =>
    files[chkNum[r]][r].tc = TrialsCompleted(r)

\* So rank 0 adds up shares that are not negative.
SharesCount == pc[0] = "sync_read" => \A q \in Active : prior[0] <= Left(q).tc

\* Rank 0 visits the files of the ranks of the session, and starts anew each time.
SyncVisitsRanks ==
  IF pc[0] \in {"sync_read", "sync_write"} THEN sync.next < size ELSE sync = NoSync

MergeWithinCheckpoints == ~MergeUnstarted => merge.chk \in Chk

IInv ==
  /\ TypeOK
  /\ OnlyActiveRun /\ FreshUntilSetup /\ TrialsOnlyInBatch /\ RootOnly
  /\ ExitOnlyAtEnd /\ InRunWhenClosing /\ NoneInRunDuringSetup /\ SetupReadsDisk
  /\ RanksAgree
  /\ ClosedFileCounts /\ SharesCount /\ SyncVisitsRanks /\ MergeWithinCheckpoints

-----------------------------------------------------------------------------
(* The ranks and the disk.                                                 *)

\* Checkpoints have the numbers from 0 up.
NoGaps == \A c \in FoundCheckpoints : 0 .. c \subseteq FoundCheckpoints

\* r is about to make its next checkpoint: nothing on disk has the name.
NameFree(r) == pc[r] \in {"open_checked", "make_dir"} \/ (pc[r] = "open_check" /\ inRun[r])

\* Where a rank is tells which checkpoints there are.
NumbersTaken ==
  \A r \in Rank :
    /\ pc[r] = "open_check" => 0 .. chkNum[r] - 1 \subseteq FoundCheckpoints
    /\ NameFree(r) => FoundCheckpoints = 0 .. chkNum[r] - 1
    /\ pc[r] = "dir_made" => FoundCheckpoints \in {0 .. chkNum[r] - 1, 0 .. chkNum[r]}
    /\ pc[r] \in RunPcs \cup SyncPcs => FoundCheckpoints = 0 .. chkNum[r]

\* Rank 0 has made the directory before any rank opens a file in it.
DirectoryMade ==
  \A r \in Rank : (pc[r] = "dir_made" /\ r = 0) \/ pc[r] \in RunPcs => hasDir[chkNum[r]]

\* Files lie in directories, and no rank opens one it has had before.
NoStrays == \A c \in Chk, r \in Rank : files[c][r].st # "none" => hasDir[c]

FilesNew ==
  \A r \in Rank : pc[r] \in DirPcs \cup {"open_files"} => files[chkNum[r]][r].st = "none"

\* The consolidated file rank 0 is filling has the rows of every file up to the
\* last one merged; it is closed when there is no other.
MergedSoFar ==
  ~MergeUnstarted =>
    /\ pc[0] = "merge" /\ HasH5(merge.chk)
    /\ \A q \in RanksIn(merge.chk) \ NotYetMerged :
         files[merge.chk][q].rows \subseteq h5[merge.chk].rows
    /\ h5[merge.chk].st = "closed" => NotYetMerged = {}

DiskInv ==
  /\ IInv
  /\ NoGaps /\ NumbersTaken /\ DirectoryMade
  /\ NoStrays /\ FilesNew
  /\ MergedSoFar

-----------------------------------------------------------------------------
(* The numbers of trials, where trials do not fail on one rank of several. *)

\* A trial throws only where its rank is the only one.
FailsAlone == \A r \in Rank : failed[r] => MaxRanks = 1

NoFileNoRows ==
  \A c \in Chk : /\ h5[c].st = "none" => h5[c].rows = {}
                 /\ \A r \in Rank : files[c][r].st = "none" => files[c][r].rows = {}

\* r's file of the current checkpoint, from opening it to the next rollover.
OwnFile(r) == files[chkNum[r]][r]
HasFile(r) == pc[r] \in {"batch", "reduce", "close", "closed"} \cup SyncPcs

FilesOpened ==
  \A r \in Rank : HasFile(r) =>
    OwnFile(r).st = IF pc[r] \in {"batch", "reduce", "close"} THEN "open" ELSE "closed"

\* r has found the name of its checkpoint free.
Knows(r) == NameFree(r) \/ pc[r] \in DirPcs \cup RunPcs \cup SyncPcs

\* The current checkpoint has the files of this session's ranks only.
OnlyOurFiles ==
  \A r \in Rank : Knows(r) =>
    ~HasH5(chkNum[r]) /\ \A q \in Rank \ Active : files[chkNum[r]][q].st = "none"

\* The ranks enter a batch, or none does, and leave it together.
BatchesTogether ==
  \A q, r \in Active :
    /\ pc[r] \in {"batch", "reduce"} =>
         batchStart[r] < NumberingEnd(r) /\ pc[q] \in {"open_files", "batch", "reduce"}
    /\ pc[r] = "open_files" /\ pc[q] \in {"close", "closed"} =>
         ~inRun[r] /\ NumberingEnd(r) <= NumberingStart(r)

\* There is a rollover only if there is a batch after it.
RolloverGoesOn ==
  \A r \in Rank : inRun[r] /\ GoingOn(r) /\ pc[r] \notin {"batch", "reduce"} =>
    batchStart[r] + BatchSize(r) < NumberingEnd(r)

\* A trial is taken once, from the rank's own slice of the batch.
OwnSlice(r) == SliceFirst(r, batchStart[r], BatchEnd(r)) .. SliceLast(r) - 1
Taken(r) == {n \in OwnSlice(r) : n < nextTrial[r]}

TasksTaken ==
  \A r \in Rank :
    /\ pc[r] = "batch" => SliceFirst(r, batchStart[r], BatchEnd(r)) <= nextTrial[r]
    /\ \A t \in Thread : task[r][t].st # "idle" => task[r][t].trial \in Taken(r)

TasksApart ==
  \A r \in Rank, t \in Thread : task[r][t].st = "begun" =>
    /\ \A row \in OwnFile(r).rows : row.trial # task[r][t].trial
    /\ \A u \in Thread \ {t} : task[r][u].st = "begun" => task[r][u].trial # task[r][t].trial

RowsTaken ==
  \A r \in Rank : HasFile(r) => \A row \in OwnFile(r).rows : row.trial \in Taken(r)

\* Earlier rows, of this session and others, have lower numbers than the batch.
EarlierRows(r) == UNION {RowsIn(c) : c \in {d \in Chk : d < chkNum[r]}}

EarlierLower ==
  \A r \in Rank : Knows(r) /\ GoingOn(r) =>
    \A row \in EarlierRows(r) : row.trial < BatchFirst(r)

\* maxTrial_ begins as what the restart found; later that of some rank is as high
\* as any row, and each rank's as its own rows.
HighestKnown ==
  \A r \in Rank :
    /\ restartMax[r] <= maxTrial[r]
    /\ ~inRun[r] => maxTrial[r] = restartMax[r]
    /\ HasFile(r) => \A row \in OwnFile(r).rows : row.trial <= maxTrial[r]
    /\ Knows(r) => \A row \in EarlierRows(r) : \E q \in Active : row.trial <= maxTrial[q]

\* A restart goes on from a checkpoint it can read.
SetupReads ==
  \A r \in Rank : pc[r] = "open_check" /\ ~inRun[r] /\ restart /\ FoundCheckpoints # {} =>
    Readable(MaxCheckpoint)

\* syncCheckpoints finds the highest number of all ranks and gives it to all files.
HighestSynced ==
  /\ \A r \in Rank : pc[r] = "closed" => OwnFile(r).mx = maxTrial[r]
  /\ pc[0] \in {"sync_read", "sync_write"} =>
       \A q \in Active :
         /\ q < sync.next \/ pc[0] = "sync_write" => maxTrial[q] <= sync.mx
         /\ Left(q).mx = IF q < sync.next /\ pc[0] = "sync_write" THEN sync.mx ELSE maxTrial[q]

\* The files of a checkpoint have the same highest number.
Settled(c) ==
  \A q, r \in RanksIn(c) : HasAttrs(files[c][q]) /\ files[c][q].mx = files[c][r].mx

\* Every checkpoint but the last has been synchronised, and so has the last one
\* before another is made or it is consolidated.
EarlierSettled ==
  \A c \in Chk :
    HasH5(c) \/ (\E d \in FoundCheckpoints : c < d) \/ NameFree(0)
      \/ pc[0] \in {"synced", "merge"} => Settled(c)

\* A highest number all files agree on is as high as any row.
Covers(n, c) == \A d \in 0 .. c : \A row \in RowsIn(d) : row.trial <= n

HighestAccurate ==
  \A c \in Chk :
    /\ h5[c].st \in {"open", "closed"} => Covers(h5[c].mx, c)
    /\ Settled(c) => \A r \in RanksIn(c) : Covers(files[c][r].mx, c)

NumbersInv ==
  /\ DiskInv
  /\ FailsAlone /\ NoFileNoRows /\ FilesOpened /\ OnlyOurFiles
  /\ BatchesTogether /\ RolloverGoesOn
  /\ TasksTaken /\ TasksApart /\ RowsTaken
  /\ EarlierLower /\ HighestKnown
  /\ SetupReads /\ HighestSynced /\ EarlierSettled /\ HighestAccurate
  /\ TrialNumbersUnique

-----------------------------------------------------------------------------
(* What the counts of trials stand for.                                    *)

Trials(rows) == {row.trial : row \in rows}

\* A trial that is done has a row.
DoneHasRows ==
  \A c \in Chk : /\ h5[c].done \subseteq Trials(h5[c].rows)
                 /\ \A r \in Rank : files[c][r].done \subseteq Trials(files[c][r].rows)

\* A consolidated file that is not whole has what the directory has.
CopiesOnly ==
  /\ \A c \in Chk : h5[c].st \in {"open", "torn"} =>
       h5[c].done \subseteq UNION {files[c][r].done : r \in Rank}
  /\ ~MergeUnstarted =>
       \A q \in RanksIn(merge.chk) \ NotYetMerged :
         files[merge.chk][q].done \subseteq h5[merge.chk].done

\* The trials of a rank's threads are different, and not done; those beyond their
\* first row have it.
TasksNotDone ==
  \A r \in Rank, t \in Thread : task[r][t].st # "idle" =>
    /\ task[r][t].trial \notin OwnFile(r).done
    /\ \A u \in Thread \ {t} : task[r][u].st # "idle" => task[r][u].trial # task[r][t].trial
    /\ task[r][t].st = "written" => task[r][t].trial \in Trials(OwnFile(r).rows)

\* Where no trial throws, a row is that of a trial done or being worked on, and in
\* a file that is closed that of a trial done.
Whole(f) == Trials(f.rows) \subseteq f.done

RowsWhole ==
  "error" \notin Faults =>
    /\ \A r \in Rank : ~failed[r]
    /\ \A c \in Chk : /\ h5[c].st # "none" => Whole(h5[c])
                      /\ \A r \in Rank : files[c][r].st = "closed" => Whole(files[c][r])
    /\ \A r \in Rank : HasFile(r) =>
         \A n \in Trials(OwnFile(r).rows) \ OwnFile(r).done :
           \E t \in Thread : task[r][t].st = "written" /\ task[r][t].trial = n

\* What a rank has taken it has done or is doing, unless SIGTERM or an error came.
TakenDone ==
  \A r \in Rank :
    /\ pc[r] = "batch" /\ ~sigterm[r] /\ ~failed[r] =>
         \A n \in Taken(r) : \/ n \in OwnFile(r).done
                             \/ \E t \in Thread : task[r][t].st # "idle" /\ task[r][t].trial = n
    /\ pc[r] = "reduce" /\ ~vote[r] => OwnSlice(r) \subseteq OwnFile(r).done

\* The session's trials before the batch are done, the batch too where it is left to
\* go on, and all of them at the end.
BatchesDone ==
  \A r \in Rank :
    /\ Knows(r) /\ GoingOn(r) => NumberingStart(r) <= BatchFirst(r)
    /\ Knows(r) /\ GoingOn(r) => NumberingStart(r) .. BatchFirst(r) - 1 \subseteq DoneOnDisk
    /\ Closing(r) /\ exit[r] = "none" => NumberingStart(r) .. BatchEnd(r) - 1 \subseteq DoneOnDisk

\* Numbers ascend with the checkpoints.
Ascending ==
  \A c, d \in Chk : c < d =>
    \A x \in RowsIn(c), y \in RowsIn(d) : x.trial < y.trial

-----------------------------------------------------------------------------
\* The trials rank r has done in this session.
DoneBy(r) == UNION {files[c][r].done : c \in Chk}
NewDone(r) == {n \in DoneBy(r) : NumberingStart(r) <= n}
OldDone(r) == {n \in DoneOnDisk : n < NumberingStart(r)}

\* Only this session's ranks have numbers of this session, and in their own files.
OthersOld ==
  \A r \in Rank : Knows(r) =>
    \A c \in Chk :
      /\ \A n \in h5[c].done : n < NumberingStart(r)
      /\ \A q \in Rank \ Active : \A n \in files[c][q].done : n < NumberingStart(r)

\* The session's trials end where its numbers do.
NewBounded ==
  \A r \in Rank : Knows(r) => \A n \in NewDone(r) : n < NumberingEnd(r)

\* trialsCompleted_ counts the new trials of the rank, the restart the old ones of all.
CountsKnown ==
  \A r \in Rank :
    /\ ~inRun[r] => count[r] = 0
    /\ Knows(r) => count[r] = Cardinality(NewDone(r))
    /\ Knows(r) => prior[r] = Cardinality(OldDone(r))
    /\ prior[r] <= NTrial

\* A session that is no restart has no number to go on from.
FreshStart == ~restart => \A r \in Rank : restartMax[r] = 0

\* maxTrial_ is the number of a row of the rank, once it is beyond the restart's.
MaxAttained ==
  \A r \in Rank : Knows(r) /\ maxTrial[r] # restartMax[r] =>
    \E c \in Chk : maxTrial[r] \in Trials(files[c][r].rows)

\* syncCheckpoints adds up the trials of all ranks and gives the sum to all files.
NewUpTo(k) == UNION {NewDone(q) : q \in 0 .. k - 1}

CountSynced ==
  /\ pc[0] = "sync_read" => sync.tc = Cardinality(NewUpTo(sync.next))
  /\ pc[0] = "sync_write" => sync.tc = Cardinality(DoneOnDisk)
  /\ pc[0] \in {"sync_read", "sync_write"} =>
       \A q \in Active :
         Left(q).tc = IF q < sync.next /\ pc[0] = "sync_write" THEN sync.tc ELSE TrialsCompleted(q)

\* The files of a checkpoint have the same number of trials; all they say is the same.
CountsAgree(c) == \A q, r \in RanksIn(c) : files[c][q].tc = files[c][r].tc
Agreeing(c) == Settled(c) /\ CountsAgree(c)

EarlierAgree ==
  \A c \in Chk :
    HasH5(c) \/ (\E d \in FoundCheckpoints : c < d) \/ NameFree(0)
      \/ pc[0] \in {"synced", "merge"} => CountsAgree(c)

DoneUpTo(c) == UNION {DoneIn(d) : d \in 0 .. c}

\* A number of trials all files agree on is that of the trials done.
CountsAccurate ==
  \A c \in Chk :
    /\ h5[c].st \in {"open", "closed"} => h5[c].tc = Cardinality(DoneUpTo(c))
    /\ Agreeing(c) => \A r \in RanksIn(c) : files[c][r].tc = Cardinality(DoneUpTo(c))

\* A restart would go on from what there is.
Restartable == FoundCheckpoints # {} /\ Readable(MaxCheckpoint)

\* That is so when a session has ended by itself, and while rank 0 consolidates:
\* the last checkpoint is the last to be consolidated.
Ended(r) == exit[r] \in {"done", "sigterm"}

LastUnmerged ==
  /\ FoundCheckpoints = 0 .. chkNum[0]
  /\ HasH5(chkNum[0]) => merge.chk = chkNum[0] /\ ~MergeUnstarted
  /\ hasDir[chkNum[0]] /\ (RanksIn(chkNum[0]) # {} \/ h5[chkNum[0]].st = "closed")

LeftReadable ==
  /\ pc[0] = "merge" => IF MergeOver THEN MergeUnstarted /\ Restartable ELSE LastUnmerged
  /\ pc[0] = "finalize" /\ Ended(0) => Restartable
  /\ outcome \in {"done", "sigterm"} => Restartable
  /\ Running => outcome = "none"

\* No more trials are done than were asked for, and as many when a rank ends.
BudgetKept ==
  /\ IsFiniteSet(DoneOnDisk) /\ Cardinality(DoneOnDisk) <= NTrial
  /\ \A r \in Rank : exit[r] = "done" => Cardinality(DoneOnDisk) = NTrial
  /\ outcome = "done" => Cardinality(DoneOnDisk) = NTrial

DoneInv ==
  /\ NumbersInv
  /\ BudgetKept /\ LeftReadable
  /\ DoneHasRows /\ CopiesOnly /\ TasksNotDone /\ RowsWhole
  /\ TakenDone /\ BatchesDone /\ Ascending
  /\ OthersOld /\ NewBounded /\ CountsKnown /\ FreshStart /\ MaxAttained
  /\ CountSynced /\ EarlierAgree /\ CountsAccurate

-----------------------------------------------------------------------------
(* The ledger.                                                             *)

\* A rank that had nothing to do has done nothing.
NothingToDo ==
  \A r \in Rank : pc[r] \in {"close", "closed"} /\ NumberingEnd(r) <= NumberingStart(r) =>
    OwnFile(r).done = {}

\* The highest number syncCheckpoints finds is that of some rank.
HighestFound ==
  pc[0] \in {"sync_read", "sync_write"} =>
    sync.mx = 0 \/ \E q \in Active : sync.mx = maxTrial[q]

LedgerInv == DoneInv /\ NothingToDo /\ HighestFound

-----------------------------------------------------------------------------
(* The unique IDs of trials.                                               *)

\* The IDs set aside for rank r, and the promise that it draws no more.
OwnIds(r) == FirstUid(r) .. FirstUid(r) + UidStride - 1

WithinStride == \A r \in Rank, t \in Thread : task[r][t].st # "idle" => task[r][t].uid \in OwnIds(r)

\* A rank's rows have its own IDs.
RowsHaveOwnIds == \A c \in Chk, r \in Rank : \A row \in files[c][r].rows : row.uid \in OwnIds(r)

\* No row up to checkpoint c has an ID of rank r from n on.
NoneFrom(n, r, c) == \A d \in 0 .. c : \A row \in RowsIn(d) : row.uid \in OwnIds(r) => row.uid < n

\* What a rank draws next is not on disk, unless it is about to be refused.
NextUidNew ==
  \A r \in Rank : Constructed(r) =>
    /\ FirstUid(r) <= nextUid[r]
    /\ restart \/ Knows(r) => NoneFrom(nextUid[r], r, MaxChk)

\* The threads of a rank have different IDs, and none on disk until they write it.
TaskUidsNew ==
  \A r \in Rank, t \in Thread : task[r][t].st # "idle" =>
    /\ FirstUid(r) <= task[r][t].uid /\ task[r][t].uid < nextUid[r]
    /\ \A u \in Thread \ {t} : task[r][u].st # "idle" => task[r][u].uid # task[r][t].uid
    /\ task[r][t].st = "begun" => \A row \in RowsOnDisk : row.uid # task[r][t].uid

\* The files of a checkpoint are closed once there is another, or it is consolidated.
EarlierClosed ==
  \A c \in Chk :
    HasH5(c) \/ (\E d \in FoundCheckpoints : c < d) \/ NameFree(0)
      \/ pc[0] \in {"synced", "merge"} => \A r \in RanksIn(c) : HasAttrs(files[c][r])

\* A restart goes on with IDs that are not on disk: those after the last of the rank's
\* own file, or, for one rank, those after the first file consolidated.
UidsSaved ==
  \A c \in Chk :
    /\ h5[c].st \in {"open", "closed"} => FirstUid(0) <= h5[c].uid /\ NoneFrom(h5[c].uid, 0, c)
    /\ \A r \in Rank : files[c][r].st = "closed" =>
         FirstUid(r) <= files[c][r].uid /\ NoneFrom(files[c][r].uid, r, c)

UidInv ==
  /\ DiskInv
  /\ NoFileNoRows /\ FilesOpened /\ OnlyOurFiles /\ SetupReads
  /\ RowsHaveOwnIds /\ NextUidNew /\ TaskUidsNew /\ EarlierClosed /\ UidsSaved
  /\ UidsUnique

-----------------------------------------------------------------------------
(* The ranks of a session, and what it leaves to the next.                 *)

\* Where checkpoints are not consolidated there is no consolidated file.
NoneConsolidated == pc[0] # "merge" /\ \A c \in Chk : ~HasH5(c)

\* The constructor of r has not thrown, and would not if it ran now.
OpenPassed ==
  \A r \in Active : pc[r] \in {"open_check", "open_checked"} /\ ~inRun[r] => ~SetupRefused(r)

\* A rank that threw in its constructor did so for what it read, which is still there.
ThrewAlike ==
  \A q, r \in Active : pc[q] = "finalize" /\ pc[r] \in OpenPcs \ {"finalize"} =>
    ~inRun[r] /\ (SetupRefused(q) \/ (~restart /\ FoundCheckpoints # {}))

\* A session has one of the numbers of ranks allowed, and the same in all sessions where
\* there is only one.
RanksChosen == Running => size \in RankCounts
SameRanks == \A m, n \in RankCounts : m = n

\* The directory of c has a file of every rank, and they agree.
KeepsAll(c) ==
  /\ RanksIn(c) # {} /\ \A n \in RankCounts : 0 .. n - 1 \subseteq RanksIn(c)
  /\ Agreeing(c)

\* No consolidated checkpoint is the last a rank finds its ID in, below checkpoint n.
UnmergedBefore(n) ==
  \/ \A c \in Chk : ~HasH5(c)
  \/ \E d \in 0 .. n - 1 : KeepsAll(d) /\ \A c \in Chk : HasH5(c) => c < d

\* A consolidated checkpoint is the last a rank finds, or none does: what the ranks of
\* a restart are told by findRestartUidForRank is the same.
MergedAlike ==
  \/ \A c \in Chk : ~HasH5(c)
  \/ h5[MaxCheckpoint].st = "closed"
  \/ \E d \in Chk : KeepsAll(d) /\ \A c \in Chk : HasH5(c) => c < d \/ (c = d /\ d = MaxCheckpoint)

\* So it is where all sessions have the same number of ranks, more than one.
ConsolidatedInOrder ==
  SameRanks /\ 1 \notin RankCounts =>
    /\ MergedAlike
    /\ Knows(0) => UnmergedBefore(chkNum[0])
    /\ pc[0] = "merge" => h5[MaxCheckpoint].st = "closed" \/ KeepsAll(MaxCheckpoint)

SessionInv ==
  /\ LedgerInv
  /\ RanksChosen /\ OpenPassed /\ ThrewAlike
  /\ ConsolidatedInOrder
  /\ ~Consolidate => NoneConsolidated
=============================================================================
