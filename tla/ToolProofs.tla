------------------------------ MODULE ToolProofs ------------------------------
(***************************************************************************)
(* Cleaning up with consolidate_checkpoints loses no row, wherever the run *)
(* or the tool dies, for any numbers of ranks, trials, sessions and starts *)
(* of the tool.  The tool leaves gaps among the checkpoints, so only part  *)
(* of DiskInv holds beside it (RunInv); ToolInv is what the tool knows of  *)
(* the files it has found.                                                 *)
(***************************************************************************)
EXTENDS ConsolidateCheckpoints, CheckpointedRunProofs

USE DEF sessionVars, setupVars, trialVars, signalVars, rootVars

-----------------------------------------------------------------------------
(* What of DiskInv outlasts the tool, which leaves gaps.                   *)

DirInv == DirectoryMade /\ FreeName

\* Where a rank knows whether its directory is there.
DirKnown == {"open_checked", "dir_made"} \cup RunPcs

\* No rank comes to know more of the directories.
LEMMA DirFrame ==
  ASSUME DirInv, UNCHANGED <<hasDir, h5>>,
         \A q \in Rank : \/ pc'[q] \notin DirKnown
                         \/ /\ chkNum'[q] = chkNum[q]
                            /\ pc'[q] = pc[q] \/ (pc[q] \in RunPcs /\ pc'[q] \in RunPcs)
  PROVE  DirInv'
<1>1. DirectoryMade'  BY DEF DirInv, DirectoryMade, DirKnown
<1>2. FreeName'  BY DEF DirInv, FreeName, DirKnown, Exists, HasH5, RunPcs
<1> QED BY <1>1, <1>2 DEF DirInv

\* No rank knows anything of them.
LEMMA DirAside ==
  ASSUME \A q \in Rank : pc'[q] \notin DirKnown
  PROVE  DirInv'
BY DEF DirInv, DirectoryMade, FreeName, DirKnown

\* The name is found free, and then the directory made.
LEMMA DirOpen ==
  ASSUME IInv, DirInv, NEW r \in Rank, OpenCheck(r) \/ MakeDir(r)
  PROVE  DirInv'
<1>1. CASE OpenCheck(r)
  <2>1. /\ ~Exists(chkNum[r])' /\ pc'[r] = "open_checked" /\ hasDir' = hasDir /\ h5' = h5
        /\ chkNum' = chkNum /\ \A q \in Rank : q # r => pc'[q] = pc[q]
    BY <1>1 DEF OpenCheck, IInv, TypeOK, Exists, HasH5, disk
  <2>2. DirectoryMade'  BY <2>1 DEF DirInv, DirectoryMade, RunPcs
  <2>3. FreeName'  BY <2>1 DEF DirInv, FreeName, Exists, HasH5
  <2> QED BY <2>2, <2>3 DEF DirInv
<1>2. CASE MakeDir(r)
  <2>1. /\ pc[r] = "make_dir" /\ pc' = [pc EXCEPT ![r] = "dir_made"] /\ r = 0
        /\ hasDir' = [hasDir EXCEPT ![chkNum[r]] = TRUE] /\ chkNum' = chkNum
        /\ chkNum[r] \in Chk /\ hasDir \in [Chk -> BOOLEAN]
    BY <1>2 DEF MakeDir, CreateDirectory, IInv, RootOnly, TypeOK, DiskTypeOK
  <2>2. \A q \in Rank : pc[q] \in DirPcs \cup {"idle"}  BY <2>1, ActiveRanks, Together DEF DirPcs
  <2>3. \A q \in Rank : pc'[q] \in DirPcs \cup {"idle"}  BY <2>1, <2>2 DEF IInv, TypeOK, DirPcs
  <2>4. hasDir'[chkNum'[r]]  BY <2>1
  <2>5. DirectoryMade'  BY <2>1, <2>3, <2>4 DEF DirectoryMade, DirPcs, RunPcs
  <2>6. FreeName'  BY <2>3 DEF FreeName, DirPcs
  <2> QED BY <2>5, <2>6 DEF DirInv
<1> QED BY <1>1, <1>2

\* Rank 0 made the directory before the others were let on.
LEMMA DirBarrier ==
  ASSUME IInv, DirInv, Barrier
  PROVE  DirInv'
<1>1. /\ hasDir' = hasDir /\ h5' = h5
      /\ \A q \in Rank : /\ pc'[q] = AfterBarrier(q)
                         /\ pc[q] # "synced" => chkNum'[q] = chkNum[q]
  BY DEF Barrier, disk
<1>2. 0 \in Rank /\ 0 \in Active /\ \A q \in Rank : pc[q] # "idle" => q \in Active
  <2>1. size \in 0 .. MaxRanks /\ size # 0  BY DEF Barrier, Running, IInv, TypeOK
  <2>2. 0 \in Rank /\ 0 \in Active  BY <2>1, OutputAssumption DEF Active, Rank
  <2> QED BY <2>2, ActiveRanks
<1>3. \A q \in Rank : pc[q] \in BarrierPcs \cup {"idle"}  BY <1>2 DEF Barrier
<1>4. ASSUME NEW q \in Rank, pc[q] = "dir_made"
      PROVE  hasDir[chkNum[q]]
  <2>1. pc[0] \in DirPcs /\ chkNum[0] = chkNum[q]  BY <1>2, <1>4, Together DEF DirPcs
  <2>2. pc[0] = "dir_made"  BY <1>2, <1>3, <2>1 DEF DirPcs, BarrierPcs
  <2> QED BY <1>2, <2>1, <2>2 DEF DirInv, DirectoryMade
<1>5. \A q \in Rank : /\ pc'[q] # "open_checked"
                      /\ (pc'[q] = "dir_made" => q # 0)
                      /\ pc'[q] \in RunPcs => pc[q] = "dir_made"
  BY <1>1, <1>3 DEF AfterBarrier, BarrierPcs, RunPcs
<1>6. DirectoryMade'  BY <1>1, <1>4, <1>5 DEF DirectoryMade
<1>7. FreeName'  BY <1>5 DEF FreeName
<1> QED BY <1>6, <1>7 DEF DirInv

\* Directories go when all ranks are done, or gone.
LEMMA DirRemoved ==
  ASSUME IInv, (\E r \in Rank : Merge(r)) \/ DeleteUnreadable
  PROVE  DirInv'
<1>1. CASE \E r \in Rank : Merge(r)
  <2>1. PICK r \in Rank : Merge(r)  BY <1>1
  <2>2. pc[r] = "merge" /\ (pc' = pc \/ pc' = [pc EXCEPT ![r] = "finalize"])
    BY <2>1 DEF Merge, MergeSkip, MergeCopy, MergeAppend, MergeClose, MergeUnlink, MergeRemove, MergeDone
  <2>3. \A q \in Rank : pc'[q] \in EndPcs \cup {"idle"}
    BY <2>2, MergeAlone DEF EndPcs, IInv, TypeOK
  <2> QED BY <2>3, DirAside DEF EndPcs, DirKnown, RunPcs
<1>2. CASE DeleteUnreadable
  <2>1. size = 0 /\ pc' = pc  BY <1>2 DEF DeleteUnreadable, Running
  <2>2. \A q \in Rank : pc[q] = "idle"  BY <2>1 DEF IInv, OnlyActiveRun, Rank
  <2> QED BY <2>1, <2>2, DirAside DEF DirKnown, RunPcs
<1> QED BY <1>1, <1>2

\* Every step of the run keeps what the ranks know of the directories.
LEMMA DirStep ==
  ASSUME IInv, DirInv, [Next]_vars
  PROVE  DirInv'
<1> USE DirFrame DEF DirKnown, RunPcs, IInv, TypeOK, disk
<1>1. ASSUME NEW n \in RankCounts, NEW again \in BOOLEAN, Launch(n, again)
      PROVE  DirInv'
  BY <1>1, DirAside DEF Launch
<1>2. ASSUME NEW r \in Rank, Setup(r) \/ OpenThrows(r)
      PROVE  DirInv'
  <2>1. /\ UNCHANGED disk
        /\ \E p \in {"finalize", "open_check"} : pc' = [pc EXCEPT ![r] = p]
        /\ \A q \in Rank : q # r => chkNum'[q] = chkNum[q]
    BY <1>2
    DEF Setup, SetupThrows, SetupFresh, SetupRestart, OpenThrows, ConstructorThrows
  <2> QED BY <2>1
<1>3. ASSUME NEW r \in Rank, OpenFiles(r)
      PROVE  DirInv'
  <2>1. /\ UNCHANGED <<hasDir, h5, chkNum>> /\ pc[r] = "open_files"
        /\ pc' = [pc EXCEPT ![r] = "batch"] \/ pc' = [pc EXCEPT ![r] = "close"]
    BY <1>3 DEF OpenFiles, OpenOutputFile, EnterBatch
  <2> QED BY <2>1
<1>4. ASSUME NEW r \in Rank, NEW t \in Thread, Trial(r, t) \/ FailTrial(r, t)
      PROVE  DirInv'
  <2>1. UNCHANGED <<hasDir, h5, chkNum, pc>>  BY <1>4, TrialKeeps
  <2> QED BY <2>1
<1>5. ASSUME NEW r \in Rank, SigtermArrives(r)
      PROVE  DirInv'
  BY <1>5 DEF SigtermArrives
<1>6. ASSUME NEW r \in Rank, Batch(r)
      PROVE  DirInv'
  BY <1>6 DEF Batch, BatchFailed, BatchDone, BatchOver
<1>7. CASE Reduce
  <2>1. /\ UNCHANGED <<hasDir, h5, chkNum>>
        /\ \A q \in Rank : pc'[q] = pc[q] \/ (pc[q] = "reduce" /\ pc'[q] = "close")
    BY <1>7 DEF Reduce
  <2> QED BY <2>1
<1>8. CASE Finalize \/ Crash  BY <1>8, DirAside DEF Finalize, Crash, Forget
<1>9. ASSUME NEW r \in Rank, Close(r)
      PROVE  DirInv'
  BY <1>9 DEF Close, CloseOutputFile
<1>10. ASSUME NEW r \in Rank, SyncRead(r) \/ SyncWrite(r)
      PROVE  DirInv'
  <2>1. /\ UNCHANGED <<hasDir, h5, chkNum>>
        /\ pc' = pc \/ \E p \in SyncPcs : pc' = [pc EXCEPT ![r] = p]
    BY <1>10 DEF SyncRead, SyncWrite, OverwriteAttrs, SyncPcs
  <2> QED BY <2>1 DEF SyncPcs
<1>11. CASE UNCHANGED vars  BY <1>11 DEF vars
<1> QED
  BY <1>1, <1>2, <1>3, <1>4, <1>5, <1>6, <1>7, <1>8, <1>9, <1>10, <1>11,
     DirOpen, DirBarrier, DirRemoved
  DEF Next, RankStep, Open, Save, Collective, Outside, Finished

-----------------------------------------------------------------------------
(* The run, beside the tool.                                               *)

RunInv == IInv /\ DirInv /\ FilesInv /\ MergedSoFar

\* No step of the run leaves its invariant.
LEMMA RunKeeps ==
  ASSUME RunInv, [Next]_vars
  PROVE  RunInv'
BY NextInv, DirStep, FilesStep, MergedStep DEF RunInv, DirInv

\* Between sessions files may go.
LEMMA IdleKeeps ==
  ASSUME RunInv, ~Running, RunUnchanged' = RunUnchanged, DiskTypeOK', NoStrays'
  PROVE  RunInv'
<1>1. size = 0 /\ Active = {} /\ Active' = {}  BY DEF Running, Active, RunUnchanged
<1>2. 0 \in Rank /\ \A r \in Rank : pc[r] = "idle" /\ pc'[r] = "idle"
  BY <1>1, OutputAssumption DEF RunInv, IInv, OnlyActiveRun, Rank, RunUnchanged
<1>3. TypeOK'  BY DEF RunInv, IInv, TypeOK, RunUnchanged
<1>4. /\ OnlyActiveRun' /\ FreshUntilSetup' /\ TrialsOnlyInBatch' /\ RootOnly' /\ ExitOnlyAtEnd'
      /\ InRunWhenClosing'
  BY DEF RunInv, IInv, RunUnchanged, OnlyActiveRun, FreshUntilSetup, TrialsOnlyInBatch,
         RootOnly, ExitOnlyAtEnd, InRunWhenClosing, Closing
<1>5. NoneInRunDuringSetup' /\ SetupReadsDisk'  BY <1>1 DEF NoneInRunDuringSetup, SetupReadsDisk
<1>6. RanksAgree'
  <2>1. SamePhase'  BY <1>1 DEF SamePhase, Phases
  <2> QED BY <1>1, <2>1 DEF RanksAgree
<1>7. ClosedFileCounts' /\ SharesCount' /\ SyncVisitsRanks'
  BY <1>2 DEF ClosedFileCounts, SharesCount, SyncVisitsRanks, RunInv, IInv, RunUnchanged
<1>8. MergeUnstarted /\ MergeUnstarted'
  BY <1>2 DEF RunInv, MergedSoFar, MergeUnstarted, RunUnchanged
<1>9. MergeWithinCheckpoints' /\ MergedSoFar'  BY <1>8 DEF MergeWithinCheckpoints, MergedSoFar
<1>10. IInv'  BY <1>3, <1>4, <1>5, <1>6, <1>7, <1>9 DEF IInv
<1>11. DirInv'  BY <1>2, DirAside DEF DirKnown, RunPcs
<1>12. FilesInv'  BY <1>2 DEF FilesInv, FilesNew, DirPcs
<1> QED BY <1>9, <1>10, <1>11, <1>12 DEF RunInv

-----------------------------------------------------------------------------
(* Deleting what was consolidated.                                         *)

IsFile(f) == f[1] \in Chk /\ f[2] \in 0 .. MaxRanks

\* No file has got more rows.
RowsFewer == \A g : IsFile(g) => Contents(g)'.rows \subseteq Contents(g).rows

\* Of the rows of closed files, those of f may be gone.
LossOf(f) ==
  \A c \in Chk : ClosedRows(c) \subseteq ClosedRows(c)' \cup {row \in Contents(f).rows : IsFile(f)}

\* Deleting one file.
LEMMA UnlinkEffect ==
  ASSUME DiskTypeOK, NoStrays, NEW f, Unlink(f), hasDir' = hasDir
  PROVE  DiskTypeOK' /\ NoStrays' /\ RowsFewer /\ LossOf(f)
<1>1. NoFile \in File /\ NoFile.st = "none" /\ NoFile.rows = {}  BY DEF NoFile, File, FileStatus
<1>2. CASE f[2] = H5
  <2>1. /\ h5' = [h5 EXCEPT ![f[1]] = NoFile] /\ files' = files /\ h5 \in [Chk -> File]
        /\ \A c \in Chk : h5'[c] = IF c = f[1] THEN NoFile ELSE h5[c]
    BY <1>2 DEF Unlink, DiskTypeOK
  <2>2. DiskTypeOK'  BY <1>1, <2>1 DEF DiskTypeOK
  <2>3. NoStrays'  BY <2>1 DEF NoStrays
  <2>4. RowsFewer  BY <1>1, <2>1 DEF RowsFewer, IsFile, Contents
  <2>5. LossOf(f)
    <3> SUFFICES ASSUME NEW c \in Chk, NEW row \in ClosedRows(c), row \notin ClosedRows(c)'
                 PROVE  row \in Contents(f).rows /\ IsFile(f)
      BY DEF LossOf
    <3>1. h5[c].st = "closed" /\ row \in h5[c].rows /\ c = f[1]  BY <2>1 DEF ClosedRows
    <3>2. f[2] \in 0 .. MaxRanks  BY <1>2, OutputAssumption DEF H5
    <3> QED BY <1>2, <3>1, <3>2 DEF Contents, IsFile
  <2> QED BY <2>2, <2>3, <2>4, <2>5
<1>3. CASE f[2] # H5
  <2>1. /\ files' = [files EXCEPT ![f[1]][f[2]] = NoFile] /\ h5' = h5
        /\ files \in [Chk -> [Rank -> File]]
    BY <1>3 DEF Unlink, DiskTypeOK
  <2>2. \A c \in Chk, q \in Rank :
          files'[c][q] = IF c = f[1] /\ q = f[2] THEN NoFile ELSE files[c][q]
    BY <2>1
  <2>3. files' \in [Chk -> [Rank -> File]]  BY <1>1, <2>1
  <2>4. DiskTypeOK'  BY <2>1, <2>3 DEF DiskTypeOK
  <2>5. NoStrays'  BY <1>1, <2>2 DEF NoStrays
  <2>6. ASSUME NEW g, IsFile(g)
        PROVE  Contents(g)'.rows \subseteq Contents(g).rows
    <3>1. CASE g[2] = H5  BY <2>1, <3>1 DEF Contents
    <3>2. CASE g[2] # H5
      <4>1. g[2] \in Rank /\ g[1] \in Chk  BY <2>6, <3>2, OutputAssumption DEF IsFile, H5, Rank
      <4> QED BY <1>1, <2>2, <3>2, <4>1 DEF Contents
    <3> QED BY <3>1, <3>2
  <2>7. RowsFewer  BY <2>6 DEF RowsFewer
  <2>8. LossOf(f)
    <3> SUFFICES ASSUME NEW c \in Chk, NEW row \in ClosedRows(c), row \notin ClosedRows(c)'
                 PROVE  row \in Contents(f).rows /\ IsFile(f)
      BY DEF LossOf
    <3>1. PICK q \in Rank : files[c][q].st = "closed" /\ row \in files[c][q].rows
      BY <2>1 DEF ClosedRows
    <3>2. c = f[1] /\ q = f[2]  BY <2>1, <2>2, <3>1 DEF ClosedRows
    <3>3. f[2] \in 0 .. MaxRanks  BY <3>2, OutputAssumption DEF Rank
    <3> QED BY <1>3, <3>1, <3>2, <3>3 DEF Contents, IsFile
  <2> QED BY <2>4, <2>5, <2>7, <2>8
<1> QED BY <1>2, <1>3

\* A directory without files takes nothing with it.
LEMMA RemoveEffect ==
  ASSUME DiskTypeOK, NoStrays, NEW c, RanksIn(c) = {}, RemoveDirectory(c)
  PROVE  DiskTypeOK' /\ NoStrays' /\ RowsFewer /\ RowsStay
<1>1. NoFile \in File /\ NoFile.st = "none" /\ NoFile.rows = {}  BY DEF NoFile, File, FileStatus
<1>2. /\ h5' = h5 /\ files \in [Chk -> [Rank -> File]] /\ hasDir \in [Chk -> BOOLEAN]
      /\ files' = [files EXCEPT ![c] = [r \in Rank |-> NoFile]]
      /\ hasDir' = [hasDir EXCEPT ![c] = FALSE]
  BY DEF RemoveDirectory, DiskTypeOK
<1>3. \A d \in Chk, q \in Rank :
        /\ files'[d][q] = IF d = c THEN NoFile ELSE files[d][q]
        /\ hasDir'[d] = IF d = c THEN FALSE ELSE hasDir[d]
  BY <1>2
<1>4. \A q \in Rank : files[c][q].st = "none"  BY DEF RanksIn
<1>5. files' \in [Chk -> [Rank -> File]] /\ hasDir' \in [Chk -> BOOLEAN]  BY <1>1, <1>2
<1>6. DiskTypeOK'  BY <1>2, <1>5 DEF DiskTypeOK
<1>7. NoStrays'  BY <1>1, <1>2, <1>3 DEF NoStrays
<1>8. ASSUME NEW g, IsFile(g)
      PROVE  Contents(g)'.rows \subseteq Contents(g).rows
  <2>1. CASE g[2] = H5  BY <1>2, <2>1 DEF Contents
  <2>2. CASE g[2] # H5
    <3>1. g[2] \in Rank /\ g[1] \in Chk  BY <1>8, <2>2, OutputAssumption DEF IsFile, H5, Rank
    <3> QED BY <1>1, <1>3, <2>2, <3>1 DEF Contents
  <2> QED BY <2>1, <2>2
<1>9. RowsStay  BY <1>2, <1>3, <1>4, RowsFrame
<1> QED BY <1>6, <1>7, <1>8, <1>9 DEF RowsFewer

-----------------------------------------------------------------------------
(* What the tool has learned.                                              *)

ToolPcs == {"idle", "find", "list", "check", "create", "copy", "verify", "link", "unlink", "rmdir"}

\* The first n of the files it found are in its output.
Consolidated(n, out) ==
  \A i \in 1 .. n : IsFile(Path(i)) => Contents(Path(i)).rows \subseteq out.rows

\* While the tool has files to see to, next is one of them.
ToolPlace ==
  /\ tool.pc \in ToolPcs
  /\ IsFiniteSet(tool.found)
  /\ tool.pc = "idle" => ~tool.cleanup
  /\ tool.pc = "list" => tool.next \in Chk
  /\ tool.pc \notin {"idle", "find", "list"} => tool.found # {} /\ tool.next \in 1 .. NFiles

\* Nobody writes when it is to clean up, so what it compared is still so when it
\* deletes.
ToolSure ==
  /\ tool.cleanup =>
       /\ ~Running
       /\ tool.pc = "verify" => Consolidated(tool.next - 1, tmp)
       /\ tool.pc = "link" => Consolidated(NFiles, tmp)
  /\ tool.pc \in {"unlink", "rmdir"} => tool.cleanup /\ Consolidated(NFiles, dest)

\* The tool and its files have what they should, and a name not taken no rows.
ToolRecords ==
  /\ DOMAIN tool = DOMAIN NoTool
  /\ DOMAIN tmp = DOMAIN NoOutput
  /\ dest.st = "none" => dest.rows = {}

ToolInv == ToolRecords /\ ToolPlace /\ ToolSure

-----------------------------------------------------------------------------
(* Its steps.                                                              *)

\* The tool gives up, or is done.
LEMMA ToolEnds ==
  ASSUME tool' = NoTool, DOMAIN tmp' = DOMAIN NoOutput, dest'.st = "none" => dest'.rows = {}
  PROVE  ToolInv'
<1>1. /\ NoTool.pc = "idle" /\ NoTool.cleanup = FALSE /\ NoTool.found = {}
      /\ IsFiniteSet({})
  BY FS_EmptySet DEF NoTool
<1>2. ToolPlace'  BY <1>1 DEF ToolPlace, ToolPcs
<1>3. ToolSure'  BY <1>1 DEF ToolSure
<1>4. ToolRecords'  BY DEF ToolRecords
<1> QED BY <1>2, <1>3, <1>4 DEF ToolInv

\* The finally clause takes the temporary file, and what was learned is void.
LEMMA ToolThrew ==
  ASSUME ToolInv, ToolThrows, dest' = dest
  PROVE  ToolInv'
BY ToolEnds DEF ToolThrows, ToolInv, ToolRecords

\* The files of a checkpoint are some of finitely many.
LEMMA FilesFinite ==
  ASSUME NEW c \in Chk
  PROVE  IsFiniteSet(RankFilesInDir(c)) /\ IsFiniteSet({<<c, H5>>})
<1>1. IsFiniteSet({c} \X (0 .. MaxRanks))
  <2>1. IsFiniteSet({c})  BY FS_Singleton
  <2>2. 0 \in Int /\ MaxRanks \in Int  BY OutputAssumption
  <2>3. IsFiniteSet(0 .. MaxRanks)  BY <2>2, FS_Interval
  <2> QED BY <2>1, <2>3, FS_Product
<1>2. RankFilesInDir(c) \subseteq {c} \X (0 .. MaxRanks)
  BY OutputAssumption DEF RankFilesInDir, RanksIn, Rank
<1>3. IsFiniteSet({<<c, H5>>})  BY FS_Singleton
<1> QED BY <1>1, <1>2, <1>3, FS_Subset

\* There is a first file.
LEMMA SomeFiles ==
  ASSUME IsFiniteSet(tool.found), tool.found # {}
  PROVE  NFiles \in Nat /\ 1 \in 1 .. NFiles
<1>1. NFiles \in Nat /\ NFiles # 0  BY FS_CardinalityType, FS_EmptySet DEF NFiles
<1> QED BY <1>1

\* The files of a checkpoint are taken.
LEMMA TakeKeeps ==
  ASSUME ToolInv, NEW c \in Chk, NEW found, IsFiniteSet(found), NEW merging, Take(c, found, merging),
         tool.pc \in {"find", "list"}, size' = size, tmp' = tmp, dest' = dest
  PROVE  ToolInv'
<1>1. /\ tool'.pc = "find" /\ tool'.cleanup = tool.cleanup /\ DOMAIN tool' = DOMAIN NoTool
      /\ tool'.found = {f \in tool.found : f[1] # c} \cup found
  BY DEF Take, ToolInv, ToolRecords, NoTool
<1>2. IsFiniteSet({f \in tool.found : f[1] # c})
  <2>1. IsFiniteSet(tool.found) /\ {f \in tool.found : f[1] # c} \subseteq tool.found
    BY DEF ToolInv, ToolPlace
  <2> QED BY <2>1, FS_Subset
<1>3. IsFiniteSet(tool'.found)
  <2>1. PICK others : others = {f \in tool.found : f[1] # c}  OBVIOUS
  <2>2. IsFiniteSet(others \cup found)  BY <1>2, <2>1, FS_Union
  <2> QED BY <1>1, <2>1, <2>2
<1>4. ToolPlace'  BY <1>1, <1>3 DEF ToolPlace, ToolPcs
<1>5. ToolSure'  BY <1>1 DEF ToolInv, ToolSure, Running
<1>6. ToolRecords'  BY <1>1 DEF ToolInv, ToolRecords
<1> QED BY <1>4, <1>5, <1>6 DEF ToolInv

\* The directory is listed, and one entry looked at after another.
LEMMA FindKeeps ==
  ASSUME ToolInv, \/ \E cleanup \in BOOLEAN : ToolStart(cleanup)
                  \/ \E e \in Chk \X {"h5", "dir"} : FindEntry(e) \/ SkipEntry(e)
                  \/ ListFiles
  PROVE  ToolInv'
<1>1. CASE \E cleanup \in BOOLEAN : ToolStart(cleanup)
  <2>1. PICK cleanup \in BOOLEAN : ToolStart(cleanup)  BY <1>1
  <2>2. /\ tool'.pc = "find" /\ tool'.cleanup = cleanup
        /\ tool'.found = {} /\ DOMAIN tool' = DOMAIN NoTool
    BY <2>1 DEF ToolStart, NoTool
  <2>3. /\ cleanup => ~Running
        /\ size' = size /\ tmp' = tmp /\ dest' = dest
    BY <2>1 DEF ToolStart, vars
  <2>4. ToolPlace'  BY <2>2, <2>3, FS_EmptySet DEF ToolPlace, ToolPcs
  <2>5. ToolSure'  BY <2>2, <2>3 DEF ToolSure, Running
  <2>6. ToolRecords'  BY <2>2, <2>3 DEF ToolInv, ToolRecords
  <2> QED BY <2>4, <2>5, <2>6 DEF ToolInv
<1>2. ASSUME NEW e \in Chk \X {"h5", "dir"}, FindEntry(e)
      PROVE  ToolInv'
  <2>1. e[1] \in Chk /\ tool.pc = "find" /\ size' = size /\ tmp' = tmp /\ dest' = dest
    BY <1>2 DEF FindEntry, vars
  <2>2. CASE HasH5(e[1])  BY <1>2, <2>1, <2>2, TakeKeeps, FilesFinite DEF FindEntry
  <2>3. CASE ~HasH5(e[1])
    <3>1. /\ tool'.pc = "list" /\ tool'.next = e[1] /\ tool'.found = tool.found
          /\ tool'.cleanup = tool.cleanup /\ DOMAIN tool' = DOMAIN NoTool
      BY <1>2, <2>3 DEF FindEntry, ToolInv, ToolRecords, NoTool
    <3>2. ToolPlace' /\ ToolSure' /\ ToolRecords'
      BY <2>1, <3>1 DEF ToolInv, ToolPlace, ToolSure, ToolRecords, ToolPcs, Running
    <3> QED BY <3>2 DEF ToolInv
  <2> QED BY <2>2, <2>3
<1>3. ASSUME NEW e \in Chk \X {"h5", "dir"}, SkipEntry(e)
      PROVE  ToolInv'
  <2>1. /\ tool.pc = "find" /\ tool'.pc = "find" /\ tool'.found = tool.found
        /\ tool'.cleanup = tool.cleanup /\ DOMAIN tool' = DOMAIN NoTool
        /\ size' = size /\ tmp' = tmp /\ dest' = dest
    BY <1>3 DEF SkipEntry, ToolInv, ToolRecords, NoTool, vars
  <2>2. ToolPlace' /\ ToolSure' /\ ToolRecords'
    BY <2>1 DEF ToolInv, ToolPlace, ToolSure, ToolRecords, ToolPcs, Running
  <2> QED BY <2>2 DEF ToolInv
<1>4. CASE ListFiles
  <2>1. tool.pc = "list" /\ tool.next \in Chk /\ size' = size /\ dest' = dest
    BY <1>4 DEF ListFiles, vars, ToolInv, ToolPlace
  <2>2. CASE RankFilesInDir(tool.next) = {}  BY <1>4, <2>1, <2>2, ToolThrew DEF ListFiles
  <2>3. CASE RankFilesInDir(tool.next) # {}
    <3>1. Take(tool.next, RankFilesInDir(tool.next), HasH5(tool.next)) /\ tmp' = tmp
      BY <1>4, <2>3 DEF ListFiles
    <3> QED BY <2>1, <3>1, TakeKeeps, FilesFinite
  <2> QED BY <2>2, <2>3
<1> QED BY <1>1, <1>2, <1>3, <1>4

\* The tool goes on with the files it has found.
LEMMA PlaceKept ==
  ASSUME ToolInv, tool.pc \notin {"idle", "find", "list"}, tool'.found = tool.found,
         tool'.pc \in ToolPcs \ {"idle", "find", "list"},
         \/ tool'.next \in {tool.next, 1}
         \/ tool.next # NFiles /\ tool'.next = tool.next + 1
  PROVE  ToolPlace' /\ NFiles' = NFiles /\ \A i : Path(i)' = Path(i)
<1>1. NFiles' = NFiles /\ \A i : Path(i)' = Path(i)  BY DEF NFiles, Path
<1>2. NFiles \in Nat /\ 1 \in 1 .. NFiles /\ tool.next \in 1 .. NFiles
  BY SomeFiles DEF ToolInv, ToolPlace
<1>3. tool'.next \in 1 .. NFiles  BY <1>2
<1>4. ToolPlace'  BY <1>1, <1>3 DEF ToolInv, ToolPlace
<1> QED BY <1>1, <1>4

\* It goes on to the next one, or to the next part of its work.
LEMMA AdvanceKeeps ==
  ASSUME ToolInv, tool.pc \notin {"idle", "find", "list"}, NEW then \in ToolPcs \ {"idle", "find", "list"},
         Advance(then)
  PROVE  /\ ToolPlace' /\ NFiles' = NFiles /\ \A i : Path(i)' = Path(i)
         /\ tool'.cleanup = tool.cleanup /\ DOMAIN tool' = DOMAIN NoTool
         /\ \/ tool'.pc = tool.pc /\ tool'.next = tool.next + 1
            \/ tool'.pc = then /\ tool'.next = 1 /\ tool.next = NFiles
<1>1. NFiles \in Nat /\ tool.next \in 1 .. NFiles  BY SomeFiles DEF ToolInv, ToolPlace
<1>2. CASE tool.next < NFiles
  <2>1. tool' = [tool EXCEPT !.next = tool.next + 1]  BY <1>2 DEF Advance
  <2>2. /\ tool'.found = tool.found /\ tool'.pc = tool.pc /\ tool'.next = tool.next + 1
        /\ tool'.cleanup = tool.cleanup /\ DOMAIN tool' = DOMAIN NoTool
    BY <2>1 DEF ToolInv, ToolRecords, NoTool
  <2>3. tool.pc \in ToolPcs /\ tool.next # NFiles  BY <1>1, <1>2 DEF ToolInv, ToolPlace
  <2> QED BY <2>2, <2>3, PlaceKept
<1>3. CASE ~(tool.next < NFiles)
  <2>1. tool' = [tool EXCEPT !.pc = then, !.next = 1] /\ tool.next = NFiles
    BY <1>1, <1>3 DEF Advance
  <2>2. /\ tool'.found = tool.found /\ tool'.pc = then /\ tool'.next = 1
        /\ tool'.cleanup = tool.cleanup /\ DOMAIN tool' = DOMAIN NoTool
    BY <2>1 DEF ToolInv, ToolRecords, NoTool
  <2> QED BY <2>1, <2>2, PlaceKept
<1> QED BY <1>2, <1>3

\* The files are found, checked and copied; the output is no surer for it.
LEMMA CopyKeeps ==
  ASSUME ToolInv, \/ Found \/ CheckFile \/ CreateOutput \/ CopyRows
  PROVE  ToolInv'
<1>1. size' = size /\ dest' = dest  BY DEF Found, CheckFile, CreateOutput, CopyRows, vars
<1>2. ASSUME ToolThrows
      PROVE  ToolInv'
  BY <1>1, <1>2, ToolThrew
<1>3. CASE Found
  <2>1. CASE tool.found = {} \/ dest.st # "none"  BY <1>2, <1>3, <2>1 DEF Found
  <2>2. CASE ~(tool.found = {} \/ dest.st # "none")
    <3>1. /\ tool' = [tool EXCEPT !.pc = "check", !.next = 1] /\ tmp' = tmp
          /\ tool.pc = "find" /\ tool.names = {}
      BY <1>3, <2>2 DEF Found
    <3>2. /\ tool'.pc = "check" /\ tool'.next = 1 /\ tool'.found = tool.found
          /\ tool'.cleanup = tool.cleanup /\ DOMAIN tool' = DOMAIN NoTool
      BY <3>1 DEF ToolInv, ToolRecords, NoTool
    <3>3. IsFiniteSet(tool.found) /\ tool.found # {}  BY <2>2 DEF ToolInv, ToolPlace
    <3>4. 1 \in 1 .. NFiles /\ NFiles' = NFiles  BY <3>2, <3>3, SomeFiles DEF NFiles
    <3>5. ToolPlace'  BY <3>2, <3>3, <3>4 DEF ToolPlace, ToolPcs
    <3>6. ToolSure'  BY <1>1, <3>2 DEF ToolInv, ToolSure, Running
    <3>7. ToolRecords'  BY <1>1, <3>1, <3>2 DEF ToolInv, ToolRecords
    <3> QED BY <3>5, <3>6, <3>7 DEF ToolInv
  <2> QED BY <2>1, <2>2
<1>4. CASE CheckFile
  <2>1. tool.pc = "check" /\ (ToolThrows \/ (Advance("create") /\ tmp' = tmp))
    BY <1>4 DEF CheckFile
  <2>2. ASSUME Advance("create"), tmp' = tmp
        PROVE  ToolInv'
    <3>1. /\ ToolPlace' /\ tool'.pc \in {"check", "create"}
          /\ tool'.cleanup = tool.cleanup /\ DOMAIN tool' = DOMAIN NoTool
      BY <2>1, <2>2, AdvanceKeeps DEF ToolPcs
    <3>2. ToolSure'  BY <1>1, <3>1 DEF ToolInv, ToolSure, Running
    <3> QED BY <1>1, <2>2, <3>1, <3>2 DEF ToolInv, ToolRecords
  <2> QED BY <1>2, <2>1, <2>2
<1>5. CASE CreateOutput
  <2>1. CASE ToolThrows  BY <1>2, <2>1
  <2>2. CASE ~ToolThrows
    <3>1. /\ tool.pc = "create" /\ tool' = [tool EXCEPT !.pc = "copy"]
          /\ \E tc : tmp' = [NoOutput EXCEPT !.st = "open", !.tc = tc,
                                             !.whole = tool.whole, !.counted = tool.counted]
      BY <1>5, <2>2 DEF CreateOutput
    <3>2. /\ tool'.pc = "copy" /\ tool'.next = tool.next /\ tool'.found = tool.found
          /\ tool'.cleanup = tool.cleanup /\ DOMAIN tool' = DOMAIN NoTool
      BY <3>1 DEF ToolInv, ToolRecords, NoTool
    <3>3. DOMAIN tmp' = DOMAIN NoOutput  BY <3>1 DEF NoOutput
    <3>4. ToolPlace'  BY <3>1, <3>2, PlaceKept DEF ToolPcs
    <3>5. ToolSure'  BY <1>1, <3>2 DEF ToolInv, ToolSure, Running
    <3> QED BY <1>1, <3>2, <3>3, <3>4, <3>5 DEF ToolInv, ToolRecords
  <2> QED BY <2>1, <2>2
<1>6. CASE CopyRows
  <2>1. CASE ToolThrows  BY <1>2, <2>1
  <2>2. CASE ~ToolThrows
    <3>1. /\ tool.pc = "copy" /\ Advance("verify")
          /\ \E rows, n, done : tmp' = [tmp EXCEPT !.rows = rows, !.n = n, !.done = done]
      BY <1>6, <2>2 DEF CopyRows
    <3>2. DOMAIN tmp' = DOMAIN NoOutput  BY <3>1 DEF ToolInv, ToolRecords
    <3>3. /\ ToolPlace' /\ tool'.cleanup = tool.cleanup /\ DOMAIN tool' = DOMAIN NoTool
          /\ tool'.pc \in {"copy", "verify"}
          /\ tool'.pc = "verify" => tool'.next = 1
      BY <3>1, AdvanceKeeps DEF ToolPcs
    <3>4. ToolSure'
      <4> SUFFICES ASSUME tool'.cleanup, tool'.pc = "verify"
                   PROVE  Consolidated(tool.next - 1, tmp)'
        BY <1>1, <3>3 DEF ToolInv, ToolSure, Running
      <4> QED BY <3>3 DEF Consolidated
    <3> QED BY <1>1, <3>2, <3>3, <3>4 DEF ToolInv, ToolRecords
  <2> QED BY <2>1, <2>2
<1> QED BY <1>3, <1>4, <1>5, <1>6

\* What the output has of the files found, it has when some are deleted.
LEMMA ConsolidatedKept ==
  ASSUME tool'.found = tool.found, RowsFewer, NEW n, Consolidated(n, dest), dest' = dest
  PROVE  Consolidated(n, dest)'
BY DEF Consolidated, RowsFewer, Path

\* Every file it compares with its output is there in full.
LEMMA VerifyKeeps ==
  ASSUME ToolInv, VerifyRows
  PROVE  ToolInv'
<1>1. /\ tool.pc = "verify" /\ size' = size /\ dest' = dest /\ files' = files /\ h5' = h5
      /\ \/ ToolThrows
         \/ /\ Contents(Path(tool.next)).rows \subseteq tmp.rows
            /\ Advance("link") /\ tmp' = tmp
  BY DEF VerifyRows, vars, disk
<1>2. CASE ToolThrows  BY <1>1, <1>2, ToolThrew
<1>3. CASE /\ Contents(Path(tool.next)).rows \subseteq tmp.rows
           /\ Advance("link") /\ tmp' = tmp
  <2>1. /\ ToolPlace' /\ NFiles' = NFiles /\ \A i : Path(i)' = Path(i)
        /\ tool'.cleanup = tool.cleanup /\ DOMAIN tool' = DOMAIN NoTool
        /\ \/ tool'.pc = "verify" /\ tool'.next = tool.next + 1
           \/ tool'.pc = "link" /\ tool.next = NFiles
    BY <1>1, <1>3, AdvanceKeeps DEF ToolPcs
  <2>2. \A i : Contents(Path(i))' = Contents(Path(i))  BY <1>1, <2>1 DEF Contents
  <2>3. NFiles \in Nat /\ tool.next \in 1 .. NFiles  BY <1>1, SomeFiles DEF ToolInv, ToolPlace
  <2>4. ToolSure'
    <3> SUFFICES ASSUME tool.cleanup
                 PROVE  /\ ~Running
                        /\ tool'.pc = "verify" => Consolidated(tool.next - 1, tmp)'
                        /\ tool'.pc = "link" => Consolidated(NFiles, tmp)'
      BY <1>1, <2>1 DEF ToolSure, Running
    <3>1. ~Running /\ Consolidated(tool.next - 1, tmp)  BY <1>1 DEF ToolInv, ToolSure
    <3>2. \A i \in 1 .. tool.next : IsFile(Path(i)) => Contents(Path(i)).rows \subseteq tmp.rows
      <4>1. \A i \in 1 .. tool.next : i = tool.next \/ i \in 1 .. tool.next - 1  BY <2>3
      <4> QED BY <1>3, <3>1, <4>1 DEF Consolidated
    <3>3. tool'.pc = "verify" => tool'.next - 1 = tool.next  BY <2>1, <2>3
    <3> QED BY <1>3, <2>1, <2>2, <3>1, <3>2, <3>3 DEF Consolidated, IsFile
  <2> QED BY <1>1, <1>3, <2>1, <2>4 DEF ToolInv, ToolRecords
<1> QED BY <1>1, <1>2, <1>3

\* The output gets its name, all of it or not at all.
LEMMA LinkKeeps ==
  ASSUME ToolInv, Link
  PROVE  ToolInv' /\ dest.rows \subseteq dest'.rows
<1>1. tool.pc = "link" /\ size' = size /\ files' = files /\ h5' = h5  BY DEF Link, vars, disk
<1>2. CASE dest.st # "none"  BY <1>2, ToolThrew DEF Link
<1>3. CASE dest.st = "none"
  <2>1. /\ dest' = [tmp EXCEPT !.st = "closed"] /\ tmp' = NoOutput
        /\ tool' = IF tool.cleanup THEN [tool EXCEPT !.pc = "unlink"] ELSE NoTool
    BY <1>3 DEF Link
  <2>2. dest'.rows = tmp.rows /\ dest'.st = "closed" /\ dest.rows = {}
    BY <1>3, <2>1 DEF ToolInv, ToolRecords, NoOutput
  <2>3. CASE ~tool.cleanup  BY <2>1, <2>2, <2>3, ToolEnds
  <2>4. CASE tool.cleanup
    <3>1. /\ tool'.pc = "unlink" /\ tool'.next = tool.next /\ tool'.found = tool.found
          /\ tool'.cleanup = tool.cleanup /\ DOMAIN tool' = DOMAIN NoTool
      BY <2>1, <2>4 DEF ToolInv, ToolRecords, NoTool
    <3>2. ToolPlace' /\ NFiles' = NFiles /\ \A i : Path(i)' = Path(i)
      BY <1>1, <3>1, PlaceKept DEF ToolPcs
    <3>3. \A i : Contents(Path(i))' = Contents(Path(i))  BY <1>1, <3>2 DEF Contents
    <3>4. ~Running /\ Consolidated(NFiles, tmp)  BY <1>1, <2>4 DEF ToolInv, ToolSure
    <3>5. Consolidated(NFiles, dest)'  BY <2>2, <3>2, <3>3, <3>4 DEF Consolidated, IsFile
    <3>6. ToolSure'  BY <1>1, <2>4, <3>1, <3>4, <3>5 DEF ToolSure, Running
    <3> QED BY <2>1, <2>2, <3>1, <3>2, <3>6 DEF ToolInv, ToolRecords
  <2> QED BY <2>2, <2>3, <2>4
<1> QED BY <1>2, <1>3

\* After a file is deleted: the next, or the directory.
LEMMA RemovalKeeps ==
  ASSUME ToolInv, tool.pc \in {"unlink", "rmdir"}, RowsFewer,
         UNCHANGED <<size, tmp, dest>>,
         tool' = NoTool \/ tool' = [tool EXCEPT !.pc = "rmdir"] \/ AfterRemoval
  PROVE  ToolInv'
<1>1. CASE tool' = NoTool  BY <1>1, ToolEnds DEF ToolInv, ToolRecords
<1>2. CASE tool' # NoTool
  <2>1. \/ tool' = [tool EXCEPT !.pc = "rmdir"]
        \/ tool.next # NFiles /\ tool' = [tool EXCEPT !.pc = "unlink", !.next = tool.next + 1]
    BY <1>2 DEF AfterRemoval
  <2>2. /\ tool'.pc \in {"unlink", "rmdir"} /\ tool'.found = tool.found
        /\ tool'.next = tool.next \/ (tool.next # NFiles /\ tool'.next = tool.next + 1)
        /\ tool'.cleanup = tool.cleanup /\ DOMAIN tool' = DOMAIN NoTool
    BY <2>1 DEF ToolInv, ToolRecords, NoTool
  <2>3. ToolPlace' /\ NFiles' = NFiles  BY <2>2, PlaceKept DEF ToolPcs
  <2>4. ToolSure'  BY <2>2, <2>3, ConsolidatedKept DEF ToolInv, ToolSure, Running
  <2> QED BY <2>2, <2>3, <2>4 DEF ToolInv, ToolRecords
<1> QED BY <1>1, <1>2

\* What is deleted is in the output.
LEMMA DeletedSafe ==
  ASSUME ToolInv, tool.pc \in {"unlink", "rmdir"}, dest' = dest, LossOf(Path(tool.next))
  PROVE  SafeRows \subseteq SafeRows'
<1> DEFINE f == Path(tool.next)
<1>1. IsFile(f) => Contents(f).rows \subseteq dest.rows
  BY DEF ToolInv, ToolPlace, ToolSure, Consolidated
<1>2. ASSUME NEW c \in Chk, NEW row \in ClosedRows(c)
      PROVE  row \in SafeRows'
  <2>1. row \in ClosedRows(c)' \/ row \in {x \in Contents(f).rows : IsFile(f)}  BY <1>2 DEF LossOf
  <2> QED BY <1>1, <2>1 DEF SafeRows
<1> QED BY <1>2 DEF SafeRows

\* No checkpoint loses a row of a closed file, and neither does the output.
LEMMA RowsStaySafe ==
  ASSUME RowsStay, dest.rows \subseteq dest'.rows
  PROVE  SafeRows \subseteq SafeRows'
BY DEF RowsStay, SafeRows

\* Deleting a file, and then its directory.
LEMMA CleanupKeeps ==
  ASSUME RunInv, ToolInv, UnlinkFile \/ RemoveDir
  PROVE  RunInv' /\ ToolInv' /\ SafeRows \subseteq SafeRows'
<1>1. /\ tool.pc \in {"unlink", "rmdir"} /\ tmp' = tmp /\ dest' = dest
      /\ RunUnchanged' = RunUnchanged /\ size' = size
  BY DEF UnlinkFile, RemoveDir, RunUnchanged
<1>2. ~Running /\ DiskTypeOK /\ NoStrays
  BY <1>1 DEF ToolInv, ToolSure, RunInv, IInv, TypeOK, FilesInv
<1>3. ASSUME UNCHANGED disk
      PROVE  DiskTypeOK' /\ NoStrays' /\ RowsFewer /\ RowsStay
  BY <1>2, <1>3 DEF disk, DiskTypeOK, NoStrays, RowsFewer, Contents, RowsStay, ClosedRows
<1>4. CASE UnlinkFile
  <2>1. CASE Gone(Path(tool.next))
    <3>1. tool' = NoTool /\ UNCHANGED disk  BY <1>4, <2>1 DEF UnlinkFile
    <3> QED BY <1>1, <1>2, <1>3, <3>1, IdleKeeps, RemovalKeeps, RowsStaySafe
  <2>2. CASE ~Gone(Path(tool.next))
    <3>1. /\ Unlink(Path(tool.next)) /\ hasDir' = hasDir
          /\ tool' = [tool EXCEPT !.pc = "rmdir"] \/ AfterRemoval
      BY <1>4, <2>2 DEF UnlinkFile
    <3>2. DiskTypeOK' /\ NoStrays' /\ RowsFewer /\ LossOf(Path(tool.next))
      BY <1>2, <3>1, UnlinkEffect
    <3> QED BY <1>1, <1>2, <3>1, <3>2, IdleKeeps, RemovalKeeps, DeletedSafe
  <2> QED BY <2>1, <2>2
<1>5. CASE RemoveDir
  <2>1. /\ AfterRemoval
        /\ \/ UNCHANGED disk
           \/ \E c : RanksIn(c) = {} /\ RemoveDirectory(c)
    BY <1>5 DEF RemoveDir, DirectoryRemoved
  <2>2. DiskTypeOK' /\ NoStrays' /\ RowsFewer /\ RowsStay  BY <1>2, <1>3, <2>1, RemoveEffect
  <2> QED BY <1>1, <1>2, <2>1, <2>2, IdleKeeps, RemovalKeeps, RowsStaySafe
<1> QED BY <1>4, <1>5

\* While the run goes on, the tool does nothing that could do harm.
LEMMA RunStepKeeps ==
  ASSUME RunInv, ToolInv, RunStep
  PROVE  RunInv' /\ ToolInv' /\ (DeleteUnreadable \/ SafeRows \subseteq SafeRows')
<1>1. Next /\ tool' = tool /\ tmp' = tmp /\ dest' = dest /\ ~tool.cleanup
  BY DEF RunStep, toolVars, ToolInv, ToolSure
<1>2. RunInv'  BY <1>1, RunKeeps
<1>3. ToolRecords' /\ ToolSure'  BY <1>1 DEF ToolInv, ToolRecords, ToolSure
<1>4. ToolPlace'  BY <1>1 DEF ToolInv, ToolPlace, NFiles
<1>5. DeleteUnreadable \/ RowsStay  BY <1>1, RowsStep DEF RunInv
<1> QED BY <1>1, <1>2, <1>3, <1>4, <1>5, RowsStaySafe DEF ToolInv

\* The tool looks for files, copies and compares them, and the disk stays as it is.
LEMMA QuietKeeps ==
  ASSUME RunInv, ToolInv, ToolStep, ~UnlinkFile, ~RemoveDir
  PROVE  RunInv' /\ ToolInv' /\ SafeRows \subseteq SafeRows'
<1>1. UNCHANGED vars
  BY DEF ToolStep, ToolStart, FindEntry, SkipEntry, ListFiles, Take, Found, CheckFile, CreateOutput,
         CopyRows, VerifyRows, Link, ToolKilled
<1>2. RunInv'  BY <1>1, RunKeeps
<1>3. ASSUME Link
      PROVE  ToolInv'
  BY <1>3, LinkKeeps
<1>4. ASSUME ~Link
      PROVE  ToolInv'
  <2>1. dest' = dest
    BY <1>4
    DEF ToolStep, ToolStart, FindEntry, SkipEntry, ListFiles, Take, Found, CheckFile, CreateOutput,
        CopyRows, VerifyRows, ToolKilled
  <2>2. CASE ToolThrows  BY <2>1, <2>2, ToolThrew
  <2>3. CASE ~ToolThrows  BY <1>4, <2>3, FindKeeps, CopyKeeps, VerifyKeeps DEF ToolStep, ToolKilled
  <2> QED BY <2>1, <2>2, <2>3
<1>5. dest.rows \subseteq dest'.rows
  <2>1. ASSUME ~Link
        PROVE  dest' = dest
    BY <2>1
    DEF ToolStep, ToolStart, FindEntry, SkipEntry, ListFiles, Take, Found, CheckFile, CreateOutput,
        CopyRows, VerifyRows, ToolKilled
  <2> QED BY <2>1, LinkKeeps
<1>6. RowsStay  BY <1>1 DEF RowsStay, ClosedRows, vars, disk
<1> QED BY <1>2, <1>3, <1>4, <1>5, <1>6, RowsStaySafe

-----------------------------------------------------------------------------
(* The tool cleans up safely.                                              *)

\* Run and tool begin in their invariants ...
LEMMA InitTool == Init /\ ToolInit => RunInv /\ ToolInv
<1> SUFFICES ASSUME Init, ToolInit
             PROVE  RunInv /\ ToolInv
  OBVIOUS
<1>1. RunInv  BY InitDisk, FreeNames DEF DiskInv, RunInv, DirInv, FilesInv
<1>2. /\ tool = NoTool /\ tmp = NoOutput /\ dest.rows = {}
      /\ NoTool.pc = "idle" /\ NoTool.cleanup = FALSE /\ NoTool.found = {}
      /\ IsFiniteSet({})
  BY FS_EmptySet DEF ToolInit, NoTool, NoOutput
<1>3. ToolInv  BY <1>2 DEF ToolInv, ToolRecords, ToolPlace, ToolSure, ToolPcs
<1> QED BY <1>1, <1>3

\* ... and no step of either leaves them, or loses a row.
LEMMA NextTool ==
  ASSUME RunInv, ToolInv, [ToolNext]_allVars
  PROVE  /\ RunInv' /\ ToolInv'
         /\ [DeleteUnreadable \/ SafeRows \subseteq SafeRows']_allVars
<1>1. CASE ToolNext  BY <1>1, RunStepKeeps, QuietKeeps, CleanupKeeps DEF ToolNext
<1>2. CASE UNCHANGED allVars
  <2>1. UNCHANGED vars /\ UNCHANGED <<tool, tmp, dest>>  BY <1>2 DEF allVars, toolVars
  <2>2. RunInv'  BY <2>1, RunKeeps
  <2>3. size' = size /\ files' = files /\ h5' = h5  BY <2>1 DEF vars, disk
  <2>4. ToolRecords' /\ ToolPlace'  BY <2>1 DEF ToolInv, ToolRecords, ToolPlace, NFiles
  <2>5. ToolSure'
    BY <2>1, <2>3 DEF ToolInv, ToolSure, Consolidated, IsFile, Path, Contents, NFiles, Running
  <2> QED BY <1>2, <2>2, <2>4, <2>5 DEF ToolInv
<1> QED BY <1>1, <1>2

\* What the run knows of its checkpoints is so although the tool deletes some.
THEOREM ToolInductive == ToolSpec => [](RunInv /\ ToolInv)
BY InitTool, NextTool, PTL DEF ToolSpec

\* A row that was in a properly closed file stays in one, in a checkpoint or in
\* the output of consolidate_checkpoints, wherever the run or the tool dies.
THEOREM CleanupSafe == ToolSpec => NothingLost
BY InitTool, NextTool, PTL DEF ToolSpec, NothingLost
=============================================================================
