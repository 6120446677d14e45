--------------------------- MODULE CheckpointedRun ---------------------------
(***************************************************************************)
(* A run of slug, as the sequence of sessions (invocations) it takes:      *)
(* SimCluster::run / SimGalaxy::run and main on every MPI rank, the        *)
(* worker threads inside a rank, OutputManagerH5 constructing, rolling     *)
(* over and destroying its checkpoints, SIGTERM, failing trials, crashes,  *)
(* and the user restarting with the same or another number of ranks.       *)
(*                                                                         *)
(* Ranks only synchronise in MPI collectives.  A rank that reaches one     *)
(* waits until every rank of the session is in one of the same kind: a     *)
(* barrier, the reduction of the SIGTERM flags, or MPI_Finalize.           *)
(***************************************************************************)
EXTENDS OutputManagerH5, MPIUtils

CONSTANTS
  NTrial,       \* n_trial of the input deck
  Interval,     \* checkpoint_interval; 0 turns checkpoints off
  Consolidate,  \* output mode h5, which merges a checkpoint's files at the end
  Thread,       \* the OpenMP threads of a rank
  RankCounts,   \* bound: the rank counts a session may be launched with
  MaxSessions,  \* bound: how often the run is launched
  Faults        \* bound: which of "crash", "sigterm", "error" may happen

ASSUME RunAssumption ==
  /\ NTrial \in Nat
  /\ Interval \in Nat
  /\ Consolidate \in BOOLEAN
  /\ RankCounts \subseteq 1 .. MaxRanks
  /\ MaxSessions \in Nat
  /\ Faults \subseteq {"crash", "sigterm", "error"}

VARIABLES
  sessions,    \* sessions launched so far
  size,        \* ranks of the running session, 0 between sessions
  restart,     \* the session was launched with --restart
  outcome,     \* how the last session ended
  pc,          \* pc[r]: where rank r is
  inRun,       \* inRun[r]: r has entered run(), its output files open
  exit,        \* exit[r]: how run() ended on r, "none" while it goes on
  prior,       \* prior[r]: priorTrialsCompleted
  restartMax,  \* restartMax[r]: restartMaxTrial()
  chkNum,      \* chkNum[r]: checkpointNumber_
  batchStart,  \* batchStart[r]: first trial of the current batch
  nextTrial,   \* nextTrial[r]: first trial of r's slice not yet handed out
  task,        \* task[r][t]: the trial thread t of r is working on
  count,       \* count[r]: trialsCompleted_
  maxTrial,    \* maxTrial[r]: maxTrial_
  nextUid,     \* nextUid[r]: uniqueID()
  sigterm,     \* sigterm[r]: sigtermReceived
  vote,        \* vote[r]: what r put into the reduction
  failed,      \* failed[r]: firstError is set
  sync,        \* rank 0 in syncCheckpoints: totals so far, next rank's file
  merge        \* rank 0 in the destructor: checkpoint and last rank merged

sessionVars == <<sessions, size, restart, outcome>>
trialVars == <<batchStart, nextTrial, task, count, maxTrial, nextUid>>
signalVars == <<sigterm, vote, failed>>
setupVars == <<prior, restartMax, chkNum>>
rootVars == <<sync, merge>>
vars == <<sessionVars, pc, inRun, exit, setupVars, trialVars, signalVars, rootVars, disk>>

Idle == [st |-> "idle", trial |-> 0, uid |-> 0]
Task == [st : {"idle", "begun", "written"}, trial : Nat, uid : Nat]

NoSync == [tc |-> 0, mx |-> 0, next |-> 0]
NoMerge == [chk |-> 0, last |-> MaxRanks]   \* MaxRanks: nothing copied yet

BarrierPcs == {"open_checked", "dir_made", "closed", "synced"}
CollectivePcs == BarrierPcs \cup {"reduce", "finalize"}
LocalPcs == {"setup", "open_check", "make_dir", "open_files", "batch",
             "close", "sync_read", "sync_write", "merge"}

Active == 0 .. size - 1
Running == size # 0

-----------------------------------------------------------------------------
(* Trial numbers: prior counts trials, restartMax is a number.             *)

\* Seeded fault: new trials are numbered from the count of those done.
NumberingStartFromCount(r) == prior[r]

NumberingStart(r) == IF restart THEN restartMax[r] + 1 ELSE 0

\* Seeded fault: a restart does all of n_trial again.
TrialsRemainingAll(r) == NTrial

TrialsRemaining(r) == IF prior[r] < NTrial THEN NTrial - prior[r] ELSE 0

NumberingEnd(r) == NumberingStart(r) + TrialsRemaining(r)

BatchSize(r) == IF Interval # 0 THEN Interval ELSE TrialsRemaining(r)

BatchEnd(r) == Lesser(batchStart[r] + BatchSize(r), NumberingEnd(r))

SliceFirst(r, first, last) == RankFirst(r, size, first, last)
SliceLast(r) == RankLast(r, size, batchStart[r], BatchEnd(r))

\* What checkpoint(), or notifyEarlyTermination() before the destructor, is
\* told: a global number of old trials plus this rank's own new ones.
TrialsCompleted(r) == prior[r] + count[r]

-----------------------------------------------------------------------------
(* Launching a session, and its constructor on each rank.                  *)

Init ==
  /\ sessions = 0 /\ size = 0 /\ restart = FALSE /\ outcome = "none"
  /\ pc = [r \in Rank |-> "idle"]
  /\ inRun = [r \in Rank |-> FALSE]
  /\ exit = [r \in Rank |-> "none"]
  /\ prior = [r \in Rank |-> 0]
  /\ restartMax = [r \in Rank |-> 0]
  /\ chkNum = [r \in Rank |-> 0]
  /\ batchStart = [r \in Rank |-> 0]
  /\ nextTrial = [r \in Rank |-> 0]
  /\ task = [r \in Rank |-> [t \in Thread |-> Idle]]
  /\ count = [r \in Rank |-> 0]
  /\ maxTrial = [r \in Rank |-> 0]
  /\ nextUid = [r \in Rank |-> 0]
  /\ sigterm = [r \in Rank |-> FALSE]
  /\ vote = [r \in Rank |-> FALSE]
  /\ failed = [r \in Rank |-> FALSE]
  /\ sync = NoSync
  /\ merge = NoMerge
  /\ DiskInit

Launch(n, again) ==
  /\ ~Running
  /\ sessions < MaxSessions
  /\ sessions' = sessions + 1
  /\ size' = n
  /\ restart' = again
  /\ outcome' = "none"
  /\ pc' = [r \in Rank |-> IF r < n THEN "setup" ELSE "idle"]
  /\ UNCHANGED <<inRun, exit, setupVars, trialVars, signalVars, rootVars, disk>>

\* The constructor throws on r: main returns 1 and r goes on to MPI_Finalize.
ConstructorThrows(r) ==
  /\ pc' = [pc EXCEPT ![r] = "finalize"]
  /\ exit' = [exit EXCEPT ![r] = "error"]

SetupRefused(r) ==
  restart /\ \/ Interval = 0
             \/ FoundCheckpoints # {} /\ \/ ~Readable(MaxCheckpoint)
                                         \/ UidRefused(r, size)

\* The constructor of OutputManagerH5 up to openNewOutputFiles().
SetupThrows(r) ==
  /\ pc[r] = "setup"
  /\ SetupRefused(r)
  /\ ConstructorThrows(r)
  /\ UNCHANGED <<sessionVars, inRun, setupVars, trialVars, signalVars, rootVars, disk>>

SetupFresh(r) ==
  /\ pc[r] = "setup"
  /\ ~SetupRefused(r)
  /\ ~restart \/ FoundCheckpoints = {}
  /\ nextUid' = [nextUid EXCEPT ![r] = FirstUid(r)]
  /\ pc' = [pc EXCEPT ![r] = "open_check"]
  /\ UNCHANGED <<sessionVars, inRun, exit, setupVars, batchStart, nextTrial, task, count,
                 maxTrial, signalVars, rootVars, disk>>

SetupRestart(r) ==
  /\ pc[r] = "setup"
  /\ restart /\ FoundCheckpoints # {}
  /\ ~SetupRefused(r)
  /\ MaxCheckpoint < MaxChk
  /\ prior' = [prior EXCEPT ![r] = RestartTrialsDone(MaxCheckpoint)]
  /\ restartMax' = [restartMax EXCEPT ![r] = RestartMaxTrial(MaxCheckpoint)]
  /\ maxTrial' = [maxTrial EXCEPT ![r] = RestartMaxTrial(MaxCheckpoint)]
  /\ chkNum' = [chkNum EXCEPT ![r] = MaxCheckpoint + 1]
  /\ nextUid' = [nextUid EXCEPT ![r] = RestartUid(r)]
  /\ pc' = [pc EXCEPT ![r] = "open_check"]
  /\ UNCHANGED <<sessionVars, inRun, exit, batchStart, nextTrial, task, count, signalVars,
                 rootVars, disk>>

-----------------------------------------------------------------------------
(* openNewOutputFiles: check, barrier, rank 0 makes the directory, barrier, *)
(* every rank opens its files.                                             *)

OpenThrows(r) ==
  /\ pc[r] = "open_check"
  /\ Exists(chkNum[r])
  /\ ConstructorThrows(r)
  /\ UNCHANGED <<sessionVars, inRun, setupVars, trialVars, signalVars, rootVars, disk>>

OpenCheck(r) ==
  /\ pc[r] = "open_check"
  /\ ~Exists(chkNum[r])
  /\ pc' = [pc EXCEPT ![r] = "open_checked"]
  /\ UNCHANGED <<sessionVars, inRun, exit, setupVars, trialVars, signalVars, rootVars, disk>>

MakeDir(r) ==
  /\ pc[r] = "make_dir"
  /\ CreateDirectory(chkNum[r])
  /\ pc' = [pc EXCEPT ![r] = "dir_made"]
  /\ UNCHANGED <<sessionVars, inRun, exit, setupVars, trialVars, signalVars, rootVars>>

\* The loop head: the batch that starts at trial first, or the end of run().
EnterBatch(r, first) ==
  IF first < NumberingEnd(r)
  THEN /\ pc' = [pc EXCEPT ![r] = "batch"]
       /\ batchStart' = [batchStart EXCEPT ![r] = first]
       /\ nextTrial' = [nextTrial EXCEPT ![r] =
             SliceFirst(r, first, Lesser(first + BatchSize(r), NumberingEnd(r)))]
       /\ UNCHANGED exit
  ELSE /\ pc' = [pc EXCEPT ![r] = "close"]
       /\ exit' = [exit EXCEPT ![r] = "done"]
       /\ UNCHANGED <<batchStart, nextTrial>>

\* The files are open: run() begins, or goes on after checkpoint().
OpenFiles(r) ==
  /\ pc[r] = "open_files"
  /\ OpenOutputFile(chkNum[r], r)
  /\ inRun' = [inRun EXCEPT ![r] = TRUE]
  /\ EnterBatch(r, IF inRun[r] THEN batchStart[r] + BatchSize(r) ELSE NumberingStart(r))
  /\ UNCHANGED <<sessionVars, setupVars, task, count, maxTrial, nextUid, signalVars,
                 rootVars>>

-----------------------------------------------------------------------------
(* A batch: the threads of a rank take the trials of its slice in order.   *)

TaskUnchanged == <<sessionVars, pc, inRun, exit, setupVars, batchStart>>

\* runTrial on a free thread.  A caught SIGTERM turns it into a no-op.
SkipTrial(r, t) ==
  /\ pc[r] = "batch"
  /\ task[r][t].st = "idle"
  /\ nextTrial[r] < SliceLast(r)
  /\ sigterm[r]
  /\ nextTrial' = [nextTrial EXCEPT ![r] = @ + 1]
  /\ UNCHANGED <<TaskUnchanged, task, count, maxTrial, nextUid, signalVars, rootVars, disk>>

BeginTrial(r, t) ==
  /\ pc[r] = "batch"
  /\ task[r][t].st = "idle"
  /\ nextTrial[r] < SliceLast(r)
  /\ ~sigterm[r]
  /\ nextTrial' = [nextTrial EXCEPT ![r] = @ + 1]
  /\ task' = [task EXCEPT ![r][t] =
                [st |-> "begun", trial |-> nextTrial[r], uid |-> nextUid[r]]]
  /\ nextUid' = [nextUid EXCEPT ![r] = @ + 1]
  /\ UNCHANGED <<TaskUnchanged, count, maxTrial, signalVars, rootVars, disk>>

\* Seeded fault: the highest trial number written is not kept up to date.
MaxTrialStale(r, trial) == maxTrial[r]

\* maxTrial_ after a row of the trial is written.
MaxTrialAfter(r, trial) == IF maxTrial[r] < trial THEN trial ELSE maxTrial[r]

WriteTrial(r, t) ==
  /\ task[r][t].st = "begun"
  /\ WriteCluster(chkNum[r], r, [trial |-> task[r][t].trial, uid |-> task[r][t].uid])
  /\ maxTrial' = [maxTrial EXCEPT ![r] = MaxTrialAfter(r, task[r][t].trial)]
  /\ task' = [task EXCEPT ![r][t].st = "written"]
  /\ UNCHANGED <<TaskUnchanged, nextTrial, count, nextUid, signalVars, rootVars>>

FinishTrial(r, t) ==
  /\ task[r][t].st = "written"
  /\ count' = [count EXCEPT ![r] = @ + 1]
  /\ NoteDone(chkNum[r], r, task[r][t].trial)
  /\ task' = [task EXCEPT ![r][t] = Idle]
  /\ UNCHANGED <<TaskUnchanged, nextTrial, maxTrial, nextUid, signalVars, rootVars>>

\* The trial throws, before or after its first row is written.
FailTrial(r, t) ==
  /\ "error" \in Faults
  /\ task[r][t].st # "idle"
  /\ failed' = [failed EXCEPT ![r] = TRUE]
  /\ task' = [task EXCEPT ![r][t] = Idle]
  /\ UNCHANGED <<TaskUnchanged, nextTrial, count, maxTrial, nextUid, sigterm, vote,
                 rootVars, disk>>

SigtermArrives(r) ==
  /\ "sigterm" \in Faults
  /\ inRun[r] /\ exit[r] = "none" /\ ~sigterm[r]
  /\ sigterm' = [sigterm EXCEPT ![r] = TRUE]
  /\ UNCHANGED <<sessionVars, pc, inRun, exit, setupVars, trialVars, vote, failed,
                 rootVars, disk>>

\* Seeded fault: the loop does not wait for the trials other threads are still
\* working on.
BatchOverNoJoin(r) == pc[r] = "batch" /\ nextTrial[r] >= SliceLast(r)

\* The end of the parallel loop.
BatchOver(r) ==
  /\ pc[r] = "batch"
  /\ nextTrial[r] >= SliceLast(r)
  /\ \A t \in Thread : task[r][t].st = "idle"

BatchFailed(r) ==
  /\ BatchOver(r)
  /\ failed[r]
  /\ pc' = [pc EXCEPT ![r] = "close"]
  /\ exit' = [exit EXCEPT ![r] = "error"]
  /\ UNCHANGED <<sessionVars, inRun, setupVars, trialVars, signalVars, rootVars, disk>>

BatchDone(r) ==
  /\ BatchOver(r)
  /\ ~failed[r]
  /\ vote' = [vote EXCEPT ![r] = sigterm[r]]
  /\ pc' = [pc EXCEPT ![r] = "reduce"]
  /\ UNCHANGED <<sessionVars, inRun, exit, setupVars, trialVars, sigterm, failed, rootVars,
                 disk>>

-----------------------------------------------------------------------------
(* Collectives.                                                            *)

\* Seeded fault: each rank decides from its own flag.
SigtermAgreedLocal(r) == vote[r]

\* mpiAllReceivedSigterm.
SigtermAgreed(r) == \E q \in Active : vote[q]

LastBatch(r) == BatchEnd(r) >= NumberingEnd(r)

\* What rank r does with the result: stop, finish, or roll over.  (There is a
\* next batch only if there is a checkpoint between.)
Reduce ==
  /\ Running
  /\ \A r \in Active : pc[r] = "reduce"
  /\ pc' = [r \in Rank |-> IF r \in Active THEN "close" ELSE pc[r]]
  /\ exit' = [r \in Rank |-> IF r \notin Active THEN exit[r]
                             ELSE IF SigtermAgreed(r) THEN "sigterm"
                             ELSE IF LastBatch(r) THEN "done" ELSE "none"]
  /\ UNCHANGED <<sessionVars, inRun, setupVars, trialVars, signalVars, rootVars, disk>>

\* Seeded fault: the destructor closes the files and does not synchronise them.
AfterBarrierNoFinalSync(r) ==
  CASE pc[r] = "open_checked" -> IF r = 0 THEN "make_dir" ELSE "dir_made"
    [] pc[r] = "dir_made"     -> "open_files"
    [] pc[r] = "closed"       -> IF exit[r] # "none" THEN "finalize"
                                 ELSE IF r = 0 THEN "sync_read" ELSE "synced"
    [] pc[r] = "synced"       -> "open_check"
    [] OTHER                  -> pc[r]

\* Where rank r goes when a barrier releases it.
AfterBarrier(r) ==
  CASE pc[r] = "open_checked" -> IF r = 0 THEN "make_dir" ELSE "dir_made"
    [] pc[r] = "dir_made"     -> "open_files"
    [] pc[r] = "closed"       -> IF r = 0 THEN "sync_read" ELSE "synced"
    [] pc[r] = "synced"       -> IF exit[r] = "none" THEN "open_check"
                                 ELSE IF r = 0 /\ Consolidate THEN "merge" ELSE "finalize"
    [] OTHER                  -> pc[r]

\* Seeded fault: the next checkpoint is opened before its number is counted up.
NextCheckpointNumberLate(r) == chkNum[r]

NextCheckpointNumber(r) == chkNum[r] + 1

Barrier ==
  /\ Running
  /\ \A r \in Active : pc[r] \in BarrierPcs
  /\ \A r \in Active : pc[r] = "synced" /\ exit[r] = "none" => chkNum[r] < MaxChk
  /\ pc' = [r \in Rank |-> AfterBarrier(r)]
  /\ chkNum' = [r \in Rank |-> IF pc[r] = "synced" /\ exit[r] = "none"
                               THEN NextCheckpointNumber(r) ELSE chkNum[r]]
  /\ UNCHANGED <<sessionVars, inRun, exit, prior, restartMax, trialVars, signalVars,
                 rootVars, disk>>

\* Memory is gone: every rank-local variable is back at its initial value.
Forget ==
  /\ pc' = [r \in Rank |-> "idle"]
  /\ inRun' = [r \in Rank |-> FALSE]
  /\ exit' = [r \in Rank |-> "none"]
  /\ prior' = [r \in Rank |-> 0]
  /\ restartMax' = [r \in Rank |-> 0]
  /\ chkNum' = [r \in Rank |-> 0]
  /\ batchStart' = [r \in Rank |-> 0]
  /\ nextTrial' = [r \in Rank |-> 0]
  /\ task' = [r \in Rank |-> [t \in Thread |-> Idle]]
  /\ count' = [r \in Rank |-> 0]
  /\ maxTrial' = [r \in Rank |-> 0]
  /\ nextUid' = [r \in Rank |-> 0]
  /\ sigterm' = [r \in Rank |-> FALSE]
  /\ vote' = [r \in Rank |-> FALSE]
  /\ failed' = [r \in Rank |-> FALSE]
  /\ sync' = NoSync
  /\ merge' = NoMerge
  /\ size' = 0
  /\ restart' = FALSE
  /\ UNCHANGED sessions

\* MPI_Finalize, on every rank; the exit status is that of the worst rank.
Finalize ==
  /\ Running
  /\ \A r \in Active : pc[r] = "finalize"
  /\ outcome' = IF \E r \in Active : exit[r] = "error" THEN "error" ELSE exit[0]
  /\ Forget
  /\ UNCHANGED disk

-----------------------------------------------------------------------------
(* checkpoint() and the destructor: close, synchronise, and in the         *)
(* destructor consolidate.                                                 *)

Close(r) ==
  /\ pc[r] = "close"
  /\ CloseOutputFile(chkNum[r], r, TrialsCompleted(r), maxTrial[r], nextUid[r])
  /\ pc' = [pc EXCEPT ![r] = "closed"]
  /\ UNCHANGED <<sessionVars, inRun, exit, setupVars, trialVars, signalVars, rootVars>>

\* What rank q left in the current checkpoint (rank 0 still has its own values).
Left(q) == files[chkNum[0]][q]

\* Seeded fault: the trials of earlier sessions are counted once per rank.
ShareWithPrior(q) == Left(q).tc

\* The trials rank q did in this session.
Share(q) == Left(q).tc - prior[0]

\* Rank 0 adds up the ranks' shares one file after another.
SyncRead(r) ==
  /\ pc[r] = "sync_read"
  /\ LET tc == sync.tc + Share(sync.next)
         mx == IF sync.mx < Left(sync.next).mx THEN Left(sync.next).mx ELSE sync.mx
     IN  IF sync.next + 1 < size
         THEN /\ sync' = [tc |-> tc, mx |-> mx, next |-> sync.next + 1]
              /\ UNCHANGED pc
         ELSE /\ sync' = [tc |-> tc + prior[r], mx |-> mx, next |-> 0]
              /\ pc' = [pc EXCEPT ![r] = "sync_write"]
  /\ UNCHANGED <<sessionVars, inRun, exit, setupVars, trialVars, signalVars, merge, disk>>

SyncWrite(r) ==
  /\ pc[r] = "sync_write"
  /\ OverwriteAttrs(chkNum[r], sync.next, sync.tc, sync.mx)
  /\ IF sync.next + 1 < size
     THEN sync' = [sync EXCEPT !.next = @ + 1] /\ UNCHANGED pc
     ELSE sync' = NoSync /\ pc' = [pc EXCEPT ![r] = "synced"]
  /\ UNCHANGED <<sessionVars, inRun, exit, setupVars, trialVars, signalVars, merge>>

MergeOver == merge.chk > chkNum[0]
MergeUnstarted == merge.last = MaxRanks

\* Seeded fault: only the first file is copied.
NotYetMergedNone == {}

NotYetMerged == {q \in RanksIn(merge.chk) : q > merge.last}

\* There is no directory, or consolidateFiles throws and the destructor reports it.
MergeSkip(r) ==
  /\ pc[r] = "merge" /\ ~MergeOver /\ MergeUnstarted
  /\ ~hasDir[merge.chk] \/ RanksIn(merge.chk) = {} \/ HasH5(merge.chk)
  /\ merge' = [merge EXCEPT !.chk = @ + 1]
  /\ UNCHANGED <<sessionVars, pc, inRun, exit, setupVars, trialVars, signalVars, sync, disk>>

MergeCopy(r) ==
  /\ pc[r] = "merge" /\ ~MergeOver /\ MergeUnstarted
  /\ hasDir[merge.chk] /\ RanksIn(merge.chk) # {} /\ ~HasH5(merge.chk)
  /\ CopyFirstFile(merge.chk)
  /\ merge' = [merge EXCEPT !.last = Min(RanksIn(merge.chk))]
  /\ UNCHANGED <<sessionVars, pc, inRun, exit, setupVars, trialVars, signalVars, sync>>

MergeAppend(r) ==
  /\ pc[r] = "merge" /\ ~MergeUnstarted /\ NotYetMerged # {}
  /\ AppendFile(merge.chk, Min(NotYetMerged))
  /\ merge' = [merge EXCEPT !.last = Min(NotYetMerged)]
  /\ UNCHANGED <<sessionVars, pc, inRun, exit, setupVars, trialVars, signalVars, sync>>

\* Every file is in: close the result, ...
MergeClose(r) ==
  /\ pc[r] = "merge" /\ ~MergeUnstarted /\ NotYetMerged = {}
  /\ h5[merge.chk].st = "open"
  /\ CloseConsolidated(merge.chk)
  /\ UNCHANGED <<sessionVars, pc, inRun, exit, setupVars, trialVars, signalVars, rootVars>>

\* ... then remove what it was made from, file by file, ...
MergeUnlink(r) ==
  /\ pc[r] = "merge" /\ ~MergeUnstarted
  /\ h5[merge.chk].st = "closed" /\ RanksIn(merge.chk) # {}
  /\ RemoveFile(merge.chk, Min(RanksIn(merge.chk)))
  /\ UNCHANGED <<sessionVars, pc, inRun, exit, setupVars, trialVars, signalVars, rootVars>>

\* ... and the directory.
MergeRemove(r) ==
  /\ pc[r] = "merge" /\ ~MergeUnstarted
  /\ h5[merge.chk].st = "closed" /\ RanksIn(merge.chk) = {}
  /\ RemoveDirectory(merge.chk)
  /\ merge' = [chk |-> merge.chk + 1, last |-> MaxRanks]
  /\ UNCHANGED <<sessionVars, pc, inRun, exit, setupVars, trialVars, signalVars, sync>>

MergeDone(r) ==
  /\ pc[r] = "merge" /\ MergeOver
  /\ merge' = NoMerge
  /\ pc' = [pc EXCEPT ![r] = "finalize"]
  /\ UNCHANGED <<sessionVars, inRun, exit, setupVars, trialVars, signalVars, sync, disk>>

-----------------------------------------------------------------------------
(* What happens to a run from outside.                                     *)

\* The job dies: a kill, a lost node, or SIGTERM outside run().
Crash ==
  /\ "crash" \in Faults
  /\ Running
  /\ outcome' = "crash"
  /\ Forget
  /\ \E legible \in BOOLEAN : ProcessDies(legible)

\* A restart would refuse to read the last checkpoint, so the user deletes it.
DeleteUnreadable ==
  /\ ~Running
  /\ FoundCheckpoints # {}
  /\ ~Readable(MaxCheckpoint)
  /\ DeleteRefused(MaxCheckpoint)
  /\ UNCHANGED <<sessionVars, pc, inRun, exit, setupVars, trialVars, signalVars, rootVars>>

-----------------------------------------------------------------------------
Setup(r) == SetupThrows(r) \/ SetupFresh(r) \/ SetupRestart(r)

Open(r) == OpenThrows(r) \/ OpenCheck(r) \/ MakeDir(r) \/ OpenFiles(r)

Trial(r, t) ==
  SkipTrial(r, t) \/ BeginTrial(r, t) \/ WriteTrial(r, t) \/ FinishTrial(r, t)

Batch(r) == BatchFailed(r) \/ BatchDone(r)

Save(r) == Close(r) \/ SyncRead(r) \/ SyncWrite(r)

Merge(r) ==
  MergeSkip(r) \/ MergeCopy(r) \/ MergeAppend(r) \/ MergeClose(r) \/ MergeUnlink(r)
    \/ MergeRemove(r) \/ MergeDone(r)

\* Every step a rank takes by itself, but for the failing of a trial.
RankStep(r) ==
  Setup(r) \/ Open(r) \/ (\E t \in Thread : Trial(r, t)) \/ Batch(r) \/ Save(r) \/ Merge(r)

Collective == Reduce \/ Barrier \/ Finalize

Outside ==
  \/ \E n \in RankCounts, again \in BOOLEAN : Launch(n, again)
  \/ \E r \in Rank : SigtermArrives(r)
  \/ \E r \in Rank, t \in Thread : FailTrial(r, t)
  \/ Crash
  \/ DeleteUnreadable

\* The launches allowed for are used up.
Finished == ~Running /\ sessions = MaxSessions /\ UNCHANGED vars

Next == (\E r \in Rank : RankStep(r)) \/ Collective \/ Outside \/ Finished

Spec == Init /\ [][Next]_vars

\* A rank that can take a step takes one, and the MPI library completes a
\* collective every rank is in.  Nothing makes the user launch again.
Fairness == (\A r \in Rank : WF_vars(RankStep(r))) /\ WF_vars(Collective)

FairSpec == Spec /\ Fairness
=============================================================================
