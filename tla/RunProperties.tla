---------------------------- MODULE RunProperties ----------------------------
(***************************************************************************)
(* What a checkpointed run has to get right.                               *)
(***************************************************************************)
EXTENDS CheckpointedRun

\* Every variable has its type.
TypeOK ==
  /\ sessions \in 0 .. MaxSessions
  /\ size \in 0 .. MaxRanks
  /\ restart \in BOOLEAN
  /\ outcome \in {"none", "done", "sigterm", "error", "crash"}
  /\ pc \in [Rank -> {"idle"} \cup CollectivePcs \cup LocalPcs]
  /\ inRun \in [Rank -> BOOLEAN]
  /\ exit \in [Rank -> {"none", "done", "sigterm", "error"}]
  /\ prior \in [Rank -> Nat]
  /\ restartMax \in [Rank -> Nat]
  /\ chkNum \in [Rank -> Chk]
  /\ batchStart \in [Rank -> Nat]
  /\ nextTrial \in [Rank -> Nat]
  /\ task \in [Rank -> [Thread -> Task]]
  /\ count \in [Rank -> Nat]
  /\ maxTrial \in [Rank -> Nat]
  /\ nextUid \in [Rank -> Nat]
  /\ sigterm \in [Rank -> BOOLEAN]
  /\ vote \in [Rank -> BOOLEAN]
  /\ failed \in [Rank -> BOOLEAN]
  /\ sync \in [tc : Nat, mx : Nat, next : Rank]
  /\ merge \in [chk : 0 .. MaxChk + 1, last : 0 .. MaxRanks]
  /\ DiskTypeOK

-----------------------------------------------------------------------------
(* Safety.                                                                 *)

\* Whatever checkpoint a restart would accept at this moment, it reads there
\* the true number of trials done by all ranks in all sessions, and a number no
\* smaller than that of any trial written.  In particular a checkpoint whose
\* attributes are still those of single ranks, the run having died between
\* closeOutputFile and the end of syncCheckpoints, is not accepted.
RestartIsAccurate ==
  FoundCheckpoints # {} /\ Readable(MaxCheckpoint) =>
    /\ RestartTrialsDone(MaxCheckpoint) = Cardinality(DoneOnDisk)
    /\ \A row \in RowsOnDisk : row.trial <= RestartMaxTrial(MaxCheckpoint)

\* The rows with value v of a field are all of one checkpoint and one rank.
OneOwner(Has(_)) ==
  \A c, d \in Chk : \A x \in RowsIn(c), y \in RowsIn(d) :
    Has(x) = Has(y) => c = d /\ x = y

OneRank(Has(_)) ==
  \A c \in Chk, q, r \in Rank : q # r =>
    \A x \in files[c][q].rows, y \in files[c][r].rows : Has(x) # Has(y)

\* No two trials on disk have the same number, over all sessions, ranks and
\* restarts from an interrupted batch (SimCluster::run, restartMaxTrial()).
TrialNumbersUnique ==
  LET Number(x) == x.trial IN OneOwner(Number) /\ OneRank(Number)

\* No two trials on disk have the same unique ID, whatever the rank counts of
\* the sessions that wrote them (findRestartUidForRank, mpiUidStride).
UidsUnique ==
  LET Uid(x) == x.uid IN OneOwner(Uid) /\ OneRank(Uid)

\* Once a checkpoint is readable, the trials with rows in it are those that ran
\* to their end, except for trials that threw: SIGTERM and the rollover at the
\* end of a batch never save half a trial.
NoHalfTrialSaved ==
  "error" \notin Faults =>
    \A c \in Chk : Readable(c) => {row.trial : row \in RowsIn(c)} = DoneIn(c)

\* checkpoint() is only called when every trial of the session up to the end of
\* the batch is done and its rows written, by every rank.
RolloverOnlyWhenBatchDone ==
  \A r \in Rank : pc[r] = "close" /\ exit[r] = "none" =>
    NumberingStart(r) .. BatchEnd(r) - 1 \subseteq DoneOnDisk

\* A rollover never finds the name of its next checkpoint taken, so the check in
\* openNewOutputFiles only ever throws in the constructor.
RolloverNameIsFree ==
  \A r \in Rank : pc[r] = "open_check" /\ inRun[r] => ~Exists(chkNum[r])

\* No trial is done beyond n_trial, and a session that reports completion
\* leaves n_trial trials done, however many sessions it took.
TrialBudget ==
  /\ Cardinality(DoneOnDisk) <= NTrial
  /\ outcome = "done" => Cardinality(DoneOnDisk) = NTrial

\* After a session that ended by itself, with SIGTERM or without, the next one
\* can be launched with any of the rank counts without being refused.
GracefulExitRestartable ==
  outcome \in {"done", "sigterm"} =>
    /\ Readable(MaxCheckpoint)
    /\ \A n \in RankCounts : \A r \in 0 .. n - 1 : ~UidRefused(r, n)

\* What running.rst promises of a run stopped by SIGTERM: it can be restarted,
\* with as many ranks as before or with another number.
InterruptedRunRestartable ==
  outcome = "sigterm" =>
    \A n \in RankCounts : \A r \in 0 .. n - 1 : ~UidRefused(r, n)

\* The ranks of a session never wait for each other in collectives of different
\* kinds.
NoHang ==
  Running /\ (\A r \in Active : pc[r] \in CollectivePcs) =>
    \/ \A r \in Active : pc[r] \in BarrierPcs
    \/ \A r \in Active : pc[r] = "reduce"
    \/ \A r \in Active : pc[r] = "finalize"

\* The rows in a file that was properly closed stay on disk, in that file or in
\* the consolidated one, whenever the process dies; only the user deletes any.
ClosedRows(c) ==
  (IF h5[c].st = "closed" THEN h5[c].rows ELSE {})
    \cup UNION {files[c][r].rows : r \in {q \in Rank : files[c][q].st = "closed"}}

ClosedRowsStay ==
  [][DeleteUnreadable \/ \A c \in Chk : ClosedRows(c) \subseteq ClosedRows(c)']_vars

-----------------------------------------------------------------------------
(* How the ranks of a session stay together.                               *)

\* What lies between two collectives that every rank takes part in.
OpenPcs == {"setup", "open_check", "open_checked", "finalize"}
DirPcs == {"make_dir", "dir_made"}
RunPcs == {"open_files", "batch", "reduce", "close", "closed"}
SyncPcs == {"sync_read", "sync_write", "synced"}
EndPcs == {"merge", "finalize"}
Phases == {OpenPcs, DirPcs, RunPcs, SyncPcs, EndPcs}

\* The ranks are all in the same phase.
SamePhase == \E P \in Phases : \A r \in Active : pc[r] \in P

\* r has been through its constructor, and not left run() for good.
Constructed(r) == pc[r] \notin {"idle", "setup", "finalize", "merge"}
Closing(r) == pc[r] \in {"close", "closed"} \cup SyncPcs
GoingOn(r) == Constructed(r) /\ (Closing(r) => exit[r] = "none")

\* The first trial of the batch r is in, or is about to begin.
BatchFirst(r) ==
  IF pc[r] \in {"batch", "reduce"} \/ Closing(r) THEN batchStart[r]
  ELSE IF inRun[r] THEN batchStart[r] + BatchSize(r) ELSE NumberingStart(r)

\* No rank knows what another rank computed, and still all ranks of a session
\* go through the same phases, take the same checkpoint numbers, number the same
\* batches and roll over together or not at all: what restartSetup reads, what
\* SimCluster::run derives from it and what the reduction returns is the same.
RanksAgree ==
  /\ SamePhase
  /\ \A q, r \in Active :
       /\ Constructed(q) /\ Constructed(r) =>
            prior[q] = prior[r] /\ restartMax[q] = restartMax[r] /\ chkNum[q] = chkNum[r]
       /\ GoingOn(q) /\ GoingOn(r) => BatchFirst(q) = BatchFirst(r)
       /\ Closing(q) /\ exit[q] = "none" => Closing(r) /\ exit[r] = "none"

-----------------------------------------------------------------------------
(* The abstract specification.  A checkpoint is sealed when a restart would *)
(* accept it; its trials are then in the ledger.                           *)

Sealed(c) ==
  \/ h5[c].st = "closed"
  \/ /\ RanksIn(c) # {}
     /\ \A r \in RanksIn(c) : HasAttrs(files[c][r])
     /\ \A q, r \in RanksIn(c) : /\ files[c][q].tc = files[c][r].tc
                                 /\ files[c][q].mx = files[c][r].mx

Recorded == UNION {DoneIn(c) : c \in {d \in Chk : Sealed(d)}}

Ledger == INSTANCE TrialLedger WITH ledger <- Recorded

\* The checkpoints of a run, over all its sessions, implement the ledger.
ImplementsLedger == Ledger!Spec

-----------------------------------------------------------------------------
(* Liveness.                                                               *)

\* Every session ends: no rank is left behind in a loop or a collective.
SessionEnds == Running ~> ~Running
=============================================================================
