--------------------------- MODULE OutputManagerH5 ---------------------------
(***************************************************************************)
(* The checkpointed HDF5 output of a run as it lies on disk                *)
(* (src/io/OutputManagerH5.cpp), and the operations on it.                 *)
(*                                                                         *)
(* Checkpoint c is the directory <model>_chkNNNNN with one file per rank,  *)
(* the consolidated file <model>_chkNNNNN.h5, both, or neither.  The       *)
(* thread files of a rank are opened in one parallel region and closed in  *)
(* another, each with the same three attributes, and no action looks at    *)
(* only some of them, so one record stands for all of them.                *)
(*                                                                         *)
(* A row is a trial number with the unique ID drawn for it; everything     *)
(* else a row holds is left out.                                           *)
(***************************************************************************)
EXTENDS Integers, FiniteSets, FiniteSetsExt

CONSTANTS
  MaxRanks,    \* bound: the most ranks a session is launched with
  MaxChk,      \* bound: the highest checkpoint number
  UidStride    \* mpiUidStride, the IDs set aside for each rank

ASSUME OutputAssumption ==
  /\ MaxRanks \in Nat \ {0}
  /\ MaxChk \in Nat
  /\ UidStride \in Nat \ {0}

Rank == 0 .. MaxRanks - 1
Chk == 0 .. MaxChk

VARIABLES
  hasDir,  \* hasDir[c]: the directory of checkpoint c exists
  files,   \* files[c][r]: what rank r has in that directory
  h5       \* h5[c]: the consolidated file of checkpoint c

disk == <<hasDir, files, h5>>

FileStatus == {"none", "open", "torn", "closed"}

Row == [trial : Nat, uid : Nat]

\* tc, mx and uid are the attributes trials_completed, max_trial and
\* restart_uid; only a closed file has them.  done is an observer: the trials
\* that ran to their end while the file was open.
File == [st : FileStatus, rows : SUBSET Row, done : SUBSET Nat,
         tc : Nat, mx : Nat, uid : Nat]

NoFile == [st |-> "none", rows |-> {}, done |-> {}, tc |-> 0, mx |-> 0, uid |-> 0]

DiskTypeOK ==
  /\ hasDir \in [Chk -> BOOLEAN]
  /\ files \in [Chk -> [Rank -> File]]
  /\ h5 \in [Chk -> File]

DiskInit ==
  /\ hasDir = [c \in Chk |-> FALSE]
  /\ files = [c \in Chk |-> [r \in Rank |-> NoFile]]
  /\ h5 = [c \in Chk |-> NoFile]

-----------------------------------------------------------------------------
(* What a restart finds.                                                   *)

HasH5(c) == h5[c].st # "none"
Exists(c) == hasDir[c] \/ HasH5(c)

FoundCheckpoints == {c \in Chk : Exists(c)}
MaxCheckpoint == Max(FoundCheckpoints)

\* filesForRank: the ranks with a file in the directory of c.
RanksIn(c) == {r \in Rank : files[c][r].st # "none"}

\* The files restartSetup reads: the consolidated one is preferred.
RestartSource(c) == IF HasH5(c) THEN {h5[c]} ELSE {files[c][r] : r \in RanksIn(c)}

HasAttrs(f) == f.st = "closed"

\* Seeded fault: the files' attributes are read but not compared.
AttrsAgreeUnchecked(c) == \A f \in RestartSource(c) : HasAttrs(f)

AttrsAgree(c) ==
  /\ \A f \in RestartSource(c) : HasAttrs(f)
  /\ \A f, g \in RestartSource(c) : f.tc = g.tc /\ f.mx = g.mx

\* restartSetup goes on with checkpoint c rather than throwing.
Readable(c) == RestartSource(c) # {} /\ AttrsAgree(c)

RestartFile(c) == CHOOSE f \in RestartSource(c) : TRUE
RestartTrialsDone(c) == RestartFile(c).tc
RestartMaxTrial(c) == RestartFile(c).mx

\* Seeded fault: only the last checkpoint is searched for a rank's files.
UidCheckpointsLastOnly(rank) ==
  {c \in Chk : c = MaxCheckpoint /\ (HasH5(c) \/ files[c][rank].st # "none")}

\* The checkpoints findRestartUidForRank stops at, highest first.
UidCheckpoints(rank) == {c \in Chk : HasH5(c) \/ files[c][rank].st # "none"}

UidFile(rank) ==
  LET c == Max(UidCheckpoints(rank)) IN IF HasH5(c) THEN h5[c] ELSE files[c][rank]

\* findRestartUidForRank throws: several ranks meet a consolidated checkpoint,
\* which has one rank's restart_uid only, or the file lacks its attributes.
UidRefused(rank, size) ==
  /\ UidCheckpoints(rank) # {}
  /\ \/ HasH5(Max(UidCheckpoints(rank))) /\ size > 1
     \/ ~HasAttrs(UidFile(rank))

\* uniqueID() before anything is drawn: this rank's first ID.
FirstUid(rank) == rank * UidStride

\* Seeded fault: a restart does not set the unique ID.
RestartUidNotSet(rank) == FirstUid(rank)

RestartUid(rank) ==
  IF UidCheckpoints(rank) = {} THEN FirstUid(rank) ELSE UidFile(rank).uid

-----------------------------------------------------------------------------
(* Operations on the disk.                                                 *)

CreateDirectory(c) ==
  /\ hasDir' = [hasDir EXCEPT ![c] = TRUE]
  /\ UNCHANGED <<files, h5>>

OpenOutputFile(c, r) ==
  /\ files' = [files EXCEPT ![c][r] = [NoFile EXCEPT !.st = "open"]]
  /\ UNCHANGED <<hasDir, h5>>

WriteCluster(c, r, row) ==
  /\ files' = [files EXCEPT ![c][r].rows = @ \cup {row}]
  /\ UNCHANGED <<hasDir, h5>>

NoteDone(c, r, trial) ==
  /\ files' = [files EXCEPT ![c][r].done = @ \cup {trial}]
  /\ UNCHANGED <<hasDir, h5>>

CloseOutputFile(c, r, tc, mx, uid) ==
  /\ files' = [files EXCEPT ![c][r].st = "closed", ![c][r].tc = tc,
                            ![c][r].mx = mx, ![c][r].uid = uid]
  /\ UNCHANGED <<hasDir, h5>>

\* overwriteULongAttr on both synchronised attributes of one rank's files.
OverwriteAttrs(c, r, tc, mx) ==
  /\ files' = [files EXCEPT ![c][r].tc = tc, ![c][r].mx = mx]
  /\ UNCHANGED <<hasDir, h5>>

\* consolidateFiles: copy the first file, then append one file at a time.
CopyFirstFile(c) ==
  /\ h5' = [h5 EXCEPT ![c] = [files[c][Min(RanksIn(c))] EXCEPT !.st = "open"]]
  /\ UNCHANGED <<hasDir, files>>

AppendFile(c, r) ==
  /\ h5' = [h5 EXCEPT ![c].rows = @ \cup files[c][r].rows,
                      ![c].done = @ \cup files[c][r].done]
  /\ UNCHANGED <<hasDir, files>>

CloseConsolidated(c) ==
  /\ h5' = [h5 EXCEPT ![c].st = "closed"]
  /\ UNCHANGED <<hasDir, files>>

RemoveFile(c, r) ==
  /\ files' = [files EXCEPT ![c][r] = NoFile]
  /\ UNCHANGED <<hasDir, h5>>

RemoveDirectory(c) ==
  /\ files' = [files EXCEPT ![c] = [r \in Rank |-> NoFile]]
  /\ hasDir' = [hasDir EXCEPT ![c] = FALSE]
  /\ UNCHANGED h5

\* What a death of the process makes of a file.  An output file it had open
\* never gets its attributes.  A consolidated file it was still filling has a
\* copy of them already, and may or may not be legible (legible).
Torn(f) == IF f.st = "open" THEN [f EXCEPT !.st = "torn"] ELSE f
Interrupted(f, legible) ==
  IF f.st = "open" /\ legible THEN [f EXCEPT !.st = "closed"] ELSE Torn(f)

ProcessDies(legible) ==
  /\ files' = [c \in Chk |-> [r \in Rank |-> Torn(files[c][r])]]
  /\ h5' = [c \in Chk |-> Interrupted(h5[c], legible)]
  /\ UNCHANGED hasDir

\* The user deletes what a restart refused to read: the consolidated file if
\* there is one, else the directory.
DeleteRefused(c) ==
  IF HasH5(c)
  THEN h5' = [h5 EXCEPT ![c] = NoFile] /\ UNCHANGED <<hasDir, files>>
  ELSE RemoveDirectory(c)

-----------------------------------------------------------------------------
(* What the disk records.                                                  *)

\* Everything in checkpoint c, each row once whether or not it is also in the
\* consolidated file already.
RowsIn(c) == h5[c].rows \cup UNION {files[c][r].rows : r \in Rank}
DoneIn(c) == h5[c].done \cup UNION {files[c][r].done : r \in Rank}

RowsOnDisk == UNION {RowsIn(c) : c \in Chk}
DoneOnDisk == UNION {DoneIn(c) : c \in Chk}
=============================================================================
