------------------------ MODULE ConsolidateCheckpoints ------------------------
(***************************************************************************)
(* slugpy's consolidate_checkpoints and the search for a run's files that  *)
(* it shares with slug_reader, beside the run that writes them: the tool   *)
(* may be started while a session goes on, after a crash, or again after   *)
(* it was killed itself.  The directory is listed first and its entries    *)
(* are looked at later; every file is opened, read and deleted in a step   *)
(* of its own, and the steps of the run fall anywhere in between.          *)
(*                                                                         *)
(* Only cleaning up is left to a user who waits for the session to end: a  *)
(* run whose files are deleted under it is not modelled.  A file that some *)
(* process has open for writing cannot be opened, which is how HDF5's file *)
(* locks work, and a file without attributes is refused, so both end alike.*)
(***************************************************************************)
EXTENDS RunProperties
LOCAL INSTANCE SequencesExt

CONSTANT MaxToolRuns  \* bound: how often the tool is started

ASSUME ToolAssumption == MaxToolRuns \in Nat

VARIABLES
  toolRuns,  \* starts of the tool so far
  tool,      \* the tool: where it is and what it has learned
  tmp,       \* .<model>.h5.consolidating
  dest       \* <model>.h5

toolVars == <<toolRuns, tool, tmp, dest>>
allVars == <<vars, toolVars>>

-----------------------------------------------------------------------------
(* Which files make up a run.                                              *)

\* A file is <<checkpoint, rank>>, with H5 for the rank of a consolidated one.
H5 == MaxRanks
Contents(f) == IF f[2] = H5 THEN h5[f[1]] ELSE files[f[1]][f[2]]
Gone(f) == Contents(f).st = "none"
Opens(f) == Contents(f).st \notin {"none", "open"}

\* _rank_thread_files_in_dir
RankFilesInDir(c) == {<<c, r>> : r \in RanksIn(c)}

\* Seeded fault: a directory's files are taken beside the consolidated file.
CheckpointFilesBoth(c) == (IF HasH5(c) THEN {<<c, H5>>} ELSE {}) \cup RankFilesInDir(c)

\* _checkpoint_files; nothing stands for its FileNotFoundError.
CheckpointFiles(c) == IF HasH5(c) THEN {<<c, H5>>} ELSE RankFilesInDir(c)

Before(f, g) == f[1] < g[1] \/ (f[1] = g[1] /\ f[2] < g[2])

\* All files in checkpoint order, and the one that global values come from.
InOrder(found) == SetToSortSeq(found, Before)
Final(found) ==
  LET last == Max({f[1] : f \in found}) IN InOrder({f \in found : f[1] = last})[1]

\* What slug_reader opens when it is given the model's name and no run is at work.
FindOutputFiles == UNION {CheckpointFiles(c) : c \in FoundCheckpoints}

-----------------------------------------------------------------------------
(* The tool.  n counts the rows of its output.  whole and counted are      *)
(* observers: the rows that were safely in checkpoints when the tool       *)
(* listed the directory, less those of a checkpoint that the run was       *)
(* merging while the tool looked for it, or that a crash left half-merged; *)
(* and whether the last checkpoint was synchronised then, and not merged.  *)

NoOutput == [st |-> "none", rows |-> {}, n |-> 0, done |-> {}, tc |-> 0,
             whole |-> {}, counted |-> FALSE]
NoTool == [pc |-> "idle", cleanup |-> FALSE, names |-> {}, found |-> {}, next |-> 0,
           whole |-> {}, counted |-> FALSE]

ToolInit == toolRuns = 0 /\ tool = NoTool /\ tmp = NoOutput /\ dest = NoOutput

\* The consolidated file of c holds part of the rows only: it is being filled, or
\* a crash came in the middle and left it legible or not.
HalfMerged(c) == HasH5(c) /\ ~(h5[c].st = "closed" /\ ClosedRows(c) \subseteq h5[c].rows)

RunUnchanged == <<sessionVars, pc, inRun, exit, setupVars, trialVars, signalVars, rootVars>>

\* The entries of the directory that are named for a checkpoint.
Entries == {<<c, "h5">> : c \in {d \in Chk : HasH5(d)}} \cup {<<c, "dir">> : c \in {d \in Chk : hasDir[d]}}

\* The directory is listed; what it has no checkpoints for ends here.
ToolStart(cleanup) ==
  /\ tool.pc = "idle"
  /\ toolRuns < MaxToolRuns
  /\ cleanup => ~Running
  /\ Entries # {}
  /\ toolRuns' = toolRuns + 1
  /\ tool' = [NoTool EXCEPT
       !.pc = "find", !.cleanup = cleanup, !.names = Entries,
       !.whole = UNION {ClosedRows(c) : c \in FoundCheckpoints}, !.counted = Readable(MaxCheckpoint)]
  /\ UNCHANGED <<vars, tmp, dest>>

\* The finally clause: the temporary file goes, whatever went wrong.
ToolThrows == tool' = NoTool /\ tmp' = NoOutput

\* These are the files of checkpoint c, surely all of them unless it is being merged.
Take(c, found, merging) ==
  tool' = [tool EXCEPT !.pc = "find", !.found = {f \in @ : f[1] # c} \cup found,
                       !.names = @ \ {<<c, "h5">>, <<c, "dir">>},
                       !.whole = IF merging THEN @ \ RowsIn(c) ELSE @,
                       !.counted = @ /\ ~merging]

\* _find_checkpoints looks at one entry after another, in any order: if it is still what
\* it was, the consolidated file is looked for.  (What is looked up twice is found alike,
\* so both entries of a checkpoint go at once.)
FindEntry(e) ==
  /\ tool.pc = "find" /\ e \in tool.names /\ e \in Entries
  /\ IF HasH5(e[1]) THEN Take(e[1], {<<e[1], H5>>}, HalfMerged(e[1]))
     ELSE tool' = [tool EXCEPT !.pc = "list", !.next = e[1]]
  /\ UNCHANGED <<vars, toolRuns, tmp, dest>>

\* An entry that is gone is neither a file nor a directory, and passed over.
SkipEntry(e) ==
  /\ tool.pc = "find" /\ e \in tool.names /\ e \notin Entries
  /\ LET more == <<e[1], "h5">> \in tool.names
     IN tool' = [tool EXCEPT !.names = @ \ {e},
                             !.whole = IF more THEN @ ELSE @ \ RowsIn(e[1]),
                             !.counted = @ /\ more]
  /\ UNCHANGED <<vars, toolRuns, tmp, dest>>

\* There was no consolidated file; the run may have made one since, removed files of
\* the directory, or all of them.
ListFiles ==
  /\ tool.pc = "list"
  /\ LET c == tool.next
     IN IF RankFilesInDir(c) = {} THEN ToolThrows
        ELSE Take(c, RankFilesInDir(c), HasH5(c)) /\ UNCHANGED tmp
  /\ UNCHANGED <<vars, toolRuns, dest>>

Found ==
  /\ tool.pc = "find"
  /\ tool.names = {}
  /\ IF tool.found = {} \/ dest.st # "none" THEN ToolThrows
     ELSE tool' = [tool EXCEPT !.pc = "check", !.next = 1] /\ UNCHANGED tmp
  /\ UNCHANGED <<vars, toolRuns, dest>>

Path(i) == InOrder(tool.found)[i]
NFiles == Cardinality(tool.found)

\* After the file at hand: the next one, or the next part of the work.
Advance(then) ==
  tool' = IF tool.next < NFiles THEN [tool EXCEPT !.next = @ + 1]
          ELSE [tool EXCEPT !.pc = then, !.next = 1]

\* The file has trials_completed, so it was closed cleanly.
Complete(f) == Opens(f) /\ HasAttrs(Contents(f))

CheckFile ==
  /\ tool.pc = "check"
  /\ IF Complete(Path(tool.next)) THEN Advance("create") /\ UNCHANGED tmp ELSE ToolThrows
  /\ UNCHANGED <<vars, toolRuns, dest>>

\* A new temporary file, with everything but rows as in the final checkpoint.
CreateOutput ==
  /\ tool.pc = "create"
  /\ LET final == Contents(Final(tool.found)) IN
       IF ~Opens(Final(tool.found)) THEN ToolThrows
       ELSE /\ tmp' = [NoOutput EXCEPT !.st = "open", !.tc = final.tc,
                         !.whole = tool.whole, !.counted = tool.counted]
            /\ tool' = [tool EXCEPT !.pc = "copy"]
  /\ UNCHANGED <<vars, toolRuns, dest>>

CopyRows ==
  /\ tool.pc = "copy"
  /\ LET f == Contents(Path(tool.next)) IN
       IF ~Opens(Path(tool.next)) THEN ToolThrows
       ELSE /\ tmp' = [tmp EXCEPT !.rows = @ \cup f.rows, !.n = @ + Cardinality(f.rows),
                                  !.done = @ \cup f.done]
            /\ Advance("verify")
  /\ UNCHANGED <<vars, toolRuns, dest>>

\* Every file is read again and compared with what was copied from it.
VerifyRows ==
  /\ tool.pc = "verify"
  /\ LET f == Path(tool.next) IN
       IF Opens(f) /\ Contents(f).rows \subseteq tmp.rows
       THEN Advance("link") /\ UNCHANGED tmp
       ELSE ToolThrows
  /\ UNCHANGED <<vars, toolRuns, dest>>

\* os.link, which fails if the name is taken, and the unlinking of the other name.
Link ==
  /\ tool.pc = "link"
  /\ IF dest.st # "none" THEN ToolThrows /\ UNCHANGED dest
     ELSE /\ dest' = [tmp EXCEPT !.st = "closed"]
          /\ tmp' = NoOutput
          /\ tool' = IF tool.cleanup THEN [tool EXCEPT !.pc = "unlink"] ELSE NoTool
  /\ UNCHANGED <<vars, toolRuns>>

LastOfCheckpoint(i) == i = NFiles \/ Path(i + 1)[1] # Path(i)[1]

Unlink(f) ==
  IF f[2] = H5 THEN h5' = [h5 EXCEPT ![f[1]] = NoFile] /\ UNCHANGED files
  ELSE files' = [files EXCEPT ![f[1]][f[2]] = NoFile] /\ UNCHANGED h5

AfterRemoval ==
  tool' = IF tool.next = NFiles THEN NoTool ELSE [tool EXCEPT !.pc = "unlink", !.next = @ + 1]

\* cleanup: a checkpoint's files, and then its directory.
UnlinkFile ==
  /\ tool.pc = "unlink"
  /\ IF Gone(Path(tool.next)) THEN tool' = NoTool /\ UNCHANGED disk
     ELSE /\ Unlink(Path(tool.next))
          /\ UNCHANGED hasDir
          /\ IF LastOfCheckpoint(tool.next) THEN tool' = [tool EXCEPT !.pc = "rmdir"]
             ELSE AfterRemoval
  /\ UNCHANGED <<RunUnchanged, toolRuns, tmp, dest>>

\* Seeded fault: whatever directory the checkpoint has is deleted.
DirectoryRemovedAny(c) == hasDir[c]

\* rmdir is called, the directory's own files being the ones consolidated, and
\* does its work, nothing else being in it.
DirectoryRemoved(c) == Path(tool.next)[2] # H5 /\ RanksIn(c) = {}

RemoveDir ==
  /\ tool.pc = "rmdir"
  /\ LET c == Path(tool.next)[1] IN
       IF DirectoryRemoved(c) THEN RemoveDirectory(c) ELSE UNCHANGED disk
  /\ AfterRemoval
  /\ UNCHANGED <<RunUnchanged, toolRuns, tmp, dest>>

\* The tool dies.  A temporary file that stays is never looked at again.
ToolKilled ==
  /\ "crash" \in Faults
  /\ tool.pc # "idle"
  /\ ToolThrows
  /\ UNCHANGED <<vars, toolRuns, dest>>

ToolStep ==
  \/ \E cleanup \in BOOLEAN : ToolStart(cleanup)
  \/ \E e \in Chk \X {"h5", "dir"} : FindEntry(e) \/ SkipEntry(e)
  \/ ListFiles \/ Found \/ CheckFile \/ CreateOutput \/ CopyRows \/ VerifyRows \/ Link
  \/ UnlinkFile \/ RemoveDir \/ ToolKilled

\* While the tool is at work the user deletes nothing by hand, and while it
\* cleans up no session is launched.
RunStep ==
  /\ tool.cleanup => Running
  /\ Next
  /\ tool.pc # "idle" /\ ~Running => UNCHANGED disk
  /\ UNCHANGED toolVars

ToolNext == RunStep \/ ToolStep

ToolSpec == Init /\ ToolInit /\ [][ToolNext]_allVars

-----------------------------------------------------------------------------
(* What users of the files may rely on.                                    *)

RowsOf(found) == UNION {Contents(f).rows : f \in found}
CountOf(found) == MapThenSumSet(LAMBDA f : Cardinality(Contents(f).rows), found)

\* Whoever reads the run by its name (slug_reader) gets each row once, however
\* far the run's own merging of checkpoints has come and wherever it died, and
\* gets every row of a closed file, unless a crash left a legible part of a
\* consolidated file.  The output of the tool has each row once, whatever the
\* run did meanwhile, and every row that was safe when the tool was started but
\* those of a checkpoint that the run merged while the tool was looking for files,
\* which it may pass over without a word; and its number of trials is that of the
\* trials in it, if the last checkpoint was synchronised then, and was not merged.
RowsReadOnce ==
  /\ CountOf(FindOutputFiles) = Cardinality(RowsOf(FindOutputFiles))
  /\ \A c \in FoundCheckpoints :
       ~HalfMerged(c) => ClosedRows(c) \subseteq RowsOf(CheckpointFiles(c))
  /\ dest.n = Cardinality(dest.rows)
  /\ dest.whole \subseteq dest.rows
  /\ dest.counted => dest.tc = Cardinality(dest.done)

\* A row that was in a properly closed file stays in one, in a checkpoint or in
\* the tool's output, through cleaning up and through the death of the run or of
\* the tool at any point of it; only the user deletes any by hand.
SafeRows == dest.rows \cup UNION {ClosedRows(c) : c \in Chk}

NothingLost == [][DeleteUnreadable \/ SafeRows \subseteq SafeRows']_allVars
=============================================================================
