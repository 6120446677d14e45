---------------------------- MODULE OutputWriting ----------------------------
(***************************************************************************)
(* Threads writing the rows of their trials (SimCluster::runTrial,         *)
(* SimGalaxy::runTrial and the writers of the two output managers).  With  *)
(* ascii output the threads share one file for each table, each guarded by *)
(* a critical section of its own; with HDF5 output every thread has a file *)
(* of its own, and every call into HDF5 is in the one critical section     *)
(* h5ThreadSafety.  A value is computed, if it is not current, before the  *)
(* section is entered, and within it the lines and their ends, or the      *)
(* datasets of a row, are written one after the other.                     *)
(***************************************************************************)
EXTENDS OutputManagerAscii

CONSTANTS
  Threads,   \* 1, 2, ..
  Configs,   \* the controls a run may have
  Earlier    \* the sets of text files that an earlier run may have left

ASSUME WritingAssumption ==
  /\ IsFiniteSet(Threads) /\ Threads # {} /\ Threads = 1 .. Cardinality(Threads)
  /\ Configs \subseteq
       [format : {"ascii", "h5"}, simType : {"cluster", "galaxy"}, specsyn : BOOLEAN, nebular : BOOLEAN,
        extinct : BOOLEAN, filters : Seq(STRING), lbol : BOOLEAN, isotopes : Seq(STRING),
        channels : Seq(STRING), decomposed : BOOLEAN, write : SUBSET STRING]

VARIABLES
  phase,     \* "opening", "running", "closed", "refused"
  toOpen,    \* the files still to be opened, in order
  open,      \* the tables (ascii: files) that are open
  next,      \* the next trial
  todo,      \* for each thread, the rows its trial has still to write
  pc,        \* what the thread is doing: "free", "computing", "writing"
  cells,     \* for each thread, what is left of the row it is writing
  lock,      \* the thread inside each critical section, NoThread if none
  lines,     \* ascii: the lines of each file, the last one unfinished
  file,      \* HDF5: each thread's file
  flushed,   \* HDF5: the cluster rows of each thread that are safe on disk
  maxTrial,  \* HDF5: the largest trial number written
  merged     \* HDF5: the consolidated file

H5 == INSTANCE OutputDatasetsH5

vars == <<controls, phase, toOpen, open, next, todo, pc, cells, lock, lines, file, flushed, maxTrial, merged>>
writing == <<todo, pc, cells, lock, lines, file, flushed, maxTrial>>

NoThread == 0
IsAscii == controls.format = "ascii"
Sections == {"h5ThreadSafety"} \cup {OpenOrder[i] : i \in DOMAIN OpenOrder} \cup {"cluster_neb_lines", "galaxy_neb_lines"}
Section(f) == IF IsAscii THEN f ELSE "h5ThreadSafety"

\* Seeded fault: the writes are not in a critical section
FreeForAll(section) == TRUE

\* A section is entered by one thread at a time.
Free(section) == lock[section] = NoThread

EmptyLines == [f \in Sections \ {"h5ThreadSafety"} |-> <<>>]

Init ==
  /\ controls \in Configs
  /\ phase = IF SanityChecked THEN "opening" ELSE "refused"
  /\ toOpen = IF IsAscii THEN FlattenSeq([i \in DOMAIN TablesCreated(OpenOrder) |->
                                            FilesOf(TablesCreated(OpenOrder)[i])])
              ELSE TablesCreated(H5!GroupOrder)
  /\ open = {} /\ next = 0
  /\ todo = [t \in Threads |-> <<>>] /\ pc = [t \in Threads |-> "free"]
  /\ cells = [t \in Threads |-> <<>>] /\ lock = [s \in Sections |-> NoThread]
  /\ \E earlier \in Earlier :
       lines = [f \in DOMAIN EmptyLines |-> IF f \in earlier /\ IsAscii THEN <<<<"earlier">>>> ELSE <<>>]
  /\ file = [t \in Threads |-> <<>>] /\ merged = <<>>
  /\ flushed = [t \in Threads |-> {}] /\ maxTrial = 0

\* The ascii constructor refuses a file that exists, having opened those before it.
OpenFile ==
  /\ phase = "opening" /\ toOpen # <<>> /\ IsAscii
  /\ LET f == Head(toOpen)
     IN IF lines[f] # <<>>
        THEN phase' = "refused" /\ UNCHANGED <<toOpen, open, lines>>
        ELSE /\ open' = open \cup {f} /\ toOpen' = Tail(toOpen)
             /\ lines' = [lines EXCEPT ![f] = <<<<>>>>]
             /\ UNCHANGED phase
  /\ UNCHANGED <<controls, next, todo, pc, cells, lock, file, flushed, maxTrial, merged>>

\* openOutputFile, for every thread's file at once.
OpenGroups ==
  /\ phase = "opening" /\ toOpen # <<>> /\ ~IsAscii
  /\ open' = Range(toOpen) /\ toOpen' = <<>>
  /\ file' = [t \in Threads |-> [g \in Range(toOpen) |-> H5!CreateExtensibleDatasets(g)]]
  /\ UNCHANGED <<controls, phase, next, todo, pc, cells, lock, lines, flushed, maxTrial, merged>>

Start ==
  /\ phase = "opening" /\ toOpen = <<>>
  /\ phase' = "running"
  /\ UNCHANGED <<controls, toOpen, open, next, merged>> /\ UNCHANGED writing

\* With ascii output the emission lines are written right after the spectrum.
WithLines(row) == [i \in DOMAIN FilesOf(row.table) |-> [row EXCEPT !.table = FilesOf(row.table)[i]]]
Rows(trial) ==
  IF IsAscii
  THEN LET rows == TrialRows(open, trial)
       IN FlattenSeq([i \in DOMAIN rows |-> WithLines(rows[i])])
  ELSE TrialRows(open, trial)

BeginTrial(t) ==
  /\ phase = "running" /\ pc[t] = "free" /\ todo[t] = <<>> /\ next \in Trials
  /\ todo' = [todo EXCEPT ![t] = Rows(next)]
  /\ next' = next + 1
  /\ UNCHANGED <<controls, phase, toOpen, open, pc, cells, lock, lines, file, flushed, maxTrial, merged>>

\* The values of the row are computed, outside any critical section.
Compute(t) ==
  /\ pc[t] = "free" /\ todo[t] # <<>>
  /\ pc' = [pc EXCEPT ![t] = "computing"]
  /\ UNCHANGED <<controls, phase, toOpen, open, next, todo, cells, lock, lines, file, flushed, maxTrial, merged>>

\* What is to be written of a row, step by step: for ascii the cells of each of its
\* lines, then the end of the line, <<>>; for HDF5 its datasets.
Cells(row) ==
  IF IsAscii
  THEN LET ls == LinesOf(row.table)
       IN FlattenSeq([i \in DOMAIN ls |-> <<[k \in DOMAIN ls[i] |-> ls[i][k] \o <<row.key>>], <<>>>>])
  ELSE H5!Row(row.table)

Larger(a, b) == IF a > b THEN a ELSE b

Enter(t) ==
  LET row == Head(todo[t]) IN
  /\ pc[t] = "computing" /\ Free(Section(row.table))
  /\ lock' = [lock EXCEPT ![Section(row.table)] = t]
  /\ pc' = [pc EXCEPT ![t] = "writing"]
  /\ cells' = [cells EXCEPT ![t] = Cells(row)]
  /\ maxTrial' = IF IsAscii THEN maxTrial ELSE Larger(maxTrial, row.key[1])
  /\ UNCHANGED <<controls, phase, toOpen, open, next, todo, lines, file, flushed, merged>>

\* The cells of a line streamed into the text file, or the line ended.
Streamed(text, line) ==
  IF line = <<>> THEN Append(text, <<>>) ELSE [text EXCEPT ![Len(text)] = @ \o line]
PutCells(f, line) == lines' = [lines EXCEPT ![f] = Streamed(@, line)]

Put(t) ==
  /\ pc[t] = "writing" /\ cells[t] # <<>>
  /\ LET row == Head(todo[t])
         cell == Head(cells[t])
     IN IF IsAscii
        THEN PutCells(row.table, cell) /\ UNCHANGED file
        ELSE /\ file' = [file EXCEPT ![t] = H5!AppendToDataset(@, row.table, cell[1], <<row.key, cell[2]>>)]
             /\ UNCHANGED lines
  /\ cells' = [cells EXCEPT ![t] = Tail(@)]
  /\ UNCHANGED <<controls, phase, toOpen, open, next, todo, pc, lock, flushed, maxTrial, merged>>

\* Seeded fault: the file is flushed when it is closed, and not before
FlushAtClose(t) == flushed

\* HDF5: writeCluster flushes the thread's file before it leaves the section.
Flush(t) ==
  IF ~IsAscii /\ Head(todo[t]).table = "clusters"
  THEN [flushed EXCEPT ![t] = @ \cup {file[t]["clusters"]["uid"][i][1] : i \in DOMAIN file[t]["clusters"]["uid"]}]
  ELSE flushed

Leave(t) ==
  /\ pc[t] = "writing" /\ cells[t] = <<>>
  /\ lock' = [lock EXCEPT ![Section(Head(todo[t]).table)] = NoThread]
  /\ flushed' = Flush(t)
  /\ todo' = [todo EXCEPT ![t] = Tail(@)] /\ pc' = [pc EXCEPT ![t] = "free"]
  /\ UNCHANGED <<controls, phase, toOpen, open, next, cells, lines, file, maxTrial, merged>>

\* The first thread's file, with the contents of the others' at its end, one by one.
Consolidated ==
  LET upTo[t \in Threads] == IF t = 1 THEN file[t] ELSE H5!AppendFileContents(file[t], upTo[t - 1])
  IN upTo[Cardinality(Threads)]

\* The destructor: the files are closed and, with HDF5 output, consolidated.
Close ==
  /\ phase = "running" /\ next \notin Trials
  /\ \A t \in Threads : pc[t] = "free" /\ todo[t] = <<>>
  /\ phase' = "closed"
  /\ merged' = IF IsAscii THEN merged ELSE Consolidated
  /\ UNCHANGED <<controls, toOpen, open, next>> /\ UNCHANGED writing

Stopped == phase \in {"closed", "refused"} /\ UNCHANGED vars

Next ==
  \/ OpenFile \/ OpenGroups \/ Start \/ Close \/ Stopped
  \/ \E t \in Threads : BeginTrial(t) \/ Compute(t) \/ Enter(t) \/ Put(t) \/ Leave(t)

Spec == Init /\ [][Next]_vars

-----------------------------------------------------------------------------
(* Properties.                                                             *)

\* A finished line has a value for every column of its file's header, in its order, all
\* of one object at one time; on a line of a spectrum or of an emission line they are
\* of that line's wavelength, and an extinguished value is 0 just where the extinction
\* curve does not reach.
LineAligned(f, line) ==
  LET wlOf == {line[k][2] : k \in {j \in DOMAIN line : line[j][1] = Col("wl")}}
  IN /\ [k \in DOMAIN line |-> line[k][1]] = Header(f)
     /\ \A k \in DOMAIN line : line[k][3] = line[1][3]
     /\ \A k \in DOMAIN line, wl \in wlOf :
          /\ line[k][1] \in {Col("spec"), Col("spec_neb"), Col("line_lum"), Col("line_label")} => line[k][2] = wl
          /\ line[k][1] \in {Col("spec_ex"), Col("spec_neb_ex")} =>
               line[k][2] = IF wl \in Covered[1] .. Covered[2] THEN wl ELSE 0

\* The datasets of a group have one entry for each of the same rows, in the same order,
\* each as wide as its dataset.
GroupAligned(g, group) ==
  /\ \A d \in DOMAIN group :
       [i \in DOMAIN group[d] |-> group[d][i][1]] = [i \in DOMAIN group["trial"] |-> group["trial"][i][1]]
  /\ \A k \in DOMAIN H5!Datasets(g) :
       LET d == H5!Datasets(g)[k]
       IN \A i \in DOMAIN group[d[1]] : group[d[1]][i][2] = d[2]

Within(f) == \E t \in Threads : pc[t] = "writing" /\ Head(todo[t]).table = f

\* Whatever the threads do, nobody reads a torn or shifted row: outside the critical
\* section of a file its lines, and the datasets of each of its groups, are aligned,
\* and so they are in the consolidated file (OutputManagerAscii.cpp and
\* OutputManagerH5.cpp write*, HDF5Utils.cpp appendFileContents).
RowsAligned ==
  /\ phase # "opening" /\ IsAscii =>
       \A f \in open : /\ \A i \in 1 .. Len(lines[f]) - 1 : LineAligned(f, lines[f][i])
                       /\ Within(f) \/ lines[f][Len(lines[f])] = <<>>
  /\ \A t \in Threads : \A g \in DOMAIN file[t] :
       GroupAligned(g, file[t][g]) \/ (pc[t] = "writing" /\ Head(todo[t]).table = g)
  /\ \A g \in DOMAIN merged : GroupAligned(g, merged[g])

\* The rows a table should have: a galaxy's at every output time; a cluster's in a
\* galaxy simulation whenever the cluster is not disrupted; in a cluster simulation its
\* properties once, and its results at every output time, but spectra and photometry
\* only while it is not disrupted.
ExpectedRows(table) ==
  LET times(u) == IF table = "clusters" THEN {0}
                  ELSE {s \in 1 .. NTimes : table \in {"cluster_spectra", "cluster_phot"} => ~Disrupted(u, s)}
  IN IF table \in Range(GalaxyTables) THEN Trials \X (1 .. NTimes) \X {0}
     ELSE UNION {IF IsGalaxy
                 THEN {key \in {trial} \X (1 .. NTimes) \X Clusters[trial] : ~Disrupted(key[3], key[2])}
                 ELSE {<<trial, s, TheCluster(trial)>> : s \in times(TheCluster(trial))} : trial \in Trials}

WrittenOnce(table, keys) == Range(keys) = ExpectedRows(table) /\ Len(keys) = Cardinality(ExpectedRows(table))

\* The numbers of the trials that have a row in the consolidated file.
TrialsWritten == UNION {{merged[g]["trial"][i][1][1] : i \in DOMAIN merged[g]["trial"]} : g \in open}

\* A finished run has every row of every table it was asked to write and so opened, once;
\* the largest trial number recorded is the largest in the file; and a file of an earlier
\* run is as it was (SimCluster::runTrial, SimGalaxy::runTrial and the managers' write*).
EveryRowWrittenOnce ==
  /\ phase = "closed" /\ ~IsAscii =>
       /\ \A g \in open : WrittenOnce(g, [i \in DOMAIN merged[g]["trial"] |-> merged[g]["trial"][i][1]])
       /\ maxTrial = IF TrialsWritten = {} THEN 0 ELSE Max(TrialsWritten)
  /\ phase = "closed" /\ IsAscii =>
       \A f \in open \cap Range(OpenOrder) :
         LET n == Len(LinesOf(f))
             rows == (Len(lines[f]) - 1) \div n
         IN WrittenOnce(f, [i \in 1 .. rows |-> lines[f][i * n][1][3]])
  /\ \A f \in DOMAIN lines : lines[f] # <<>> => f \in open \/ lines[f] = <<<<"earlier">>>>

\* The clusters a row's values are computed from: a galaxy sums over all of them, the
\* disrupted ones too.
ComputedFrom(row) ==
  IF row.table \in Range(ClusterTables) THEN {row.key[3]} ELSE Clusters[row.key[1]]

\* A galaxy's cluster is written only if it lived to an output time.
Seen(u, time) == IsGalaxy => \E s \in 1 .. time : ~Disrupted(u, s)

\* While a spectrum or photometry is computed, which may abort the whole program, the
\* birth states of the clusters it is computed from are already on disk, so that each
\* can be rebuilt from its row, whether the cluster is still alive or was at an earlier
\* output time; one that was disrupted before its first output time has no row to be
\* rebuilt from (OutputManagerH5.cpp writeCluster, its flush).
RngStateOnDiskFirst ==
  \A t \in Threads :
    ~IsAscii /\ "clusters" \in open /\ pc[t] = "computing" /\
    Head(todo[t]).table \in {"cluster_spectra", "galaxy_spectra", "cluster_phot", "galaxy_phot"} =>
      LET row == Head(todo[t])
      IN \A u \in ComputedFrom(row) :
           Seen(u, row.key[2]) => \E s \in 0 .. row.key[2] : <<row.key[1], s, u>> \in flushed[t]

=============================================================================
