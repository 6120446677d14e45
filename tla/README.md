# Verification of slug

TLA+ specifications of slug3, a stochastic stellar population synthesis code (C++23
with OpenMP, MPI and HDF5, and the Python package `slugpy`), the TLC configurations
that check them on small instances, and TLAPS proofs about them.

## The system

| Part | State | Operations | What is hard |
|---|---|---|---|
| `main.cpp` | MPI environment, exit status | launch, `--restart`, report, finalize | an exception on one rank only |
| `SimCluster`, `SimGalaxy` | batch, trials done, SIGTERM flag | `run`, `runTrial` | threads finish trials in any order, failing trials, SIGTERM in the middle of a batch |
| `OutputManagerH5` | checkpoint number, open files, highest trial written; the files on disk | construct, restart, write, roll over, close, synchronise, consolidate | crashes between any two of its steps; ranks that must agree |
| `MPIUtils` | none | split of a batch, barrier, reduction, finalize | ranks in different collectives |
| `UniqueIDManager` | next ID | `get`, `read`, `set` | IDs over restarts with other rank counts |
| `SigtermGuard` | flag, previous handler | install, receive, restore | signals outside `run` |
| `Cluster` | star list, living stars, cached spectra and yields, birth random state | construct, rebuild, `advance`, `compute…` | lazily computed quantities, order of deaths |
| `Galaxy` | clusters, field stars, disrupted clusters, caches | `advance`, `compute…` | events inside a time step |
| `RngThread`, `ThreadVec` | per-thread generator, per-thread objects | draw, save, restore | replay of a saved state |
| `elem` | isotope table, decay chains | build a chain, decay | branches that join |
| `yields` | channels and tables | yield of a star | fall-backs at table edges |
| `tracks`, `interpolation` | meshes, splines | bracket, walk, interpolate | boundaries, descending axes |
| `pdfs` | segments and weights | parse, draw, integrate | stopping rules of sampling |
| `kden` | k-d tree | build, search | pruning |
| `specsyn` | libraries in a chain | choose, synthesise | ranges that overlap or leave gaps |
| `extinct`, `nebular`, `feedback`, `phot` | tables | evaluate | real arithmetic |
| `SimControls`, `TrackedDeck` | parsed deck, keys read | parse, build components | keys never read |
| `OutputManagerAscii` | text files | write | formatting |
| `pybind` | none | wrap | none of its own |
| `slugpy` | readers, tools | read, consolidate, run, download, fit | a run on disk in every intermediate state |

A session is one launch of the program on some number of MPI ranks.  `main` builds a
`SimControls`, an output manager and a simulation on every rank; `run()` splits each
batch of trials over the ranks and, within a rank, over threads; each trial draws a
unique ID, builds a cluster or galaxy and writes its rows into the files of its thread.
Between batches `checkpoint()` closes the files, rank 0 makes their counts global, and
new files are opened.  The destructor does the same for the last time and, in output
mode `h5`, merges each checkpoint's files.  A later session started with `--restart`
learns everything it needs from what lies on disk.

What makes each part correct: checkpoints must say the truth to a restart and never
lose or repeat a trial, a number or an ID; ranks must agree without exchanging more
than one flag; a cached quantity must equal what computing it afresh gives; every star
must die once and yield once; searches must find what a linear scan finds; a choice
among libraries or channels must pick one that covers the star.  The hazards this code
is exposed to are listed at their lines in `PROJECT.json`.

## The modules

| Module | Models | Run |
|---|---|---|
| `MPIUtils` | `mpiPartitionRange` | all of the next |
| `OutputManagerH5` | a run's checkpoints on disk, what a restart reads there, and each operation on them | |
| `CheckpointedRun` | sessions, ranks, threads, batches, collectives, the life of the output manager, faults and the user | `ranks`, `merge` and three violations |
| `TrialLedger` | the abstract specification: trials recorded as done only grow, with new numbers, up to `n_trial` | `ranks` |
| `RunProperties`, `RunInvariant` | what a run has to get right; the refinement mapping; the inductive invariants `IInv`, `DiskInv`, `NumbersInv`, `DoneInv`, `LedgerInv` and `SessionInv`, each with the ones before it, and `UidInv`, with `DiskInv` | |
| `ConsolidateCheckpoints` | slugpy's consolidating tool and its search for files, on top of `CheckpointedRun` | `tool` |
| `CheckpointedRunProofs`, `TrialsDoneProofs`, `LedgerProofs` | theorems and proofs of agreement and of names and files; of the numbers, the IDs and the set of the trials done; of their count, of the ledger and of ranks that wait; each module on top of the one before | |
| `ToolProofs` | theorems about a run beside the tool, on top of `CheckpointedRunProofs` | |
| `PDF` | draws as reads of a generator | |
| `Cluster`, `Galaxy` | living masses; a galaxy of clusters and field stars, its steps, deaths and cached results | `galaxy` |
| `GalaxyProofs` | the invariants of a galaxy, their proofs and the theorems they give | |
| `SimControls` | reading an input deck and what is recorded of it; every reader, check and default | |
| `ControlsSetters` | setters, installed objects, the Python constructor | `controls` |
| `ControlsProofs` | the invariant of the controls, its proof and the theorems it gives | |
| `OutputManager`, `OutputDatasetsH5`, `OutputManagerAscii` | which tables and rows a simulation has; the datasets of a group; the columns of a text file | |
| `OutputWriting` | threads writing their trials' rows in either format | `output` |
| `SequenceLemmas` | facts about sequences joined, cut and mapped, none of them about this program | |
| `OutputProofs` | the invariant of `OutputWriting`, lemmas about rows, the steps of the threads, and the theorems | |
| `Interpolator1D` | interpolation in a table | |
| `Mesh2DGrid`, `MeshQueries` | where a line crosses a mesh, step by step; queries of a thread and the cell it saves | |
| `Mesh2DInterpolator`, `Mesh3DInterpolator` | interpolation from the crossings, lazily or not; slices | |
| `StellarTracks`, `TracksProperties` | reading, cutting and padding of track sets; ages and living masses | |
| `GridBracket` | finding the interval of a grid, from where the last one was | |
| `DecayChain`, `YieldChannel`, `Yields`, `YieldsProperties` | decay chains; tables of yields; channels that come and go | |
| `KDTree`, `KernelDensity` | kernel widths; the tree and its search; densities within a tolerance | |
| `SpecsynLib`, `SpecsynLibChained` | a library of spectra made from a file's groups, and the cells of a star; several in a chain | |
| `MCScience` | composes meshes with tracks, yields, densities, draws and spectra as five jobs of one instance | `science`, `late_entry` |
| `Sampling` | `PDF::drawTarget` under every policy | `science` |
| `MCRanks`, `MCGalaxy`, `MCControls`, `MCOutput` | instances for TLC; `MCRanks` bounds when trials may throw | |

`CheckpointedRun` is composed with `ConsolidateCheckpoints` by interleaving on the same
disk, and with the rest only by the rows a trial writes.  `Galaxy` uses `Cluster` and
`PDF`; what tracks, synthesizers and yields tell it are constants there, and
have modules of their own.

### Checkpointed runs

`hasDir`, `files` and `h5` are the output directory: for each checkpoint number the
directory `<model>_chkNNNNN`, each rank's files in it, and the consolidated file.  A
file has a status (`open`, `torn` by a crash, `closed` with its attributes), rows, and
the attributes `trials_completed`, `max_trial` and `restart_uid`.  The observer `done`
holds the trials that ended while the file was open; the code does not have it.

`prior`, `restartMax`, `chkNum`, `count`, `maxTrial`, `nextUid` and `sigterm` are the
members of the same meaning of each rank's process; `batchStart`, `nextTrial` and `task`
are the loop of `run()` and its dynamically scheduled threads; `vote` is a rank's
argument to the reduction; `exit` is how `run()` ended, and `pc` where the rank is.
Every rank's steps interleave with every other's, and a thread's steps with the other
threads' of its rank.  The collectives are joint steps: a rank waits until all ranks of
the session are in one of the same kind, and ranks left in different kinds wait forever.

`SyncRead`, `SyncWrite` and the `Merge` actions take one file at a time, the removal of
merged files too (`MergeUnlink`), because a crash may fall between two of them.  `Crash` ends the session anywhere; files that were open
stay without attributes; a half-filled consolidated file, being a copy of a closed one,
may be legible afterwards or not.  `DeleteUnreadable` is the user doing what the error
message of a refused restart says.

Abstractions: a rank's thread files are one record, since they are opened and closed
together with equal attributes.  A row is a trial number and its unique ID; every trial
that ends has written a row.  The build with OpenMP and MPI is modelled; without MPI it
behaves as one rank does.  Unique IDs never exhaust a rank's stride, `n_trial` is the
same in all sessions.  SIGTERM outside `run()` ends the process like any kill does
(`Crash`).  Writing a file's attributes at its closing is one step per rank.  An
exception of the constructor leads to `MPI_Finalize` on that rank, as in `main`.
Bounds: `MaxRanks`, `MaxChk`, `MaxSessions`, `RankCounts` and `Faults`.  The bound on
checkpoints never stops a run in the checked instances (a rank would then wait forever,
and `NoHang` and `SessionEnds` would fail).

`ConsolidateCheckpoints` adds `tool` (where the Python function is, and the files it
found), `tmp` and `dest` (the temporary and the consolidated file).  The directory is listed
once (`Entries`) and its entries are looked at one after another later: one that is
still there is looked up (`FindEntry`) and, if it was a directory without consolidated
file, listed itself (`ListFiles`); one that is gone is passed over (`SkipEntry`).  These and
checking, copying, comparing and deleting a file are steps of their own;
the run's steps and the death of either fall in between.  Cleaning up is left to a user
who waits for the session to end and launches none meanwhile, and nobody deletes
checkpoints by hand while the tool works: without that, a checkpoint could be replaced
by another of the same name under it.  A file open for writing cannot be opened
(HDF5's file locks); that a reader's lock might disturb the run is left out.

### Galaxies and clusters

`gal` is the galaxy with its members; a star is a record of its mass and birth, and a
spectrum, photometry or yield the bag of what contributed to it, so that counting a star
twice, or one that is dead, shows.  A step of `advance` takes the events inside it in the
code's order.  `MaxCalls` results, of the galaxy or of one of its clusters, are asked for
between two steps; each runs the code's chain of lazily computed results.  The generator
is a tape of numbers and the position on it (`PDF`), which makes the replay of a saved
state a claim about how many draws come before which.  `census` is an observer of all
stars that were formed.

### Controls

A deck is a function from keys to values.  `SimControls` runs the readers in the code's
order, each of which notes the keys it used and may refuse the deck.  A distribution is
what is checked of it: the set of [Fe/H] it gives, the largest mass of an IMF.  Setters
and the installation of objects made for an earlier state are actions of
`ControlsSetters`, each with its order of checks, changes, rebuilding and roll-back.

### Output of rows

Files are functions from groups to datasets to entries, or sequences of lines of cells.
A thread takes a trial, writes birth rows, then for every output time the galaxy's and
the clusters' rows, each write in its critical section; in text files a row is written
cell by cell.  `Configs` turn each component and table on and off.  A cluster's row is
computed from that cluster, a galaxy's from all its clusters, the disrupted ones too
(`ComputedFrom`).  `EveryRowWrittenOnce` asks for the rows of every table that was asked for,
whatever other tables are; `RngStateOnDiskFirst` for the birth state of every cluster a row is
computed from, but one disrupted before the first output time of its life (`Seen`), which no writer
is ever called for.

### Libraries: meshes, tracks, yields, densities, draws, spectra

`MCScience` has one job at a time; the others' variables stand still.

* A mesh is integer points; `Advance`, `Up` and `Down` go on to one further crossing each, and the
  saved cell (`iSave_`, `jSave_`) survives from one query to the next.  Values are
  interpolated along straight lines; where the values of a mesh are linear in x and y,
  what is interpolated must be the field itself (`FieldReproduced`).  Meshes come from
  a caller, from slices of solids, and from track files, which are cut, padded and then
  asked for ages and living masses (`TracksAsRecorded`).
* Yields: channels are added, set, deleted and rebuilt, directly or all together, with
  queries in between that leave brackets and masses cached.
* Densities: the tree is built level by level, blocks of a node partitioned and exchanged
  as in the parallel code; a search keeps its stack and its list of the nearest; an
  evaluation refines nodes until its bounds are within the tolerance.  A kernel is a
  power of two that falls with distance.
* Draws: values from a small set, in every order.
* Spectra: a chain is made of a request's libraries (`Construct`) and asked for stars
  (`Spectrum`), each answer leaving the places last found on every axis.  A spectrum is
  the set of grid cells it is blended from, with their weights; logarithms are integers,
  with the constant of log g left out.  `SpectraRight` says which libraries may answer: of
  those of the star's type, and for Wolf-Rayet stars of its kind, the first with data around
  the star, or the first with data around it or where its grid ends; the nearest the last one
  has only if there is neither; that what is blended surrounds the star and has its place for
  a mean; and that a library covers the [Fe/H] asked for whenever some [alpha/Fe] in its file
  does.  The first two are both allowed because the comments ask for the second and the code
  does the first (below); of types that no library is of it says nothing.

Bounds on spectra: the six files have gaps in every place where the code looks for them,
an [alpha/Fe] with more metallicities than another, one in between to interpolate at,
three kinds of Wolf-Rayet stars with unlike temperatures, and wavelengths that overlap,
touch and leave gaps.  Two questions are asked of one chain (`MaxAsks`), so that the
second starts at the place the first left.  `TryNudgeAfe` leaves open which of two equally
near [alpha/Fe] is taken, since it follows the order of groups in the file.

A line that enters a mesh through a side in the last row makes `yLim` climb on behind the arrays.
What it meets there is in the model: on the left edge the points of the next column, with
which it makes a limit (`BehindLeft`); on the right edge, and for slopes made on demand, memory
that is anything (`BehindRight`); and a climb that reads on, whose end is not followed (`ReadsOn`,
`Lost`).  Of such lines `CrossingsComplete` and `FieldReproduced` claim only what does not rest on
their limits; that these are right is `LateEntriesRight`, which `late_entry` refutes.

Bounds on meshes, each where the code fails beyond it and the failure is known (below):
the x-ranges of neighbouring rows overlap, no query touches the lowest rib where its edge
leans inward, and rows are long enough for their type of curve.

## The runs

| Run | Question |
|---|---|
| `ranks` | Three sessions of one or two ranks in any order, two threads, four trials in batches of three, crashes and SIGTERM anywhere; in the second session, when it is one rank's, trials that throw before or after their first row: is what is on disk always accurate, unique and restartable, do the ranks agree, is the ledger implemented, and does `UidInv` hold? |
| `merge` | Two ranks with consolidation, crashes and SIGTERM anywhere: are closed rows never lost, is no half trial saved, are collectives matched, does every session end; does the inductive invariant of the proofs hold (`SessionInv`, and with it `LedgerInv` and all that is claimed of numbers and counts)? |
| `tool` | Two ranks that crash anywhere and merge their checkpoints; the tool started and killed at any point: is every row read once, is the tool's output whole, does cleaning up lose nothing? |
| `galaxy` | Five kinds of decks, two tapes, output times up to 4 in any steps, any two results asked for in between: does every star die and yield once, is every result marked current that of the stars alive, is the population kept, does a replayed cluster equal the original? |
| `controls` | Three decks edited key by key, then setters and installed objects, three changes in all: are keys reported truly, are all tables wide enough, is a failing call without effect, does the curve follow what it was made from? |
| `output` | Two threads, two trials, two times, in each trial two clusters of which one is disrupted, every component and table on and off: are rows aligned in every file, written once, and birth states on disk before the synthesis? |
| `science` | All queries of small meshes one after another, all changes of yield channels, all trees of a handful of points, all draws, chains of libraries asked for stars of every type: are answers those of a direct computation? |
| `error_hang` (violation) | A trial throws on one of two ranks. |
| `sigterm_merged` (violation) | A two-rank run in output mode `h5` is stopped by SIGTERM. |
| `error_numbers` (violation) | A trial throws on one of two ranks, the job dies, and it is restarted. |
| `late_entry` (violation) | A line enters a mesh in its last row. |
| `tables_off` (violation) | HDF5 tables of clusters are asked for without the galaxy's own. |

Why the bounds are enough.  Two ranks, two threads and a batch that does not divide evenly
are enough for every disagreement between ranks and every overtaking of threads; three
sessions for a restart of a restart, with fewer ranks and then more again; there
are more checkpoint numbers than the sessions use, or as many (`merge`, where more add no state).  The batch of three with four
trials gives an uneven split, a rollover and a last batch with fewer trials than ranks.
Trials throw in `ranks` only in the second session, on one rank and with no other fault in that
session (`TrialsThrowAlone`): it may restart what a crash or SIGTERM left, and be restarted, on
one rank again.  On several ranks a trial that throws is the business of `error_hang` and
`error_numbers`.
In `tool` two ranks give a checkpoint two files, so that a merge can be half done, and two
sessions a checkpoint left behind by a crash.  In `galaxy` four times and lifetimes that
do not fall with mass put formation, death and disruption before, at and after an output
time, in one step or in several.  In `controls` two edits of a deck and a call, or one and
two calls, let each check meet a value set after the one it is checked against.  In
`output` two threads can be inside each other's writes, and clusters are gone at the
second time or at both; the case of `tables_off` has that run to itself.  In `science` meshes of three rows and columns have inner, border and corner
cells of every slant; a tree of five points in blocks of two has an uneven last block,
ties and several levels.

Fairness: `FairSpec` asks that a rank that can take a step by itself takes one and that a
collective all ranks are in completes, which is what an operating system and MPI provide.
Nothing is asked of the user, the signals or the faults.  `SessionEnds` holds under it
because a failing trial is not among the faults of `merge`; with one it does not
(`error_hang`).  The other components are called and return; their runs check safety.

### What the violations show

* A trial that throws on one rank makes that rank skip the reduction of the SIGTERM
  flags and go to the destructor's barrier, while the other ranks wait in the reduction
  (`SimCluster.cpp:288-299` and `335`; `SimGalaxy::run` is the same).
* The destructor consolidates after SIGTERM too, and a consolidated run cannot be
  restarted on several ranks, contrary to the header's "once an entire run has completed
  normally" (`OutputManagerH5.hpp:416-421`).
* A trial that throws on one rank can make a restart number trials anew with numbers that
  are on disk.  After a rollover, that rank closes its file of the new checkpoint before
  another rank has opened its own, and the job dies.  The checkpoint is then a single
  complete file; `restartSetup` compares the files it finds and not their number with that
  of the ranks (`OutputManagerH5.cpp:596-653`), and takes the one rank's highest number,
  which is below those the other rank wrote before the rollover.  `OutputManagerH5.hpp:368-371`
  says that new numbers are "guaranteed never to collide with one already written".
* `yLim` returns (6,6) for a line that is in the mesh from 6 to 8, since it climbs past the
  last row after entering there (`Mesh2DGrid.cpp:386-389`): for the left edge it takes the foot
  of the next column, and meets a second limit.  The comment at `Mesh2DGrid.cpp:501-505`
  knows of the reading and says that "it simply happens not to corrupt yLim()'s own
  result in practice".
* The HDF5 writers of a galaxy's properties, spectra and photometry return before they come to
  its clusters when the galaxy's own table is off (`OutputManagerH5.cpp:1979`, `2013`, `2065`), and
  the clusters' tables stay empty, where `doc/sphinx/parameters.rst:153-160` makes
  `write_cluster` and its like the only switches.  `OutputManager.hpp:156-161` describes the return;
  `OutputManagerAscii.hpp:126-129` describes it too, and the text writers do not do it
  (`OutputManagerAscii.cpp:1319-1340`).

### Seen while modelling, without a run of their own

Checkpoints:

* A run that died while it was consolidating, restarted on some ranks and then on more, has
  some ranks refuse and others wait (`OutputManagerH5.cpp:517`): those that have a file in
  the last directory find their ID there, the others go back to a checkpoint that is
  consolidated.  TLC finds it for rank counts 1 and 2, three launches and two crashes;
  `NeverHangs` shows that it does not happen where all sessions have the same number.
* What `error_numbers` shows breaks `RestartIsAccurate` too, the count of trials as well as
  the highest number.  The runs and the theorems claim both for one rank with failing
  trials and for several without.
* `--restart` without a checkpoint numbers trials from 1, since the highest number 0 is taken
  for one that was written (`SimCluster.cpp:185`); the message at
  `OutputManagerH5.cpp:566-567` says "starting from trial 0".
* `crossCheckAttr`'s comment calls disagreeing attributes corruption, but a crash inside
  `syncCheckpoints` leaves them too (`143-152`).
* A crash during consolidation leaves a file that makes later consolidations of the
  checkpoint fail (`1757`).  If it is legible, it has its attributes and part of the rows:
  slugpy's reader and tool prefer it to the directory that has them all, without a word
  (`slug_reader.py:175-204`); `HalfMerged` keeps this case out of `RowsReadOnce`.  The tool
  deletes only what it consolidated, so `NothingLost` holds of it too.
* The tool checks that attributes are present, not that they agree: after a crash between
  closing and synchronising, `trials_completed` of its output is one rank's.
* Killed while cleaning up, the tool leaves some checkpoints, which the reader prefers to
  the complete file.
* A checkpoint merged while the reader or the tool looks for files can be missing from what
  they find: its directory was listed, is gone when it is looked at and is passed over, and the
  consolidated file is not in the listing (`slug_reader.py:233-244`).  So can files
  the run removes while the directory is listed (`SkipEntry`, `ListFiles`).
  `RowsReadOnce` asks for all rows of the other checkpoints, and for none twice.
* Checkpoint numbers of six digits are written and not recognised; under MPI the comment
  at `SimCluster.cpp:347-350` counts a whole batch where the counter has one rank's share.

Output: a cluster that forms and is disrupted between two output times has no row in any table
(`OutputManagerH5.cpp:2002` goes through the clusters alive), though the galaxy's spectrum counts its
stars (`Galaxy.cpp:389-405`), so its birth state is not to be had when that synthesis fails.  A cluster simulation with
filters and `write_cluster_phot` off passes the manager's check that something is written.

Controls: an extinction curve made earlier can be installed after what it was made from
changed (`Extinct.hpp:866-875`); `setAVDist` keeps its value when the rebuilding throws; a
[Fe/H] within new tracks and outside the old ones is refused in one order and not in the
other.

Meshes and tracks: where neighbouring rows' x-ranges do not overlap, an exit in the row of
entry is skipped; an x exactly on an end of the lowest rib whose edge leans inward is taken
for a line inside; lazy akima
curves get four points at the ends of a rib, fewer than they need, or exactly five, which
makes them linear (`Mesh2DInterpolator.hpp:186-206` says otherwise); a stretch of exactly
two crossings throws for steffen curves (`Mesh2DInterpolator.hpp:385-399`) and falls back
to linear; three loaded metallicities interpolate linearly, because a minimum size is
compared with `>`; a set of two metallicities cannot be loaded for a range.  "x and f must
be the same length" in `Interpolator1D` can never be thrown.

Spectra: `classifyGridType`'s comment says that no star is classified into a type without
a grid, but WNE and WC are told by composition and temperature alone: above 50000 K such a
star is refused by a chain without Wolf-Rayet libraries, as every normal star is by a
chain of white dwarfs alone.  The last resort asks only the last library of the type
(`SpecsynLibChained.cpp:882`), so it throws for a temperature that an earlier library has,
where the header (`SpecsynLibChained.hpp:259-269`) says outside every library's grid; and
for a Wolf-Rayet star that library need not be of its kind.  A library with one log g
rejects every clamped star, because the clamped value is moved inwards past it.  Two
groups with one [Fe/H] make a cell of no width.  `gridCoversRange` looks only at rows
within the range asked for; the rows on either side of it may be empty.

The comments at `SpecsynLibChained.cpp:864-868` and `SpecsynLibChained.hpp:235-242` have a clamped
but more reliable library tried before an unclamped less reliable one; the two passes
(`837-881`) try all libraries where the star is first.  In the instance, with log g 4, temperature 32, [Fe/H] 3 and
the libraries `hot` and `cool`, `cool` answers though `hot` has data where it ends.

Draws: sorted sampling returns a zero for every draw, since the vector is resized before the
batch is inserted at its end (`PDF.hpp:459`), where `doc/sphinx/pdfs.rst:203` says that the draws
are sorted; it loops for ever when a batch rounds to no draws.

Yields: a failed `Yields::rebuildYieldGrid` leaves isotopes, request and channels partly
changed; asking for isotopes that are all skipped throws "does not intersect"; a list that
is the object's own is cleared before it is read.

## What is proved

Of checkpointed runs, for all numbers of ranks, threads, trials, sessions and checkpoints, under
`OutputAssumption` and `RunAssumption` (which only give the constants their types).  The
theorems on numbers and counts of trials also assume `"error" \notin Faults \/ MaxRanks = 1`,
no trial that throws or one rank alone: without it they are false, as `error_numbers`
shows.  The theorems on unique IDs hold with failing trials too; their hypothesis is
`WithinStride`, that no rank draws more IDs than the `mpiUidStride` (2^40) set aside for it
(`MPIUtils.hpp:31-40`).  `NeverHangs` and `GracefulExit` need in addition that nothing is
consolidated, or that all sessions have the same number of ranks, for the latter one rank:
without it the first is false as described above, the second as `sigterm_merged` shows.
Crashes, SIGTERM, restarts on other numbers of ranks, consolidation and the
user's deletions are always allowed.

Of a run beside the tool, for any faults and any number of starts of the tool, under
`ToolAssumption` besides.

Of the rows of a run's output, in both formats, for all clusters, times of disruption, numbers of
trials, output times, wavelengths and threads, filters, isotopes, emission lines and tables
asked for (the last two theorems: if HDF5 tables of clusters are asked for only with the galaxy's,
`GalaxyTablesOn`, without which `tables_off` refutes the first), under `OutputAssumption` (trials are numbered from 0 and have one cluster at
least, the curve of extinction covers some wavelengths) and `WritingAssumption` (threads are
numbered, and what the fields of the controls may hold).

Of the controls, for all decks, edits of them, tables of [Fe/H], masses and isotopes, objects
that are installed and numbers of calls, under `MassAssumption` and `SettersAssumption`
(masses are positive).

Of galaxies, for whatever the generator delivers, all rates of star formation, masses of
clusters and of stars, lifetimes, output times and orders in which results are asked for, under
`TapeAssumption` (a generator delivers numbers), `TracksAssumption` (the tracks cover an
interval of masses, up to the highest there is, and give each a lifetime), `ControlsAssumption`
(what the fields of the controls may hold, and that photometry comes with a synthesizer, which
`SimControls.cpp:1127-1134` sees to) and `GalaxyAssumption` (ranges of rates and of clusters'
masses are not empty, and what never happens comes after the last output time).

| Theorem | Property |
|---|---|
| `SlicesDisjoint`, `SlicesCover` | `mpiPartitionRange` gives every trial of a batch to exactly one rank |
| `Inductive`, `TypeCorrect`, `Agreement` | `IInv`, `TypeOK`, `RanksAgree` |
| `DiskInductive`, `RolloverName`, `RowsSafe` | `DiskInv`, `RolloverNameIsFree`, `ClosedRowsStay` |
| `OnlyTrialsWrite` | a row comes into a checkpoint only from a trial that is running |
| `NumbersInductive`, `NumbersUnique` | `NumbersInv`, `TrialNumbersUnique` |
| `DoneInductive`, `RestartAccurate`, `Budget`, `Rollover`, `WholeTrials` | `DoneInv`, `RestartIsAccurate`, `TrialBudget`, `RolloverOnlyWhenBatchDone`, `NoHalfTrialSaved` |
| `LedgerInductive`, `LedgerImplemented` | `LedgerInv`; the checkpoints of a run implement `TrialLedger` |
| `SessionInductive`, `NeverHangs`, `GracefulExit` | `SessionInv`, `NoHang`, `GracefulExitRestartable` |
| `UidsInductive`, `UidsAreUnique` | `UidInv`, `UidsUnique` |
| `ToolInductive`, `CleanupSafe` | `RunInv` and `ToolInv`, `NothingLost` |
| `WritingKept`, `RowsAlwaysAligned` | `IInv` of `OutputProofs`, `RowsAligned` |
| `RowsWrittenOnce`, `BirthStatesFirst` | `EveryRowWrittenOnce`, `RngStateOnDiskFirst` |
| `SettersInductive`, `FehAlwaysCovered`, `ConstructorAccepts` | `SettersInv`, `FehCovered`, `ConstructorAcceptsConsistent` |
| `FailuresAreAtomic`, `CurveKept` | `FailureAtomic`, `CurveStaysCurrent` |
| `GalaxyInvariant`, `PopulationAlwaysKept` | `GalInv`, `PopulationKept` |
| `ReplayAlwaysExact`, `CachesAlwaysCoherent` | `ReplayExact`, `CachesCoherent` |
| `DeathsAlwaysCountedOnce` | `DeathsCountedOnce` |

**Slices.**  The proof orders the slices (`SlicesInOrder`) and finds the rank of a trial by
division (`Quotient`).

**`IInv`: types and agreement.**  `TypeOK` is not inductive: that `syncCheckpoints` stays
within the natural numbers when it subtracts the prior trials from every file's count needs
`SharesCount`, which needs `ClosedFileCounts` and that all ranks read the same number of
prior trials; and that it visits only ranks of the session needs `SyncVisitsRanks`.
No rank learns what another computed, so the proof of `RanksAgree` follows each value to its
source.  `SetupReadsDisk`: as long as a rank is opening its first files, what any rank read
equals what the disk still says, because no rank changes the disk before all have read it.
`SamePhase`: barriers keep the ranks in one phase, so a rank in one phase rules out what
belongs to another (`OnePhase`, `Apart`).  Then prior trials, highest number and checkpoint
number agree, therefore batches do, and the reduction gives every rank the same answer.

**`DiskInv`: names and files.**  Checkpoints are always numbered `0 .. n` without gaps, and
where a rank is tells which `n` (`NumbersTaken`): the one before its own while it looks for
the name and makes the directory, its own from the opening of its file on.  This is
preserved because no rank can be past a barrier that rank 0 has not reached, so the only
step that adds a number finds all other ranks waiting; and because a restart's constructor
reads `MaxCheckpoint`, which is `n` where there are no gaps.  `FilesNew` and `NoStrays` say
that no rank opens a file it has had before, which `RowsSafe` needs at opening;
`MergedSoFar` says what of a checkpoint the consolidated file being filled has, which it
needs when a merged directory is removed.

**`NumbersInv`: numbers of trials.**  A new number must be above all on disk.  `BatchesTogether`:
all ranks are in the same batch, so slices keep numbers of one batch apart, and within a
rank `nextTrial` goes up (`TasksTaken`, `TasksApart`, `RowsTaken`).  Across batches and sessions,
`EarlierLower` says that rows of earlier checkpoints have lower numbers than the batch, and
`HighestKnown` that `maxTrial_` and `max_trial` cover every row they stand for.  That is
where files that agree on a wrong number would do harm: they agree without having been
synchronised only if no rank wrote a trial the others do not know of, which needs
`FilesOpened`, `OnlyOurFiles`, and that a rank that left `run()` by an exception is alone
(`FailsAlone`, the assumption above).

**`DoneInv`: counts of trials.**  `DoneHasRows`, `TasksNotDone` and `TakenDone` follow each
trial from its slice through its thread into the file of its rank, so that a batch the
ranks go on from is done (`BatchesDone`).  `OthersOld`, `NewBounded` and `CountsKnown` say
what `trialsCompleted_` and the prior trials are the number of: the trials of the rank in
this session, and those of all sessions before, told apart by their numbers.  `CountSynced`
is the sum `syncCheckpoints` has reached, which at its end is all of `DoneOnDisk`
(`NewAndOld`, with sets of different ranks disjoint).  `CountsAccurate` then says that a
count all files of a checkpoint agree on is that of the trials in it and those before; the
hard case is a file closed last whose count happens to agree with the others' before
synchronisation, and there no rank but it has done a trial (`OthersNothing`, by `MaxAttained`).
`CopiesOnly` keeps the trials through consolidation.  `BudgetKept` needs that a batch ends
where the trials that remained end, and `LeftReadable` that a session that ends by itself
leaves a checkpoint to restart from.

**`LedgerInv`: refinement.**  Under the mapping of `RunProperties` (`Recorded`) every step
leaves the ledger as it is (`LedgerSame`) or adds a checkpoint's trials to it (`LedgerGrows`);
there is a lemma for each action that touches the disk.  Closing the last file, or giving
the last file the totals, makes a checkpoint readable; its numbers are above all others
(`Ascending`).  A file given the totals after all had agreed was given what it said before
(`AgreedIsSum`, with `HighestFound`); a rank that opens a file beside one that is closed
already finds it empty (`NothingToDo`); what consolidation, a crash or a deletion changes
does not make a checkpoint with trials in it readable or unreadable (`SealedWhole`).

**`SessionInv`: ranks that wait.**  Within the run the ranks' collectives match because all
leave a batch together (`BatchesTogether`).  The constructor is harder: a rank that throws goes
to `MPI_Finalize` at once, and one that does not goes to a barrier.  `ThrewAlike` and
`OpenPassed` say that either was for what is still on disk.  Most of that is the same for all
ranks, but `findRestartUidForRank` looks for a rank's own files, in checkpoints that need not
be the last.  It finds them closed (`EarlierSettled`, `DirectoryGivesId`), so it throws only
where the last checkpoint with anything of the rank is consolidated.  `ConsolidatedInOrder`
says that this is so of all ranks or of none where all sessions have the same number of
them: either the last checkpoint is consolidated, or some directory above every consolidated
file has the files of all ranks (`MergedAlike`, `KeepsAll`).  Consolidation goes up from the
first checkpoint, so up to its end the last directory is one (`LastMergedStep`); a restart
makes the next checkpoint above it, and before there is one it was refused or has found its
ID in such a directory (`UnmergedFirst`); a crash spares files that are closed, and the user
deletes no directory whose files agree (`KeptReadable`).  `GracefulExit` then follows from
`LeftReadable` and the same two lemmas.

**`UidInv`: unique IDs.**  A rank takes the next ID from the last checkpoint that has a file
of its own, which need not be the last checkpoint, or the ID of rank 0 from a consolidated
one, and starts at its first otherwise.  `UidsSaved` says that what such a file saves is above
all IDs of its rank in the checkpoints up to it; none of its rows are in later checkpoints,
or it would have a file there.  The file is never one that a crash left open:
`EarlierClosed`, all files are closed before the next checkpoint is made, because rank 0 is
the last to leave the barrier; the files of the last checkpoint are open or are refused.
`NextUidNew` carries this through a session, where rows come only from tasks, whose IDs were
drawn from the rank's own (`TaskUidsNew`, `WithinStride`).  A consolidated file saves only rank 0's ID;
that is enough, because several ranks are refused there.

**`RunInv` and `ToolInv`: cleaning up.**  `DiskInv` does not survive the tool: a tool that dies
while it deletes leaves gaps (`NoGaps`) and a restart does not number from 0.  `RunInv` is what
of it the run's own steps need to lose nothing: a rank that checked the name of its next
checkpoint still finds it free (`FreeName`), because all other ranks are in the same phase;
directories are there before files are opened in them; and `NoStrays`, `FilesNew` and
`MergedSoFar` as before.  The tool touches the disk only between sessions (`IdleKeeps`), when
no rank knows anything.  `ToolSure` follows what the tool verified into what it deletes: the
files up to `next` are in the temporary file, then all of them, then all are in the output
under its final name, and nothing changes meanwhile because no session is launched (`RunStep`:
a user who has the tool clean up waits for the session to end, and launches none before the
tool has).  Nothing is assumed of the order the files are in.  A
row that goes with a file is in the output (`LossOf`, `DeletedSafe`); a directory goes only
without files (`RemoveEffect`).

**`IInv` of output: rows.**  None of the three properties is inductive: `RowsAligned` says
nothing of a row that is half written, and `EveryRowWrittenOnce` nothing before the end.  The
invariant asks for a function `done`, the keys of the rows written whole to each file in
their order; with HDF5 each thread has files of its own, with text all share them.  From
`done` and the number of steps a thread has made of its row follows everything that is on
disk: dataset `k` of a group has one row more than `done` if its thread is past step `k`
(`Groups`); a text file has the lines of `done` and those of the one row that is being
written, the last perhaps without its end (`Texts`).  One row, because a thread that writes
holds the section of its file (`Exclusion`); so the file of another thread, and of this
thread's other tables, stays (`KeysIn` and `TextIs` are unchanged by others' steps).  `Books`
is the account of rows: a row of a trial that was begun is with exactly one thread or in
exactly one file, so that with nothing to do everything is written once; `Merged` carries that
through the consolidation, and `LargestSeen` says that `maxTrial_` is the highest trial with a
row begun.  For birth states `InPlace` is needed: a thread has what is left of its
trial's rows and the rows before are in its files, and in a trial's rows a cluster's own
row comes before all that are computed from it (`BirthBefore`).  That is a fact about the code's
loops, found by following a row through the sequences they are joined from
(`ClusterTrialElements`, `GalaxyTrialElements`, `FlattenPlace`).  That the writer of the
clusters is reached for each of them is `WritersReached`, for which `GalaxyTablesOn` is there.

Sequences of sequences are joined with `FlattenSeq`, which is recursive.  `FlatteningExists`
shows that its equation has a solution and what any solution is: the number of
elements up to the n-th sequence, and their places, by induction over a set of natural numbers
(`SetInduction`), which needs no operator as a parameter.  The same induction is behind the
consolidated file (`ConsolidatedFile`) and the lines of a spectrum.

**`SettersInv`: controls in order.**  `FehCovered` is not inductive: changing one setting is
checked against some of the others, and rests on what an earlier call checked of the rest.
`Ready` says all of it: population, tracks, synthesizer and yields fit, the slice and the
stochastic share are derived from the present values, one rate at most is set, and the
isotopes of a request are those of the present lifetime, since a lifetime that is refused
is followed by making them again with the old one (`MinIsotopeLifetimeSet`: that what is
restored is what was there needs just this).  The proof reads the deck as the constructor
does, stage by stage, each reader setting one part and leaving the others alone (`BuiltReady`).
Then there is a lemma for each setter: the controls stay in order and a current curve current
(`Sound`), and a call that throws changes nothing (`Atomic`).  Removing a channel widens what
the rest cover (`FewerChannelsCoverMore`), a replacement covers what it replaces
(`ReplacementCovers`).  Yields that wait to be installed carry no request (`IsObject`), so
their isotopes cannot be those of an outdated lifetime.  `KeysReportedTruly` is not proved: it
compares the readings of two decks, key by key.

**`GalInv`: a galaxy and its stars.**  Its three properties speak of `census`, the stars that
ever formed, and of the present lists and results; none of them says how a step gets
from one to the other.  `PopInv` does, for the parts apart.  A cluster has the stars that
its recorded state gives when read from the tape (`BirthKept`), those of them alive at its
time and in the order of their deaths (`StarsKept`), a clock that says whether it is
disrupted (`TimesKept`), and results that are its own stars' where marked current
(`CachesKept`).  No two clusters of a galaxy have the same unique ID, the present ones are
those not disrupted (`ListsOk`), and the census is the members of all clusters, the
field stars, and the cells of the continuous part (`CensusIs`, `FieldCensusOk`); the list of
field stars is that of its part of the census that is alive (`FieldListOk`).  `GalSums` is what the
galaxy keeps: where marked current, the sum over clusters, field stars and cells, by which
nothing is counted twice because clusters have different IDs (`SumOverSets`).

That a replayed cluster is the same cluster rests on both constructors reading the same
numbers (`BirthDraws`); that deaths take the stars from the right end of a list, on the order
in which the list is kept when it is built (`SortByDeathTimeDescending`) and on lifetimes
of which only the sign is assumed.  A result asked of a galaxy asks its clusters first:
`Touched` is what a cluster may have become by that, itself but for results that
are now its own stars', and the invariant is shown not to mind (`AskedKeeps`).  Only a step
of time changes the population (`StepIs`, `AdvanceKeeps`): formation follows the draws one by
one, from any position of the tape, by induction over a set of numbers; then each cluster ages,
and the disrupted ones move.  From `GalInv`, `PopulationKept` is that stars of different lists
have different names; `CachesCoherent`, that what shines in the galaxy is what shines in
its parts (`LightIsTrue`), with the extinction of the cluster it belongs to.

**`RelInv`: what the dead left.**  Beside `GalInv`, the counters of a galaxy and of each cluster
are what follows from the stars that have died by its time (`Counted`, `ReleasesKept`), and
the galaxy has accounted for deaths up to its present time.  A step counts what dies in it,
which the code finds in two ways.  Stars drawn are popped off the end of a list: those
popped are just those that die in the step (`DiedStarsIs`), by the order `GalInv` keeps the
list in.  For masses that are not drawn it cuts the ranges alive now from the ranges alive
before, with `subtractMassRanges`.  `RangesOfIs` says what a list of ranges made from a set of
masses is, ascending and not touching; `CutKeeps` follows one range of the minuend
through the subtrahend, with what is already out and what is still to be cut;
`SubtractIs` puts this together, and `DeadBinsIs` says that the result is the masses alive then and dead
now.  Nothing is assumed of lifetimes in this: that is why the code keeps lists of ranges.
The time from which a new cluster counts is its birth, not the galaxy's
last step: nothing of it is gone by then (`Gone`).  What was released before
decays for the length of the step, and that is the decay since each death (`ReleasedAges`);
it is what makes the sum independent of how the evolution is cut into steps.  The clusters' yields and
supernovae are added up one cluster at a time (`ClustersYield`, `ClustersExplode`), the cells
of star formation and mass that are below `minStoch` in the field by `ContinuousDeathsAre`; `DeathsHold` then
has only to see that no star is in two of these.

Each of the invariants of runs was first checked by TLC on the instances of `ranks` and `merge`, `SettersInv` on that of `controls`, `RunInv` and `ToolInv` on that of `tool`, and
that of the rows, with `done` read off the files, on that of `output`, and `GalInv` and `RelInv` on that of
`galaxy`; each was strengthened where it was not inductive.  `merge` still checks `SessionInv`, `ranks` `UidInv`.  The proofs have one lemma per group of conjuncts and one step per action, after lemmas that
say which actions can change a group of variables at all (`DiskSteps`, `KnowsMoves`,
`CountersMove`, `SyncMoves` and their like).

Only model-checked: liveness, which is out of the prover's reach; `RowsReadOnce`, which adds up
the rows of several files with a fold and needs the tool's list of files to hold each of
them, both inductions over data; `KeysReportedTruly`; and everything about the libraries.

## Not modelled

* The values of spectra, photometry, nebular lines, winds and filters, curves other than
  straight lines, the exponentials of decay, and normalisations: real arithmetic without
  control.
* `specsyn`: fluxes and their resampling, libraries used without a chain and the policies
  other than `coerce`, the black-body synthesizer, integration over a mass function, and
  files in which several groups have the same [Fe/H].  What the groups of a Wolf-Rayet
  library say of winds is taken to be the same in all of them (`RawLogRt`).
* `nebular`, `feedback` and `phot` beyond when they are asked and what is kept.
* Parsers of decks, distributions, isotope tables, track and yield files; formats of
  numbers in text files.
* `kden`: percentile cuts, convolution, marginals, batches of queries, a conditional's own
  tree.
* Python: analysis, downloads, running and watching a simulation, and what the reader makes
  of the files once found.
* The single output file of a run without checkpoints.

## Plan

1. (done) `OutputManagerH5`, `CheckpointedRun`, their properties, the inductive invariant,
   its proof and the refinement of `TrialLedger`.
2. (done) `ConsolidateCheckpoints` on top of it.
3. (done) `Cluster` and `Galaxy`, with draws that can be replayed.
4. (done) `SimControls`, its deck and its setters; the rows of both output formats.
5. (done) Meshes, tracks, yields, decay chains, trees and densities, sampling,
   chains of spectral libraries.
6. `progress.py`, `download_data.py`, `run_sim.py`.

Theorems left: `KeysReportedTruly`, deck by deck; the meshes and the trees, whose models fold
over data.
