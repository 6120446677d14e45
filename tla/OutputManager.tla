---------------------------- MODULE OutputManager ----------------------------
(***************************************************************************)
(* What an output manager writes (io::OutputManager), whatever the format: *)
(* which tables a simulation has, and the rows a trial writes into them.   *)
(*                                                                         *)
(* A row of a table is told apart by its key, <<trial, time, uid>>: time 0 *)
(* is a row that does not depend on time, and the uid of a galaxy's own    *)
(* row is 0.  The values are not modelled, only which object, which        *)
(* quantity and which wavelength each of them is of.                       *)
(***************************************************************************)
EXTENDS Naturals, FiniteSets, SequencesExt

CONSTANTS
  Clusters,    \* the clusters of each trial 0, 1, .. by unique id
  DisruptedAt, \* the output time from which each cluster is disrupted
  NTimes,      \* the number of output times
  NWl,         \* the number of wavelengths of a spectrum
  Covered,     \* the wavelengths the extinction curve covers, first and last
  Lines        \* the emission lines the nebular table knows

ASSUME OutputAssumption ==
  /\ IsFiniteSet(DOMAIN Clusters) /\ DOMAIN Clusters = 0 .. Cardinality(DOMAIN Clusters) - 1
  /\ \A trial \in DOMAIN Clusters :
       /\ Clusters[trial] \subseteq DOMAIN DisruptedAt /\ Clusters[trial] # {}
       /\ IsFiniteSet(Clusters[trial]) /\ Clusters[trial] \subseteq Nat
  /\ DisruptedAt \in [DOMAIN DisruptedAt -> Nat]
  /\ NTimes \in Nat \ {0} /\ NWl \in Nat \ {0}
  /\ Covered \in (1 .. NWl) \X (1 .. NWl) /\ Covered[1] <= Covered[2]
  /\ Lines \in Seq(STRING)

\* The simulation controls: [format, simType, specsyn, nebular, extinct, filters,
\* lbol, isotopes, channels, decomposed, write].  Fixed for a run.
VARIABLE controls

Trials == DOMAIN Clusters
Extinct == controls.extinct
Nebular == controls.nebular
Filters == controls.filters
IsGalaxy == controls.simType = "galaxy"

ClusterTables == <<"clusters", "cluster_spectra", "cluster_phot", "cluster_yields", "cluster_feedback">>
GalaxyTables == <<"galaxy", "galaxy_spectra", "galaxy_phot", "galaxy_yields", "galaxy_feedback">>

\* The output.write_* keys relevant to this type of simulation.
RelevantKeys == Range(ClusterTables) \cup (IF IsGalaxy THEN Range(GalaxyTables) ELSE {})

\* The base constructor's checks: something is written at all, and photometry
\* that was asked for is.
SanityChecked ==
  /\ controls.write \cap RelevantKeys # {}
  /\ Filters # <<>> => controls.write \cap {"cluster_phot", "galaxy_phot"} # {}

\* Whether the component a table holds the results of was asked for.
Requested(table) ==
  CASE table \in {"cluster_spectra", "galaxy_spectra"} -> controls.specsyn
    [] table \in {"cluster_phot", "galaxy_phot"} -> Filters # <<>> \/ controls.lbol
    [] table \in {"cluster_yields", "galaxy_yields"} -> controls.isotopes # <<>>
    [] OTHER -> TRUE

\* The tables the constructor creates, in its order.
Created(table) == table \in RelevantKeys /\ table \in controls.write /\ Requested(table)
TablesCreated(order) ==
  FlattenSeq([i \in DOMAIN order |-> IF Created(order[i]) THEN <<order[i]>> ELSE <<>>])

Disrupted(uid, time) == time >= DisruptedAt[uid]

\* galaxy.clusters(), in some order: a disrupted cluster has been moved out of it.
AliveClusters(trial, time) == SetToSeq({u \in Clusters[trial] : ~Disrupted(u, time)})

\* The one cluster of a trial of a cluster simulation.
TheCluster(trial) == CHOOSE u \in Clusters[trial] : \A v \in Clusters[trial] : u <= v

RowOf(table, trial, time, uid) == [table |-> table, key |-> <<trial, time, uid>>]

\* writeClusterSpec and writeClusterPhot skip a cluster that has disrupted, the
\* other writers do not.
ClusterRows(tables, table, trial, time, uid) ==
  IF table \notin tables \/ (table \in {"cluster_spectra", "cluster_phot"} /\ Disrupted(uid, time))
  THEN <<>> ELSE <<RowOf(table, trial, time, uid)>>

\* SimCluster::runTrial: the cluster once, then its results at every output time.
ClusterTrial(tables, trial) ==
  LET uid == TheCluster(trial)
      At(time) == FlattenSeq([i \in 1 .. 4 |-> ClusterRows(tables, ClusterTables[i + 1], trial, time, uid)])
  IN ClusterRows(tables, "clusters", trial, 0, uid) \o FlattenSeq([time \in 1 .. NTimes |-> At(time)])

\* Seeded fault: the writer of yields returns early as the others do
ReturnsEarlyForYields(i, own) == controls.format = "h5" /\ i <= 4 /\ own = <<>>

\* With HDF5 output, the writers of properties, spectra and photometry return before
\* they reach the clusters when the galaxy's own group does not exist.
ReturnsEarly(i, own) == controls.format = "h5" /\ i <= 3 /\ own = <<>>

\* The galaxy's own row, then one for every cluster still alive.
GalaxyRows(tables, i, trial, time) ==
  LET alive == AliveClusters(trial, time)
      own == IF GalaxyTables[i] \in tables THEN <<RowOf(GalaxyTables[i], trial, time, 0)>> ELSE <<>>
  IN IF ReturnsEarly(i, own) THEN <<>>
     ELSE own \o FlattenSeq([c \in DOMAIN alive |->
                    ClusterRows(tables, ClusterTables[i], trial, time, alive[c])])

\* SimGalaxy::runTrial: the five writers in turn, at every output time.
GalaxyTrial(tables, trial) ==
  FlattenSeq([time \in 1 .. NTimes |->
    FlattenSeq([i \in 1 .. 5 |-> GalaxyRows(tables, i, trial, time)])])

TrialRows(tables, trial) ==
  IF IsGalaxy THEN GalaxyTrial(tables, trial) ELSE ClusterTrial(tables, trial)

\* The quantities of a feedback row, in the order both formats write them.
FeedbackRow == <<"n_sn", "mdot_wind", "pdot_wind", "edot_wind">>

=============================================================================
