------------------------------- MODULE MCOutput -------------------------------
(***************************************************************************)
(* The instance of the output run: two threads, two trials, two output     *)
(* times, two clusters a trial of which one is disrupted between them or   *)
(* before the first;                                                       *)
(* three wavelengths of which the extinction curve covers the last two;    *)
(* and configurations that turn every component and every table on and off *)
(* at least once.                                                          *)
(***************************************************************************)
EXTENDS OutputWriting

MCClusters == [trial \in 0 .. 1 |-> {2 * trial, 2 * trial + 1}]
MCDisruptedAt == [u \in 0 .. 3 |-> CASE u = 0 -> 2 [] u = 3 -> 1 [] OTHER -> 9]
MCCovered == <<2, 3>>
MCLines == <<"Ha", "Hb">>

All == Range(ClusterTables) \cup Range(GalaxyTables)
Everything == [format |-> "h5", simType |-> "galaxy", specsyn |-> TRUE, nebular |-> TRUE, extinct |-> TRUE,
               filters |-> <<"B", "V">>, lbol |-> TRUE, isotopes |-> <<"C12", "Fe56">>,
               channels |-> <<"ccsn1", "ccsn2">>, decomposed |-> TRUE, write |-> All]
Bare == [Everything EXCEPT !.specsyn = FALSE, !.nebular = FALSE, !.extinct = FALSE, !.filters = <<>>,
                           !.isotopes = <<>>, !.decomposed = FALSE]

H5Variants ==
  {Everything,
   [Bare EXCEPT !.lbol = FALSE],
   [Everything EXCEPT !.extinct = FALSE, !.write = {"clusters", "galaxy", "galaxy_phot", "cluster_phot"}],
   [Everything EXCEPT !.nebular = FALSE, !.lbol = FALSE, !.decomposed = FALSE,
                      !.write = {"clusters", "galaxy", "cluster_spectra", "galaxy_spectra",
                                 "cluster_phot", "galaxy_phot"}],
   [Bare EXCEPT !.write = {"cluster_phot", "galaxy_phot", "galaxy_spectra"}],
   [Everything EXCEPT !.write = {"cluster_yields", "cluster_feedback", "clusters", "galaxy"}, !.filters = <<>>],
   [Everything EXCEPT !.write = {"galaxy_yields", "galaxy_feedback"}]}

\* The threads meet in the files they share one at a time, so that a few tables at a
\* time are enough.
AsciiVariants ==
  {[Everything EXCEPT !.write = {"cluster_spectra"}, !.filters = <<>>],
   [Everything EXCEPT !.write = {"galaxy_spectra", "clusters"}, !.extinct = FALSE, !.filters = <<>>],
   [Everything EXCEPT !.write = {"galaxy_phot", "clusters"}],
   [Everything EXCEPT !.write = {"cluster_phot"}, !.nebular = FALSE, !.lbol = FALSE],
   [Bare EXCEPT !.write = {"cluster_phot", "galaxy_spectra"}],
   [Everything EXCEPT !.write = {"cluster_yields", "galaxy_feedback"}, !.filters = <<>>],
   [Everything EXCEPT !.write = {"galaxy_yields", "cluster_feedback"}, !.decomposed = FALSE, !.filters = <<>>],
   [Bare EXCEPT !.write = {"galaxy", "clusters"}],
   [Everything EXCEPT !.write = {"cluster_yields"}]}

MCConfigs ==
  {[v EXCEPT !.simType = s] : v \in H5Variants, s \in {"galaxy", "cluster"}} \cup
  {[v EXCEPT !.format = "ascii", !.simType = s] : v \in AsciiVariants, s \in {"galaxy", "cluster"}}

\* HDF5 output of a galaxy simulation that is to write the clusters and not the galaxy.
MCTablesOff ==
  {[Everything EXCEPT !.filters = <<>>, !.lbol = FALSE, !.specsyn = FALSE, !.write = {"clusters", "cluster_yields"}]}
MCEarlier == {{}, {"galaxy_spectra"}}
=============================================================================
