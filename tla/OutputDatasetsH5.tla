--------------------------- MODULE OutputDatasetsH5 ---------------------------
(***************************************************************************)
(* The groups of an HDF5 output file (io::OutputManagerH5): the extensible *)
(* datasets each of them has, by name and number of columns (1 for a plain *)
(* list), the datasets a row is appended to, with the length of the vector *)
(* the row is read from, and the merging of one file into another.         *)
(***************************************************************************)
EXTENDS OutputManager

NWlExtinct == Covered[2] - Covered[1] + 1
List(names) == [i \in DOMAIN names |-> <<names[i], 1>>]
If(b, s) == IF b THEN s ELSE <<>>

CreateFeedbackDatasets == List(FeedbackRow)

CreateSpecNebDataset == If(Nebular, <<<<"spec_neb", NWl>>>>)
CreateSpecNebExtinctDataset == If(Nebular, <<<<"spec_neb_extinct", NWlExtinct>>>>)
CreateNebLinesDatasets ==
  If(Nebular, <<<<"neb_lines", Len(Lines)>>>> \o If(Extinct, <<<<"neb_lines_extinct", Len(Lines)>>>>))

OpenClustersGroup ==
  List(<<"trial", "uid", "target_mass", "birth_mass", "form_time", "feh", "rng">>)
    \o If(Extinct, List(<<"A_V", "A_V_neb">>))

OpenSpectraGroup(ids) ==
  List(ids) \o <<<<"spec", NWl>>>> \o CreateSpecNebDataset \o CreateNebLinesDatasets
    \o If(Extinct, <<<<"spec_extinct", NWlExtinct>>>> \o CreateSpecNebExtinctDataset)
OpenClusterSpectraGroup == OpenSpectraGroup(<<"trial", "time", "uid">>)
OpenGalaxySpectraGroup == OpenSpectraGroup(<<"trial", "time">>)

\* Only real filters have extinguished and nebular counterparts, Lbol has none.
CreatePhotNebDatasets(nRealFilters) ==
  If(Nebular, <<<<"phot_neb", nRealFilters>>>>
                \o If(Extinct, <<<<"phot_neb_extinct", nRealFilters>>>>))
NFilters == Len(Filters) + (IF controls.lbol THEN 1 ELSE 0)
OpenPhotGroup(ids) ==
  List(ids) \o <<<<"phot", NFilters>>>>
    \o If(Filters # <<>>, If(Extinct, <<<<"phot_extinct", Len(Filters)>>>>)
                            \o CreatePhotNebDatasets(Len(Filters)))
OpenClusterPhotGroup == OpenPhotGroup(<<"trial", "time", "uid">>)
OpenGalaxyPhotGroup == OpenPhotGroup(<<"trial", "time">>)

NYieldColumns ==
  Len(controls.isotopes) * (IF controls.decomposed THEN Len(controls.channels) ELSE 1)
OpenClusterYieldsGroup == List(<<"trial", "time", "uid">>) \o <<<<"yields", NYieldColumns>>>>
OpenGalaxyYieldsGroup == List(<<"trial", "time">>) \o <<<<"yields", NYieldColumns>>>>

OpenGalaxyGroup == List(<<"trial", "time", "target_mass", "actual_mass">>)
OpenClusterFeedbackGroup == List(<<"trial", "time", "uid">>) \o CreateFeedbackDatasets
OpenGalaxyFeedbackGroup == List(<<"trial", "time">>) \o CreateFeedbackDatasets

Datasets(group) ==
  CASE group = "clusters" -> OpenClustersGroup
    [] group = "cluster_spectra" -> OpenClusterSpectraGroup
    [] group = "cluster_phot" -> OpenClusterPhotGroup
    [] group = "cluster_yields" -> OpenClusterYieldsGroup
    [] group = "cluster_feedback" -> OpenClusterFeedbackGroup
    [] group = "galaxy" -> OpenGalaxyGroup
    [] group = "galaxy_spectra" -> OpenGalaxySpectraGroup
    [] group = "galaxy_phot" -> OpenGalaxyPhotGroup
    [] group = "galaxy_yields" -> OpenGalaxyYieldsGroup
    [] group = "galaxy_feedback" -> OpenGalaxyFeedbackGroup

\* Their order in openOutputFile().
GroupOrder == ClusterTables \o GalaxyTables

-----------------------------------------------------------------------------
(* A row, dataset by dataset, in the order the writer appends to them.     *)

AppendFeedbackRow == List(FeedbackRow)
AppendNebLinesRow ==
  If(Nebular, <<<<"neb_lines", Len(Lines)>>>> \o If(Extinct, <<<<"neb_lines_extinct", Len(Lines)>>>>))

ClusterRow ==
  List(<<"trial", "uid", "target_mass", "birth_mass", "form_time", "feh", "rng">>)
    \o If(Extinct, List(<<"A_V", "A_V_neb">>))

SpecRow(ids) ==
  List(ids) \o <<<<"spec", NWl>>>> \o If(Nebular, <<<<"spec_neb", NWl>>>>)
    \o If(Extinct, <<<<"spec_extinct", NWlExtinct>>>>
                     \o If(Nebular, <<<<"spec_neb_extinct", NWlExtinct>>>>))
    \o AppendNebLinesRow

\* phot() has the bolometric luminosity pushed at its end.
AppendPhotNebRows ==
  If(Nebular /\ Filters # <<>>,
     <<<<"phot_neb", Len(Filters)>>>> \o If(Extinct, <<<<"phot_neb_extinct", Len(Filters)>>>>))

PhotRow(ids) ==
  List(ids) \o <<<<"phot", Len(Filters \o If(controls.lbol, <<"Lbol">>))>>>>
    \o If(Extinct /\ Filters # <<>>, <<<<"phot_extinct", Len(Filters)>>>>)
    \o AppendPhotNebRows

YieldsRow(ids) == List(ids) \o <<<<"yields", NYieldColumns>>>>
GalaxyRow == List(<<"trial", "time", "target_mass", "actual_mass">>)

Row(group) ==
  LET cluster == <<"trial", "time", "uid">>
      galaxy == <<"trial", "time">>
  IN CASE group = "clusters" -> ClusterRow
       [] group = "cluster_spectra" -> SpecRow(cluster)
       [] group = "cluster_phot" -> PhotRow(cluster)
       [] group = "cluster_yields" -> YieldsRow(cluster)
       [] group = "cluster_feedback" -> List(cluster) \o AppendFeedbackRow
       [] group = "galaxy" -> GalaxyRow
       [] group = "galaxy_spectra" -> SpecRow(galaxy)
       [] group = "galaxy_phot" -> PhotRow(galaxy)
       [] group = "galaxy_yields" -> YieldsRow(galaxy)
       [] group = "galaxy_feedback" -> List(galaxy) \o AppendFeedbackRow

-----------------------------------------------------------------------------
(* Files.  A file is a function from groups to functions from dataset      *)
(* names to sequences of entries <<key, length of the vector>>.            *)

CreateExtensibleDatasets(group) == [d \in {Datasets(group)[i][1] : i \in DOMAIN Datasets(group)} |-> <<>>]

AppendToDataset(file, group, dataset, entry) == [file EXCEPT ![group][dataset] = Append(@, entry)]

\* The contents of one dataset, at the end of another.
AppendDatasetContents(src, dst) == IF Len(src) = 0 THEN dst ELSE dst \o src

\* Every extensible dataset of every group of src is appended to dst's.
AppendFileContents(src, dst) ==
  [group \in DOMAIN dst |->
     [d \in DOMAIN dst[group] |->
        IF group \in DOMAIN src /\ d \in DOMAIN src[group]
        THEN AppendDatasetContents(src[group][d], dst[group][d]) ELSE dst[group][d]]]

=============================================================================
