-------------------------- MODULE OutputManagerAscii --------------------------
(***************************************************************************)
(* The text files of ascii output (io::OutputManagerAscii).  A column is   *)
(* <<name, suffix>>; a line is a sequence of cells <<column, wavelength>>, *)
(* the wavelength the one the value is of, 0 where there is none.          *)
(***************************************************************************)
EXTENDS OutputManager

Col(name) == <<name, "">>
Cols(names) == [i \in DOMAIN names |-> Col(names[i])]
When(b, s) == IF b THEN s ELSE <<>>

\* The columns of a feedback file: trial, time, and the uid of a cluster, before them.
FeedbackHeader(hasUid) ==
  Cols(<<"trial", "time">>) \o When(hasUid, <<Col("uid")>>) \o Cols(FeedbackRow)

ClustersHeader ==
  Cols(<<"trial", "uid", "target_mass", "birth_mass", "form_time", "feh">>)
    \o When(Extinct, Cols(<<"a_v", "a_v_neb">>)) \o <<Col("rng")>>

\* One line per wavelength, so the spectrum's columns are its kinds.
SpectraColumns ==
  Cols(<<"wl", "spec">>) \o When(Extinct, <<Col("spec_ex")>>) \o When(Nebular, <<Col("spec_neb")>>)
    \o When(Extinct /\ Nebular, <<Col("spec_neb_ex")>>)
ClusterSpectraHeader == Cols(<<"trial", "time", "uid">>) \o SpectraColumns
GalaxySpectraHeader == Cols(<<"trial", "time">>) \o SpectraColumns

LineColumns == Cols(<<"line_label", "wl", "line_lum">>) \o When(Extinct, <<Col("line_lum_ex")>>)
ClusterNebLinesHeader == Cols(<<"trial", "time", "uid">>) \o LineColumns
GalaxyNebLinesHeader == Cols(<<"trial", "time">>) \o LineColumns

Suffixed(suffix) == [i \in DOMAIN Filters |-> <<Filters[i], suffix>>]
BuildExtinctFilterColumns == When(Extinct, Suffixed("ex"))
BuildNebularFilterColumns == When(Nebular, Suffixed("neb"))
BuildNebularExtinctFilterColumns == When(Nebular /\ Extinct, Suffixed("neb_ex"))

FilterColumns == Cols(Filters) \o When(controls.lbol, <<Col("Lbol")>>)
PhotHeader(ids) ==
  Cols(ids) \o FilterColumns \o BuildExtinctFilterColumns
    \o BuildNebularFilterColumns \o BuildNebularExtinctFilterColumns
ClusterPhotHeader == PhotHeader(<<"trial", "time", "uid">>)
GalaxyPhotHeader == PhotHeader(<<"trial", "time">>)

\* One column per isotope, or one per channel and isotope, channel after channel; the
\* channels' labels carry their places, so that two of one type are told apart.
BuildYieldsColumnNames ==
  IF ~controls.decomposed THEN Cols(controls.isotopes)
  ELSE FlattenSeq([c \in DOMAIN controls.channels |->
         [i \in DOMAIN controls.isotopes |-> <<controls.isotopes[i], controls.channels[c]>>]])
ClusterYieldsHeader == Cols(<<"trial", "time", "uid">>) \o BuildYieldsColumnNames
GalaxyYieldsHeader == Cols(<<"trial", "time">>) \o BuildYieldsColumnNames

GalaxyHeader == Cols(<<"trial", "time", "target_mass", "actual_mass">>)

\* The files of a table: the spectra come with those of the emission lines.
FilesOf(table) ==
  IF table = "cluster_spectra" /\ Nebular THEN <<table, "cluster_neb_lines">>
  ELSE IF table = "galaxy_spectra" /\ Nebular THEN <<table, "galaxy_neb_lines">> ELSE <<table>>

Header(file) ==
  CASE file = "clusters" -> ClustersHeader
    [] file = "cluster_spectra" -> ClusterSpectraHeader
    [] file = "cluster_neb_lines" -> ClusterNebLinesHeader
    [] file = "cluster_phot" -> ClusterPhotHeader
    [] file = "cluster_yields" -> ClusterYieldsHeader
    [] file = "cluster_feedback" -> FeedbackHeader(TRUE)
    [] file = "galaxy" -> GalaxyHeader
    [] file = "galaxy_spectra" -> GalaxySpectraHeader
    [] file = "galaxy_neb_lines" -> GalaxyNebLinesHeader
    [] file = "galaxy_phot" -> GalaxyPhotHeader
    [] file = "galaxy_yields" -> GalaxyYieldsHeader
    [] file = "galaxy_feedback" -> FeedbackHeader(FALSE)

\* The order in which the constructor opens them.
OpenOrder ==
  <<"clusters", "cluster_spectra", "cluster_phot", "cluster_yields", "galaxy", "galaxy_spectra",
    "galaxy_phot", "galaxy_yields", "cluster_feedback", "galaxy_feedback">>

-----------------------------------------------------------------------------
(* The values a writer streams out.  A spectrum is given by the            *)
(* wavelengths it is tabulated on: an extinguished one on those the curve  *)
(* covers only, so entry i of the whole grid is entry i - wlOffset of it.  *)

Spectrum == [i \in 1 .. NWl |-> i]
SpecExtinct == SubSeq(Spectrum, Covered[1], Covered[2])
WlOffset == Covered[1] - 1

\* The entry of an extinguished spectrum at entry i of the grid, 0 outside it.
ExtinctAt(i) ==
  IF i > WlOffset /\ i - WlOffset <= Len(SpecExtinct) THEN SpecExtinct[i - WlOffset] ELSE 0

Plain(names) == [i \in DOMAIN names |-> <<Col(names[i]), 0>>]
AtNoWl(columns) == [i \in DOMAIN columns |-> <<columns[i], 0>>]

SpecNebColumns(i) ==
  When(Nebular, <<<<Col("spec_neb"), Spectrum[i]>>>>
                  \o When(Extinct, <<<<Col("spec_neb_ex"), ExtinctAt(i)>>>>))

\* The lines of one object in a file whose first columns are ids.
SpecLines(ids) ==
  [i \in 1 .. NWl |->
     Plain(ids) \o <<<<Col("wl"), i>>, <<Col("spec"), Spectrum[i]>>>>
       \o When(Extinct, <<<<Col("spec_ex"), ExtinctAt(i)>>>>) \o SpecNebColumns(i)]

NebLines(ids) ==
  [l \in DOMAIN Lines |->
     Plain(ids) \o <<<<Col("line_label"), l>>, <<Col("wl"), l>>, <<Col("line_lum"), l>>>>
       \o When(Extinct, <<<<Col("line_lum_ex"), l>>>>)]

\* phot() with the bolometric luminosity pushed at its end, then the others, whose
\* entries are the filters' alone.
PhotLine(ids) ==
  <<Plain(ids) \o Plain(Filters) \o When(controls.lbol, Plain(<<"Lbol">>))
      \o When(Extinct, AtNoWl(Suffixed("ex")))
      \o When(Nebular, AtNoWl(Suffixed("neb")) \o When(Extinct, AtNoWl(Suffixed("neb_ex"))))>>

\* Cluster::yields(): all the isotopes of a channel, then those of the next.
YieldsLine(ids) ==
  <<Plain(ids) \o
    (IF controls.decomposed
     THEN [k \in 1 .. Len(controls.channels) * Len(controls.isotopes) |->
             <<<<controls.isotopes[((k - 1) % Len(controls.isotopes)) + 1],
                 controls.channels[((k - 1) \div Len(controls.isotopes)) + 1]>>, 0>>]
     ELSE Plain(controls.isotopes))>>

FeedbackLine(ids) == <<Plain(ids) \o Plain(FeedbackRow)>>

ClustersLine ==
  <<Plain(<<"trial", "uid", "target_mass", "birth_mass", "form_time", "feh">>)
      \o When(Extinct, Plain(<<"a_v", "a_v_neb">>)) \o Plain(<<"rng">>)>>

GalaxyLine == <<Plain(<<"trial", "time", "target_mass", "actual_mass">>)>>

LinesOf(file) ==
  LET cluster == <<"trial", "time", "uid">>
      galaxy == <<"trial", "time">>
  IN CASE file = "clusters" -> ClustersLine
       [] file = "cluster_spectra" -> SpecLines(cluster)
       [] file = "cluster_neb_lines" -> NebLines(cluster)
       [] file = "cluster_phot" -> PhotLine(cluster)
       [] file = "cluster_yields" -> YieldsLine(cluster)
       [] file = "cluster_feedback" -> FeedbackLine(cluster)
       [] file = "galaxy" -> GalaxyLine
       [] file = "galaxy_spectra" -> SpecLines(galaxy)
       [] file = "galaxy_neb_lines" -> NebLines(galaxy)
       [] file = "galaxy_phot" -> PhotLine(galaxy)
       [] file = "galaxy_yields" -> YieldsLine(galaxy)
       [] file = "galaxy_feedback" -> FeedbackLine(galaxy)

=============================================================================
