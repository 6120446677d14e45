---------------------------- MODULE ControlsProofs ----------------------------
(***************************************************************************)
(* Controls are in order from their construction on, whatever the deck and *)
(* whatever the calls: the distributions lie within the tables of the      *)
(* tracks, the synthesizer and the yields, what is derived is derived from *)
(* the present values, and the isotopes of the yields are those of the     *)
(* request and lifetime there are.  First each reader of the deck, then    *)
(* each setter, then the steps.                                            *)
(***************************************************************************)
EXTENDS ControlsSetters, SequenceTheorems, TLAPS

-----------------------------------------------------------------------------
(* Reading the deck.                                                       *)

\* A reading has the fields it starts with; a reader may change their values.
ReadingFields == {"deck", "used", "reasons", "wanted", "c", "error"}
IsReading(r) == ReadingFields \subseteq DOMAIN r

\* What a reading starts from, and what looking up, refusing and marking keys leave.
LEMMA ReadingOfDeck ==
  ASSUME NEW d PROVE IsReading(Reading(d)) /\ Reading(d).c = Blank /\ Reading(d).error = FALSE
BY DEF Reading, IsReading, ReadingFields

LEMMA LookUpKeeps ==
  ASSUME NEW r, IsReading(r), NEW ps
  PROVE LET s == LookUp(r, ps) IN IsReading(s) /\ s.c = r.c /\ s.deck = r.deck /\ s.error = r.error
BY DEF LookUp, IsReading, ReadingFields

LEMMA ReadKeeps ==
  ASSUME NEW r, IsReading(r), NEW ps
  PROVE LET s == Read(r, ps) IN IsReading(s) /\ s.c = r.c /\ s.deck = r.deck /\ (r.error => s.error)
BY LookUpKeeps DEF Read, IsReading, ReadingFields

LEMMA RefuseKeeps ==
  ASSUME NEW r, IsReading(r), NEW b
  PROVE LET s == Refuse(r, b)
        IN IsReading(s) /\ s.c = r.c /\ s.deck = r.deck /\ (~s.error => ~b /\ ~r.error)
BY DEF Refuse, IsReading, ReadingFields

LEMMA MarkKeeps ==
  ASSUME NEW r, IsReading(r), NEW p, NEW why
  PROVE LET s == MarkIgnored(r, p, why) IN IsReading(s) /\ s.c = r.c /\ s.deck = r.deck /\ s.error = r.error
BY DEF MarkIgnored, IsReading, ReadingFields

\* The controls have every field of the blank ones.
ControlFields == DOMAIN Blank
IsControls(c) == ControlFields \subseteq DOMAIN c /\ c = [f \in DOMAIN c |-> c[f]]

\* Channels cover some of the metallicities there are, and have a model that is known.
YieldChannels == [feh : SUBSET AllFeH, model : DOMAIN IsotopesOf]
IsYields(y) ==
  /\ y = [f \in {"own", "channels", "requested", "isotopes"} |-> y[f]]
  /\ y.channels \in Seq(YieldChannels)

\* What a reader of anything else leaves alone.
LeavesAlone(c, d) ==
  /\ IsControls(d)
  /\ d.feh = c.feh /\ d.imf = c.imf /\ d.tracks = c.tracks
  /\ d.minStoch = c.minStoch /\ d.frac = c.frac /\ d.sfr = c.sfr /\ d.sfrDist = c.sfrDist
  /\ d.specsyn = c.specsyn /\ d.yields = c.yields /\ d.minLife = c.minLife

\* The fields by name.
LEMMA ControlFieldNames ==
  ControlFields = {"simType", "strict", "outputMode", "interval", "outTimes", "outTimeDist", "flags", "imf",
                   "feh", "tracks", "slice", "minStoch", "frac", "specsyn", "filters", "computeLbol",
                   "computeNeb", "nebular", "avDist", "avField", "avNebFac", "extinct", "minLife", "yields",
                   "snLimits", "winds", "clf", "sfr", "sfrDist", "fCluster"}
BY DEF ControlFields, Blank

LEMMA ControlsHave ==
  ASSUME NEW c, IsControls(c)
  PROVE /\ "simType" \in DOMAIN c /\ "strict" \in DOMAIN c /\ "outputMode" \in DOMAIN c
        /\ "interval" \in DOMAIN c /\ "outTimes" \in DOMAIN c /\ "outTimeDist" \in DOMAIN c
        /\ "flags" \in DOMAIN c /\ "imf" \in DOMAIN c /\ "feh" \in DOMAIN c
        /\ "tracks" \in DOMAIN c /\ "slice" \in DOMAIN c /\ "minStoch" \in DOMAIN c
        /\ "frac" \in DOMAIN c /\ "specsyn" \in DOMAIN c /\ "filters" \in DOMAIN c
        /\ "computeLbol" \in DOMAIN c /\ "computeNeb" \in DOMAIN c /\ "nebular" \in DOMAIN c
        /\ "avDist" \in DOMAIN c /\ "avField" \in DOMAIN c /\ "avNebFac" \in DOMAIN c
        /\ "extinct" \in DOMAIN c /\ "minLife" \in DOMAIN c /\ "yields" \in DOMAIN c
        /\ "snLimits" \in DOMAIN c /\ "winds" \in DOMAIN c /\ "clf" \in DOMAIN c
        /\ "sfr" \in DOMAIN c /\ "sfrDist" \in DOMAIN c /\ "fCluster" \in DOMAIN c
BY ControlFieldNames DEF IsControls

\* Keys read, then perhaps refused.
LEMMA RefuseReadKeeps ==
  ASSUME NEW r, IsReading(r), NEW ps, NEW b
  PROVE LET s == Refuse(Read(r, ps), b)
        IN IsReading(s) /\ s.c = r.c /\ s.deck = r.deck /\ (~s.error => ~b /\ ~r.error)
BY ReadKeeps, RefuseKeeps

\* The readers of everything that other settings do not depend on.
LEMMA GeneralLeaves ==
  ASSUME NEW r, IsReading(r), IsControls(r.c)
  PROVE IsReading(ReadGeneral(r)) /\ LeavesAlone(r.c, ReadGeneral(r).c)
<1> DEFINE ks == {<<"sim_type">>, <<"verbosity">>, <<"strict_input">>, <<"output", "output_mode">>,
                  <<"output", "model_name">>, <<"output", "out_dir">>, <<"n_trial">>,
                  <<"output", "checkpoint_interval">>}
           simType == Value(r, <<"sim_type">>, "")
           mode == Value(r, <<"output", "output_mode">>, "h5")
           interval == Value(r, <<"output", "checkpoint_interval">>, "0")
           strict == Value(r, <<"strict_input">>, "false") = "true"
           b == \/ simType \notin {"galaxy", "cluster"}
                \/ mode \notin {"h5", "h5divided", "ascii"}
                \/ interval # "0" /\ mode = "ascii"
           s == Refuse(Read(r, ks), b)
           t == [s EXCEPT !.c.simType = simType, !.c.outputMode = mode, !.c.interval = interval, !.c.strict = strict]
<1>1. ReadGeneral(r) = t  BY DEF ReadGeneral
<1> HIDE DEF ks, b, simType, mode, interval, strict
<1>2. IsReading(s) /\ s.c = r.c BY RefuseReadKeeps
<1> HIDE DEF s
<1>3. t.c = [s.c EXCEPT !.simType = simType, !.outputMode = mode, !.interval = interval, !.strict = strict]
  BY <1>2 DEF IsReading, ReadingFields
<1>4. IsReading(t) BY <1>2 DEF IsReading, ReadingFields
<1> HIDE DEF t
<1>5. IsControls(t.c) BY <1>2, <1>3 DEF IsControls
<1> QED BY <1>1, <1>2, <1>3, <1>4, <1>5, ControlsHave DEF LeavesAlone

LEMMA OutputLeaves ==
  ASSUME NEW r, IsReading(r), IsControls(r.c)
  PROVE IsReading(ReadOutput(r)) /\ LeavesAlone(r.c, ReadOutput(r).c)
<1> DEFINE s == Read(r, {<<"output", f>> : f \in Flags})
           flags == {f \in Flags : Value(r, <<"output", f>>, "true") = "true"}
           t == [s EXCEPT !.c.flags = flags]
<1>1. ReadOutput(r) = t  BY DEF ReadOutput
<1> HIDE DEF flags
<1>2. IsReading(s) /\ s.c = r.c BY ReadKeeps
<1> HIDE DEF s
<1>3. t.c = [s.c EXCEPT !.flags = flags]  BY <1>2 DEF IsReading, ReadingFields
<1>4. IsReading(t) BY <1>2 DEF IsReading, ReadingFields
<1> HIDE DEF t
<1>5. IsControls(t.c) BY <1>2, <1>3 DEF IsControls
<1> QED BY <1>1, <1>2, <1>3, <1>4, <1>5, ControlsHave DEF LeavesAlone

LEMMA IntegratorLeaves ==
  ASSUME NEW r, IsReading(r), IsControls(r.c)
  PROVE IsReading(ReadIntegrator(r)) /\ LeavesAlone(r.c, ReadIntegrator(r).c)
BY ReadKeeps DEF ReadIntegrator, LeavesAlone

LEMMA OutputTimesLeaves ==
  ASSUME NEW r, IsReading(r), IsControls(r.c)
  PROVE IsReading(SetOutputTimes(r)) /\ LeavesAlone(r.c, SetOutputTimes(r).c)
<1> DEFINE u == Read(r, {OutTime} \cup RangeKeys)
           v == IF Given(r, OutTime) THEN u ELSE Read(u, {<<"output", "log_time">>})
<1>1. \E b, times, dist : SetOutputTimes(r) = [Refuse(v, b) EXCEPT !.c.outTimes = times, !.c.outTimeDist = dist]
  BY DEF SetOutputTimes
<1>2. IsReading(u) /\ u.c = r.c BY ReadKeeps
<1>3. IsReading(v) /\ v.c = r.c BY <1>2, ReadKeeps
<1> HIDE DEF v
<1>4. PICK b, times, dist : SetOutputTimes(r) = [Refuse(v, b) EXCEPT !.c.outTimes = times, !.c.outTimeDist = dist]
  BY <1>1
<1> DEFINE s == Refuse(v, b)
           t == SetOutputTimes(r)
<1>5. IsReading(s) /\ s.c = r.c BY <1>3, RefuseKeeps
<1>6. t = [s EXCEPT !.c.outTimes = times, !.c.outTimeDist = dist] BY <1>4
<1> HIDE DEF s, t
<1>7. IsReading(t) /\ t.c = [s.c EXCEPT !.outTimes = times, !.outTimeDist = dist]
  BY <1>5, <1>6 DEF IsReading, ReadingFields
<1>8. IsControls(t.c) BY <1>5, <1>7 DEF IsControls
<1>9. LeavesAlone(r.c, t.c) BY <1>5, <1>7, <1>8, ControlsHave DEF LeavesAlone
<1> QED BY <1>7, <1>9 DEF t

LEMMA FiltersLeave ==
  ASSUME NEW r, IsReading(r), IsControls(r.c)
  PROVE IsReading(ReadFilters(r)) /\ LeavesAlone(r.c, ReadFilters(r).c)
<1> DEFINE v == Read(r, {<<"phot", "system">>, <<"phot", "registry">>, <<"phot", "vega">>, <<"phot", "filters">>})
<1>1. \E b, f, l : ReadFilters(r) = [Refuse(v, b) EXCEPT !.c.filters = f, !.c.computeLbol = l]
  BY DEF ReadFilters
<1>2. IsReading(v) /\ v.c = r.c BY ReadKeeps
<1> HIDE DEF v
<1>3. PICK b, f, l : ReadFilters(r) = [Refuse(v, b) EXCEPT !.c.filters = f, !.c.computeLbol = l]
  BY <1>1
<1> DEFINE s == Refuse(v, b)
           t == ReadFilters(r)
<1>4. IsReading(s) /\ s.c = r.c BY <1>2, RefuseKeeps
<1>5. t = [s EXCEPT !.c.filters = f, !.c.computeLbol = l] BY <1>3
<1> HIDE DEF s, t
<1>6. IsReading(t) /\ t.c = [s.c EXCEPT !.filters = f, !.computeLbol = l]
  BY <1>4, <1>5 DEF IsReading, ReadingFields
<1>7. IsControls(t.c) BY <1>4, <1>6 DEF IsControls
<1>8. LeavesAlone(r.c, t.c) BY <1>4, <1>6, <1>7, ControlsHave DEF LeavesAlone
<1> QED BY <1>6, <1>8 DEF t

LEMMA NebularLeaves ==
  ASSUME NEW r, IsReading(r), IsControls(r.c)
  PROVE IsReading(ReadNebular(r)) /\ LeavesAlone(r.c, ReadNebular(r).c)
<1> DEFINE v == Read(r, {<<"nebular", "compute_neb">>})
           w == Read(v, {<<"nebular", "log_U">>, <<"nebular", "cov_fac">>, <<"nebular", "line_width">>,
                         <<"nebular", "table">>, <<"stars", "tracks">>, <<"stars", "v_vcrit">>})
           t == ReadNebular(r)
<1>1. \/ \E b, p, why : t = MarkIgnored(Refuse(v, b), p, why)
      \/ \E p, why : t = MarkIgnored(v, p, why)
      \/ t = [w EXCEPT !.c.computeNeb = TRUE, !.c.nebular = [lines |-> TRUE]]
  BY DEF ReadNebular
<1>2. IsReading(v) /\ v.c = r.c BY ReadKeeps
<1>3. IsReading(w) /\ w.c = r.c BY <1>2, ReadKeeps
<1> HIDE DEF v, w, t
<1>4. CASE t = [w EXCEPT !.c.computeNeb = TRUE, !.c.nebular = [lines |-> TRUE]]
  <2>1. IsReading(t) /\ t.c = [w.c EXCEPT !.computeNeb = TRUE, !.nebular = [lines |-> TRUE]]
    BY <1>3, <1>4 DEF IsReading, ReadingFields
  <2>2. IsControls(t.c) BY <1>3, <2>1 DEF IsControls
  <2>3. LeavesAlone(r.c, t.c) BY <1>3, <2>1, <2>2, ControlsHave DEF LeavesAlone
  <2> QED BY <2>1, <2>3 DEF t
<1>5. CASE \/ \E b, p, why : t = MarkIgnored(Refuse(v, b), p, why)
           \/ \E p, why : t = MarkIgnored(v, p, why)
  <2>1. IsReading(t) /\ t.c = r.c BY <1>2, <1>5, RefuseKeeps, MarkKeeps
  <2> QED BY <2>1 DEF LeavesAlone, t
<1> QED BY <1>1, <1>4, <1>5

LEMMA ExtinctLeaves ==
  ASSUME NEW r, IsReading(r), IsControls(r.c)
  PROVE IsReading(ReadExtinct(r)) /\ LeavesAlone(r.c, ReadExtinct(r).c)
<1> DEFINE v == Read(r, {<<"extinct", "AV">>, <<"extinct", "AV_field">>})
           w == Read(v, {<<"extinct", "neb_factor">>, <<"extinct", "model">>, <<"extinct", "registry">>})
           t == ReadExtinct(r)
<1>1. \/ \E p, why, fac : t = [MarkIgnored(v, p, why) EXCEPT !.c.avNebFac = fac]
      \/ \E b, dist, field, fac, x :
           t = [Refuse(w, b) EXCEPT !.c = [[r.c EXCEPT !.avDist = dist, !.avField = field, !.avNebFac = fac]
                                           EXCEPT !.extinct = x]]
  BY DEF ReadExtinct
<1>2. IsReading(v) /\ v.c = r.c BY ReadKeeps
<1>3. IsReading(w) /\ w.c = r.c BY <1>2, ReadKeeps
<1> HIDE DEF v, w, t
<1>4. CASE \E p, why, fac : t = [MarkIgnored(v, p, why) EXCEPT !.c.avNebFac = fac]
  <2>1. PICK p, why, fac : t = [MarkIgnored(v, p, why) EXCEPT !.c.avNebFac = fac] BY <1>4
  <2> DEFINE s == MarkIgnored(v, p, why)
  <2>2. IsReading(s) /\ s.c = r.c BY <1>2, MarkKeeps
  <2>3. t = [s EXCEPT !.c.avNebFac = fac] BY <2>1
  <2> HIDE DEF s
  <2>4. IsReading(t) /\ t.c = [r.c EXCEPT !.avNebFac = fac] BY <2>2, <2>3 DEF IsReading, ReadingFields
  <2>5. IsControls(t.c) BY <2>4 DEF IsControls
  <2>6. LeavesAlone(r.c, t.c) BY <2>4, <2>5, ControlsHave DEF LeavesAlone
  <2> QED BY <2>4, <2>6 DEF t
<1>5. CASE \E b, dist, field, fac, x :
             t = [Refuse(w, b) EXCEPT !.c = [[r.c EXCEPT !.avDist = dist, !.avField = field, !.avNebFac = fac]
                                             EXCEPT !.extinct = x]]
  <2>1. PICK b, dist, field, fac, x :
             t = [Refuse(w, b) EXCEPT !.c = [[r.c EXCEPT !.avDist = dist, !.avField = field, !.avNebFac = fac]
                                             EXCEPT !.extinct = x]] BY <1>5
  <2> DEFINE d == [[r.c EXCEPT !.avDist = dist, !.avField = field, !.avNebFac = fac] EXCEPT !.extinct = x]
             s == Refuse(w, b)
  <2>2. IsReading(s) BY <1>3, RefuseKeeps
  <2>3. t = [s EXCEPT !.c = d] BY <2>1
  <2>4. IsControls(d) BY DEF IsControls
  <2>5. LeavesAlone(r.c, d) BY <2>4, ControlsHave DEF LeavesAlone
  <2> HIDE DEF d, s
  <2>6. IsReading(t) /\ t.c = d BY <2>2, <2>3 DEF IsReading, ReadingFields
  <2> QED BY <2>5, <2>6 DEF t
<1> QED BY <1>1, <1>4, <1>5

LEMMA FeedbackLeaves ==
  ASSUME NEW r, IsReading(r), IsControls(r.c)
  PROVE IsReading(ReadFeedback(r)) /\ LeavesAlone(r.c, ReadFeedback(r).c)
<1> DEFINE v == Read(r, WindKeys \cup {<<"feedback", "sn_mass_range">>})
<1>1. \E b, limits, winds : ReadFeedback(r) = [Refuse(v, b) EXCEPT !.c.snLimits = limits, !.c.winds = winds]
  BY DEF ReadFeedback
<1>2. IsReading(v) /\ v.c = r.c BY ReadKeeps
<1> HIDE DEF v
<1>3. PICK b, limits, winds : ReadFeedback(r) = [Refuse(v, b) EXCEPT !.c.snLimits = limits, !.c.winds = winds]
  BY <1>1
<1> DEFINE s == Refuse(v, b)
           t == ReadFeedback(r)
<1>4. IsReading(s) /\ s.c = r.c BY <1>2, RefuseKeeps
<1>5. t = [s EXCEPT !.c.snLimits = limits, !.c.winds = winds] BY <1>3
<1> HIDE DEF s, t
<1>6. IsReading(t) /\ t.c = [s.c EXCEPT !.snLimits = limits, !.winds = winds]
  BY <1>4, <1>5 DEF IsReading, ReadingFields
<1>7. IsControls(t.c) BY <1>4, <1>6 DEF IsControls
<1>8. LeavesAlone(r.c, t.c) BY <1>4, <1>6, <1>7, ControlsHave DEF LeavesAlone
<1> QED BY <1>6, <1>8 DEF t

\* What the controls have to hold to, one part each.
PopulationRead(c) == c.feh \in SUBSET AllFeH /\ c.imf \in Nat \ {0}
TracksCover(c) == c.feh \subseteq c.tracks.feh /\ c.imf <= c.tracks.mMax /\ c.tracks.mMax \in Nat
SpecsynCovers(c) == c.specsyn # Null => c.feh \subseteq c.specsyn.feh
YieldsCover(c) ==
  c.yields # Null => IsYields(c.yields) /\ c.feh \subseteq YieldsFeH(c.yields.channels)
IsotopesCurrent(c) ==
  c.yields # Null /\ c.yields.requested # {}
    => c.yields.isotopes = IsotopeGrid(c.yields.channels, c.yields.requested, c.minLife)
Derived(c) ==
  /\ c.slice = SliceConstFeH(c.tracks, c.feh)
  /\ c.frac = FracStochMass(c.imf, c.minStoch)
OneRate(c) == c.sfr = "" \/ c.sfrDist = ""

WholeMass(c) == c.minStoch = 0 /\ c.frac = 6
NoRate(c) == c.sfr = "" /\ c.sfrDist = ""
NoObjects(c) == c.specsyn = Null /\ c.yields = Null

\* The stages of a reading: nothing, the distributions, the tracks, the synthesizer,
\* the yields, the rates.
AtStart(c) == WholeMass(c) /\ NoRate(c) /\ NoObjects(c)
WithDistributions(c) == AtStart(c) /\ PopulationRead(c)
WithTracks(c) == WithDistributions(c) /\ TracksCover(c)
WithSpectra(c) ==
  /\ WholeMass(c) /\ NoRate(c) /\ c.yields = Null
  /\ PopulationRead(c) /\ TracksCover(c) /\ SpecsynCovers(c)
WithYields(c) ==
  /\ WholeMass(c) /\ NoRate(c)
  /\ PopulationRead(c) /\ TracksCover(c) /\ SpecsynCovers(c) /\ YieldsCover(c) /\ IsotopesCurrent(c)
WithRates(c) ==
  /\ WholeMass(c) /\ OneRate(c)
  /\ PopulationRead(c) /\ TracksCover(c) /\ SpecsynCovers(c) /\ YieldsCover(c) /\ IsotopesCurrent(c)

\* Controls in order.
Ready(c) ==
  /\ PopulationRead(c) /\ TracksCover(c) /\ SpecsynCovers(c) /\ YieldsCover(c) /\ IsotopesCurrent(c)
  /\ Derived(c) /\ OneRate(c)

\* A stage is reached from nothing, and kept by what leaves its fields alone.
LEMMA BlankReading ==
  ASSUME NEW d
  PROVE LET r == Reading(d) IN IsReading(r) /\ IsControls(r.c) /\ AtStart(r.c)
<1>1. IsReading(Reading(d)) /\ Reading(d).c = Blank BY ReadingOfDeck
<1>2. AtStart(Blank) BY DEF AtStart, WholeMass, NoRate, NoObjects, Blank
<1>3. IsControls(Blank) BY DEF IsControls, ControlFields, Blank
<1> QED BY <1>1, <1>2, <1>3

LEMMA StagesKept ==
  ASSUME NEW c, NEW d, LeavesAlone(c, d)
  PROVE /\ AtStart(c) => AtStart(d)
        /\ WithTracks(c) => WithTracks(d)
        /\ WithSpectra(c) => WithSpectra(d)
        /\ WithYields(c) => WithYields(d)
BY DEF LeavesAlone, AtStart, WithDistributions, WithTracks, WithSpectra, WithYields,
       WholeMass, NoRate, NoObjects, PopulationRead,
       TracksCover, SpecsynCovers, YieldsCover, IsotopesCurrent

\* From each stage to the next.
LEMMA PDFsRead ==
  ASSUME NEW r, IsReading(r), IsControls(r.c), AtStart(r.c)
  PROVE LET t == ReadPDFs(r) IN IsReading(t) /\ IsControls(t.c) /\ (~t.error => WithDistributions(t.c))
<1> DEFINE imf == Value(r, <<"stars", "IMF">>, "")
           feh == Value(r, <<"stars", "FeH">>, "")
           known == imf \in DOMAIN MaxMassOf /\ feh \in DOMAIN FeHRange
           m == IF known THEN MaxMassOf[imf] ELSE 0
           f == IF known THEN FeHRange[feh] ELSE {}
           b == ~known \/ ~Given(r, <<"clusters", "CMF">>)
           s == Refuse(Read(r, PDFKeys), b)
           t == ReadPDFs(r)
<1>1. t = [s EXCEPT !.c.imf = m, !.c.feh = f] BY DEF ReadPDFs
<1>2. known => f \in SUBSET AllFeH /\ m \in Nat \ {0} BY MassAssumption DEF AllFeH
<1>3. b \/ known OBVIOUS
<1> HIDE DEF imf, feh, known, m, f, b, t
<1>4. IsReading(s) /\ s.c = r.c /\ (~s.error => ~b) BY RefuseReadKeeps
<1> HIDE DEF s
<1>5. IsReading(t) /\ t.error = s.error /\ t.c = [s.c EXCEPT !.imf = m, !.feh = f]
  BY <1>1, <1>4 DEF IsReading, ReadingFields
<1>6. IsControls(t.c) BY <1>4, <1>5 DEF IsControls
<1>7. /\ t.c.imf = m /\ t.c.feh = f
      /\ t.c.minStoch = r.c.minStoch /\ t.c.frac = r.c.frac /\ t.c.sfr = r.c.sfr /\ t.c.sfrDist = r.c.sfrDist
      /\ t.c.specsyn = r.c.specsyn /\ t.c.yields = r.c.yields
  BY <1>4, <1>5, ControlsHave
<1>8. ~t.error => WithDistributions(t.c)
  BY <1>2, <1>3, <1>4, <1>5, <1>7 DEF WithDistributions, AtStart, WholeMass, NoRate, NoObjects, PopulationRead
<1> QED BY <1>5, <1>6, <1>8 DEF t

LEMMA TracksRead ==
  ASSUME NEW r, IsReading(r), IsControls(r.c), WithDistributions(r.c)
  PROVE LET t == ReadTracks(r) IN IsReading(t) /\ IsControls(t.c) /\ (~t.error => WithTracks(t.c))
<1> DEFINE name == Value(r, <<"stars", "tracks">>, "")
           tracks == IF name \in DOMAIN MaxMassOf THEN [feh |-> r.c.feh, mMax |-> MaxMassOf[name]] ELSE Null
           b == IF tracks = Null THEN TRUE ELSE r.c.imf > tracks.mMax
           s == Refuse(Read(r, {<<"stars", "tracks">>, <<"stars", "track_registry">>, <<"stars", "v_vcrit">>,
                                <<"stars", "alphaFe">>}), b)
           t == ReadTracks(r)
<1>1. t = [s EXCEPT !.c.tracks = tracks] BY DEF ReadTracks
<1>2. ~b => r.c.feh \subseteq tracks.feh /\ tracks.mMax \in Nat /\ r.c.imf <= tracks.mMax
  <2> SUFFICES ASSUME ~b PROVE r.c.feh \subseteq tracks.feh /\ tracks.mMax \in Nat /\ r.c.imf <= tracks.mMax
    OBVIOUS
  <2>1. tracks # Null /\ ~(r.c.imf > tracks.mMax)
    <3> HIDE DEF tracks
    <3> QED OBVIOUS
  <2>2. tracks.feh = r.c.feh /\ tracks.mMax \in Nat BY <2>1, MassAssumption
  <2>4. r.c.imf \in Nat BY DEF WithDistributions, PopulationRead
  <2> HIDE DEF tracks, b
  <2> QED BY <2>1, <2>2, <2>4
<1> HIDE DEF name, tracks, b, t
<1>3. IsReading(s) /\ s.c = r.c /\ (~s.error => ~b) BY RefuseReadKeeps
<1> HIDE DEF s
<1>4. IsReading(t) /\ t.error = s.error /\ t.c = [s.c EXCEPT !.tracks = tracks]
  BY <1>1, <1>3 DEF IsReading, ReadingFields
<1>5. IsControls(t.c) BY <1>3, <1>4 DEF IsControls
<1>6. /\ t.c.tracks = tracks /\ t.c.imf = r.c.imf /\ t.c.feh = r.c.feh
      /\ t.c.minStoch = r.c.minStoch /\ t.c.frac = r.c.frac /\ t.c.sfr = r.c.sfr /\ t.c.sfrDist = r.c.sfrDist
      /\ t.c.specsyn = r.c.specsyn /\ t.c.yields = r.c.yields
  BY <1>3, <1>4, ControlsHave
<1>7. ~t.error => WithTracks(t.c)
  BY <1>2, <1>3, <1>4, <1>6
     DEF WithTracks, WithDistributions, AtStart, WholeMass, NoRate, NoObjects, PopulationRead, TracksCover
<1> QED BY <1>4, <1>5, <1>7 DEF t

LEMMA SpectraRead ==
  ASSUME NEW r, IsReading(r), IsControls(r.c), WithTracks(r.c)
  PROVE LET t == ReadSpectra(r) IN IsReading(t) /\ IsControls(t.c) /\ (~t.error => WithSpectra(t.c))
<1> DEFINE v == LookUp(r, {<<"spectra", "model">>})
           t == ReadSpectra(r)
<1>1. \/ \E p, q, why : t = MarkIgnored(MarkIgnored(v, p, why), q, why)
      \/ \E b, grid : \E feh \in {Everywhere, r.c.tracks.feh} :
           t = [Refuse(Read(v, SpectraKeys), b) EXCEPT !.c.specsyn = [feh |-> feh, grid |-> grid]]
  BY DEF ReadSpectra
<1>2. IsReading(v) /\ v.c = r.c BY LookUpKeeps
<1> HIDE DEF v, t
<1>3. CASE \E p, q, why : t = MarkIgnored(MarkIgnored(v, p, why), q, why)
  <2>1. IsReading(t) /\ t.c = r.c BY <1>2, <1>3, MarkKeeps
  <2>2. WithSpectra(r.c) BY DEF WithSpectra, WithTracks, WithDistributions, AtStart, NoObjects, SpecsynCovers
  <2> QED BY <2>1, <2>2 DEF t
<1>4. CASE \E b, grid : \E feh \in {Everywhere, r.c.tracks.feh} :
             t = [Refuse(Read(v, SpectraKeys), b) EXCEPT !.c.specsyn = [feh |-> feh, grid |-> grid]]
  <2>1. PICK b, grid : \E feh \in {Everywhere, r.c.tracks.feh} :
             t = [Refuse(Read(v, SpectraKeys), b) EXCEPT !.c.specsyn = [feh |-> feh, grid |-> grid]]
    BY <1>4
  <2>2. PICK feh \in {Everywhere, r.c.tracks.feh} :
             t = [Refuse(Read(v, SpectraKeys), b) EXCEPT !.c.specsyn = [feh |-> feh, grid |-> grid]]
    BY <2>1
  <2> DEFINE s == Refuse(Read(v, SpectraKeys), b)
             x == [feh |-> feh, grid |-> grid]
  <2>3. IsReading(s) /\ s.c = r.c BY <1>2, RefuseReadKeeps
  <2>4. t = [s EXCEPT !.c.specsyn = x] BY <2>2
  <2>5. x.feh = feh OBVIOUS
  <2> HIDE DEF s, x
  <2>6. IsReading(t) /\ t.c = [r.c EXCEPT !.specsyn = x] BY <2>3, <2>4 DEF IsReading, ReadingFields
  <2>7. IsControls(t.c) BY <2>6 DEF IsControls
  <2>8. /\ t.c.specsyn = x /\ t.c.tracks = r.c.tracks /\ t.c.imf = r.c.imf /\ t.c.feh = r.c.feh
        /\ t.c.minStoch = r.c.minStoch /\ t.c.frac = r.c.frac /\ t.c.sfr = r.c.sfr /\ t.c.sfrDist = r.c.sfrDist
        /\ t.c.yields = r.c.yields
    BY <2>6, ControlsHave
  <2>9. r.c.feh \subseteq feh BY DEF WithTracks, WithDistributions, PopulationRead, TracksCover, Everywhere
  <2>10. WithSpectra(t.c)
    BY <2>5, <2>8, <2>9
       DEF WithSpectra, WithTracks, WithDistributions, AtStart, WholeMass, NoRate, NoObjects,
           PopulationRead, TracksCover, SpecsynCovers
  <2> QED BY <2>6, <2>7, <2>10 DEF t
<1> QED BY <1>1, <1>3, <1>4

\* The number of channels of a deck.
LEMMA ChannelsCounted ==
  ASSUME NEW r
  PROVE (CHOOSE k \in 0 .. MaxChannels :
           /\ \A i \in 1 .. k : Has(r, ChannelKey(i))
           /\ k = MaxChannels \/ ~Has(r, ChannelKey(k + 1))) \in Nat
<1>1. \E k \in 0 .. MaxChannels : /\ \A i \in 1 .. k : Has(r, ChannelKey(i))
                                  /\ k = MaxChannels \/ ~Has(r, ChannelKey(k + 1))
  <2>1. CASE ~Has(r, ChannelKey(1)) BY <2>1 DEF MaxChannels
  <2>2. CASE Has(r, ChannelKey(1)) /\ ~Has(r, ChannelKey(2)) BY <2>2 DEF MaxChannels
  <2>3. CASE Has(r, ChannelKey(1)) /\ Has(r, ChannelKey(2)) BY <2>3 DEF MaxChannels
  <2> QED BY <2>1, <2>2, <2>3
<1> QED BY <1>1 DEF MaxChannels

\* Isotopes made again.
LEMMA GridRebuilt ==
  ASSUME NEW y, IsYields(y), NEW requested, NEW life
  PROVE LET z == RebuildYieldGrid(y, requested, life)
        IN /\ IsYields(z) /\ z.own = y.own /\ z.channels = y.channels /\ z.requested = requested
           /\ z.isotopes = IsotopeGrid(y.channels, requested, life)
<1> DEFINE z == RebuildYieldGrid(y, requested, life)
           grid == IsotopeGrid(y.channels, requested, life)
<1>1. z = [y EXCEPT !.requested = requested, !.isotopes = grid] BY DEF RebuildYieldGrid
<1> HIDE DEF z, grid
<1>2. /\ z.own = y.own /\ z.channels = y.channels /\ z.requested = requested /\ z.isotopes = grid
      /\ z = [f \in {"own", "channels", "requested", "isotopes"} |-> z[f]]
  BY <1>1 DEF IsYields
<1> QED BY <1>2 DEF IsYields, z, grid

LEMMA YieldsRead ==
  ASSUME NEW r, IsReading(r), IsControls(r.c), WithSpectra(r.c)
  PROVE LET t == ReadYields(r) IN IsReading(t) /\ IsControls(t.c) /\ (~t.error => WithYields(t.c))
<1> DEFINE n == CHOOSE k \in 0 .. MaxChannels :
                  /\ \A i \in 1 .. k : Has(r, ChannelKey(i))
                  /\ k = MaxChannels \/ ~Has(r, ChannelKey(k + 1))
           Own(i, key) == Append(ChannelKey(i), key)
           v == LookUp(r, {ChannelKey(i) : i \in 1 .. n + 1})
           u == Read(v, {Own(i, key) : i \in 1 .. n, key \in {"channel", "model", "m_min", "m_max"}}
                \cup {<<"yields", key>> : key \in {"channel_decomposed", "no_decay", "min_isotope_lifetime"}})
           minLife == Value(r, <<"yields", "min_isotope_lifetime">>, "short")
           channels == [i \in 1 .. n |-> [feh |-> r.c.feh, model |-> Value(r, Own(i, "model"), "")]]
           requested == IF Given(r, <<"yields", "isotopes">>) THEN {Value(r, <<"yields", "isotopes">>, "")} ELSE {}
           z == [own |-> TRUE, channels |-> channels, requested |-> {}, isotopes |-> {}]
           y == RebuildYieldGrid(z, requested, minLife)
           b == \/ \E i \in 1 .. n : Value(r, Own(i, "channel"), "") \notin Channels
                \/ minLife = "negative"
           s == Refuse(u, b)
           w == [s EXCEPT !.c.minLife = minLife]
           ks == {<<"yields", "registry">>, <<"yields", "isotopes">>}
           x == [Refuse(Read(w, ks), GridFails(y)) EXCEPT !.c.yields = y]
           unknown == \E i \in 1 .. n : channels[i].model \notin DOMAIN IsotopesOf
           t == ReadYields(r)
           unsaved == /\ "write_cluster_yields" \notin r.c.flags
                      /\ "write_galaxy_yields" \notin r.c.flags \/ r.c.simType = "cluster"
           ignoring == MarkIgnored(MarkIgnored(w, <<"yields", "registry">>, "no channel"),
                                   <<"yields", "isotopes">>, "no channel")
<1>0. t = IF w.error THEN w
          ELSE IF n = 0 THEN ignoring
          ELSE IF unsaved \/ unknown THEN Refuse(w, TRUE)
          ELSE x
  BY DEF ReadYields
<1>1. \/ t = w \/ \E p, why, q, else : t = MarkIgnored(MarkIgnored(w, p, why), q, else)
      \/ t = Refuse(w, TRUE) \/ (~unknown /\ t = x)
  <2>1. \E p, why, q, else : ignoring = MarkIgnored(MarkIgnored(w, p, why), q, else)
    <3> HIDE DEF w
    <3> QED OBVIOUS
  <2> HIDE DEF w, n, unknown, unsaved, ignoring, x, t
  <2> QED BY <1>0, <2>1
<1>2. n \in Nat BY ChannelsCounted
<1>3. ~unknown => IsYields(z) /\ z.channels = channels /\ r.c.feh \subseteq YieldsFeH(channels)
  <2> SUFFICES ASSUME ~unknown PROVE IsYields(z) /\ r.c.feh \subseteq YieldsFeH(channels)
    OBVIOUS
  <2> DEFINE e(i) == [feh |-> r.c.feh, model |-> Value(r, Own(i, "model"), "")]
  <2>1. r.c.feh \in SUBSET AllFeH BY DEF WithSpectra, PopulationRead
  <2>2. \A i \in 1 .. n : channels[i] = e(i) /\ channels[i].model \in DOMAIN IsotopesOf OBVIOUS
  <2>3. \A i \in 1 .. n : e(i).feh = r.c.feh /\ e(i).model \in DOMAIN IsotopesOf BY <2>2
  <2>4. \A i \in 1 .. n : e(i) \in YieldChannels BY <2>1, <2>3 DEF YieldChannels
  <2>5. channels \in Seq(YieldChannels) /\ DOMAIN channels = 1 .. n
    <3> HIDE DEF n, e
    <3>1. channels = [i \in 1 .. n |-> e(i)] BY DEF e
    <3> HIDE DEF channels
    <3> QED BY <1>2, <2>4, <3>1
  <2>6. \A i \in 1 .. n : channels[i].feh = r.c.feh BY <2>2, <2>3
  <2> HIDE DEF n, e, channels
  <2>7. IsYields(z) BY <2>5 DEF IsYields
  <2>8. r.c.feh \subseteq YieldsFeH(channels) BY <2>1, <2>5, <2>6 DEF YieldsFeH, Everywhere
  <2> QED BY <2>7, <2>8
<1> HIDE DEF n, channels, minLife, requested, z, b, t, unknown
<1>4. IsReading(v) /\ v.c = r.c BY LookUpKeeps
<1> HIDE DEF v
<1>5. IsReading(s) /\ s.c = r.c BY <1>4, RefuseReadKeeps
<1> HIDE DEF s
<1>6. IsReading(w) /\ w.c = [r.c EXCEPT !.minLife = minLife] BY <1>5 DEF IsReading, ReadingFields
<1> HIDE DEF w
<1>7. IsControls(w.c) BY <1>6 DEF IsControls
<1>8. /\ w.c.specsyn = r.c.specsyn /\ w.c.tracks = r.c.tracks /\ w.c.imf = r.c.imf /\ w.c.feh = r.c.feh
      /\ w.c.minStoch = r.c.minStoch /\ w.c.frac = r.c.frac /\ w.c.sfr = r.c.sfr /\ w.c.sfrDist = r.c.sfrDist
      /\ w.c.yields = r.c.yields /\ w.c.minLife = minLife
  BY <1>6, ControlsHave
<1>9. WithYields(w.c)
  BY <1>8 DEF WithYields, WithSpectra, WholeMass, NoRate, PopulationRead, TracksCover, SpecsynCovers, YieldsCover,
              IsotopesCurrent
<1>10. CASE ~unknown /\ t = x
  <2> DEFINE q == Refuse(Read(w, ks), GridFails(y))
  <2>1. IsReading(q) /\ q.c = w.c BY <1>6, RefuseReadKeeps
  <2>2. /\ IsYields(y) /\ y.channels = channels /\ y.requested = requested
        /\ y.isotopes = IsotopeGrid(channels, requested, minLife)
    BY <1>3, <1>10, GridRebuilt
  <2>8. x = [q EXCEPT !.c.yields = y] OBVIOUS
  <2> HIDE DEF q, y, x
  <2>3. IsReading(x) /\ x.c = [w.c EXCEPT !.yields = y] BY <2>1, <2>8 DEF IsReading, ReadingFields
  <2>4. IsControls(x.c) BY <1>7, <2>3 DEF IsControls
  <2>5. /\ x.c.specsyn = r.c.specsyn /\ x.c.tracks = r.c.tracks /\ x.c.imf = r.c.imf /\ x.c.feh = r.c.feh
        /\ x.c.minStoch = r.c.minStoch /\ x.c.frac = r.c.frac /\ x.c.sfr = r.c.sfr /\ x.c.sfrDist = r.c.sfrDist
        /\ x.c.yields = y /\ x.c.minLife = minLife
    BY <1>7, <1>8, <2>3, ControlsHave
  <2>6. YieldsCover(x.c) /\ IsotopesCurrent(x.c)
    BY <1>3, <1>10, <2>2, <2>5 DEF YieldsCover, IsotopesCurrent
  <2>7. WithYields(x.c)
    BY <2>5, <2>6 DEF WithYields, WithSpectra, WholeMass, NoRate, PopulationRead, TracksCover, SpecsynCovers
  <2> QED BY <1>10, <2>3, <2>4, <2>7 DEF t
<1>11. CASE \/ t = w \/ \E p, why, q, else : t = MarkIgnored(MarkIgnored(w, p, why), q, else)
            \/ t = Refuse(w, TRUE)
  <2> HIDE DEF x, ks, ignoring, unsaved
  <2>1. CASE \E p, why, q, else : t = MarkIgnored(MarkIgnored(w, p, why), q, else)
    <3>1. IsReading(t) /\ t.c = w.c BY <1>6, <2>1, MarkKeeps
    <3> QED BY <1>7, <1>9, <3>1 DEF t
  <2>2. CASE t = w \/ t = Refuse(w, TRUE)
    <3>1. IsReading(t) /\ t.c = w.c BY <1>6, <2>2, RefuseKeeps
    <3> QED BY <1>7, <1>9, <3>1 DEF t
  <2> QED BY <1>11, <2>1, <2>2
<1> QED BY <1>1, <1>10, <1>11

LEMMA GalaxyRead ==
  ASSUME NEW r, IsReading(r), IsControls(r.c), WithYields(r.c)
  PROVE LET t == ReadGalaxy(r) IN IsReading(t) /\ IsControls(t.c) /\ (~t.error => WithRates(t.c))
<1> DEFINE v == Read(r, {<<"clusters", "CLF">>, <<"galaxy", "sfr">>, <<"galaxy", "sfr_dist">>,
                         <<"clusters", "f_cluster">>})
           sfr == Value(r, <<"galaxy", "sfr">>, "")
           sfrDist == Value(r, <<"galaxy", "sfr_dist">>, "")
           b == ~Given(r, <<"clusters", "CLF">>) \/ (sfr = "") = (sfrDist = "")
           s == Refuse(v, b)
           t == ReadGalaxy(r)
<1>1. \/ \E clf, share : t = [s EXCEPT !.c.clf = clf, !.c.sfr = sfr, !.c.sfrDist = sfrDist, !.c.fCluster = share]
      \/ \E p1, p2, p3, why : t = MarkIgnored(MarkIgnored(MarkIgnored(r, p1, why), p2, why), p3, why)
  BY DEF ReadGalaxy
<1>2. ~b => sfr = "" \/ sfrDist = "" OBVIOUS
<1> HIDE DEF b, sfr, sfrDist, t
<1>3. IsReading(s) /\ s.c = r.c /\ (~s.error => ~b) BY RefuseReadKeeps
<1> HIDE DEF s
<1>4. CASE \E clf, share :
             t = [s EXCEPT !.c.clf = clf, !.c.sfr = sfr, !.c.sfrDist = sfrDist, !.c.fCluster = share]
  <2>1. PICK clf, share :
             t = [s EXCEPT !.c.clf = clf, !.c.sfr = sfr, !.c.sfrDist = sfrDist, !.c.fCluster = share]
    BY <1>4
  <2>2. /\ IsReading(t) /\ t.error = s.error
        /\ t.c = [s.c EXCEPT !.clf = clf, !.sfr = sfr, !.sfrDist = sfrDist, !.fCluster = share]
    BY <1>3, <2>1 DEF IsReading, ReadingFields
  <2>3. IsControls(t.c) BY <1>3, <2>2 DEF IsControls
  <2>4. /\ t.c.sfr = sfr /\ t.c.sfrDist = sfrDist
        /\ t.c.specsyn = r.c.specsyn /\ t.c.tracks = r.c.tracks /\ t.c.imf = r.c.imf /\ t.c.feh = r.c.feh
        /\ t.c.minStoch = r.c.minStoch /\ t.c.frac = r.c.frac
        /\ t.c.yields = r.c.yields /\ t.c.minLife = r.c.minLife
    BY <1>3, <2>2, ControlsHave
  <2>5. ~t.error => WithRates(t.c)
    BY <1>2, <1>3, <2>2, <2>4
       DEF WithRates, WithYields, OneRate, WholeMass, PopulationRead, TracksCover, SpecsynCovers, YieldsCover,
           IsotopesCurrent
  <2> QED BY <2>2, <2>3, <2>5 DEF t
<1>5. CASE \E p1, p2, p3, why : t = MarkIgnored(MarkIgnored(MarkIgnored(r, p1, why), p2, why), p3, why)
  <2>1. IsReading(t) /\ t.c = r.c BY <1>5, MarkKeeps
  <2>2. WithRates(r.c) BY DEF WithRates, WithYields, OneRate, NoRate
  <2> QED BY <2>1, <2>2 DEF t
<1> QED BY <1>1, <1>4, <1>5

\* All of the mass is in stars above nothing.
LEMMA WholeMassDerived ==
  ASSUME NEW c, WholeMass(c), PopulationRead(c)
  PROVE c.frac = FracStochMass(c.imf, c.minStoch)
BY DEF WholeMass, PopulationRead, FracStochMass

LEMMA MinStochRead ==
  ASSUME NEW r, IsReading(r), IsControls(r.c), WithRates(r.c)
  PROVE LET t == ReadMinStoch(r) IN IsReading(t) /\ IsControls(t.c) /\ Ready(t.c)
<1> DEFINE key == <<"stars", "min_stoch_mass">>
           v == Read(r, {key})
           slice == SliceConstFeH(r.c.tracks, r.c.feh)
           s == [v EXCEPT !.c.slice = slice]
           m == Mass[Value(r, key, "")]
           frac == FracStochMass(r.c.imf, m)
           t == ReadMinStoch(r)
<1>1. t = s \/ t = [s EXCEPT !.c.minStoch = m, !.c.frac = frac] BY DEF ReadMinStoch
<1>2. IsReading(v) /\ v.c = r.c BY ReadKeeps
<1> HIDE DEF v, slice, m, frac, t
<1>3. IsReading(s) /\ s.c = [r.c EXCEPT !.slice = slice] BY <1>2 DEF IsReading, ReadingFields
<1> HIDE DEF s
<1>4. IsControls(s.c) BY <1>3 DEF IsControls
<1>5. /\ s.c.slice = slice
      /\ s.c.specsyn = r.c.specsyn /\ s.c.tracks = r.c.tracks /\ s.c.imf = r.c.imf /\ s.c.feh = r.c.feh
      /\ s.c.minStoch = r.c.minStoch /\ s.c.frac = r.c.frac /\ s.c.sfr = r.c.sfr /\ s.c.sfrDist = r.c.sfrDist
      /\ s.c.yields = r.c.yields /\ s.c.minLife = r.c.minLife
  BY <1>3, ControlsHave
<1>6. CASE t = s
  <2>1. s.c.frac = FracStochMass(s.c.imf, s.c.minStoch)  BY <1>5, WholeMassDerived DEF WithRates
  <2>2. Ready(s.c)
    BY <1>5, <2>1 DEF slice, Ready, WithRates, Derived, OneRate, PopulationRead, TracksCover, SpecsynCovers,
                      YieldsCover, IsotopesCurrent
  <2> QED BY <1>3, <1>4, <1>6, <2>2 DEF t
<1>7. CASE t = [s EXCEPT !.c.minStoch = m, !.c.frac = frac]
  <2>1. IsReading(t) /\ t.c = [s.c EXCEPT !.minStoch = m, !.frac = frac]
    BY <1>3, <1>7 DEF IsReading, ReadingFields
  <2>2. IsControls(t.c) BY <1>4, <2>1 DEF IsControls
  <2>3. /\ t.c.minStoch = m /\ t.c.frac = frac
        /\ t.c.slice = slice
        /\ t.c.specsyn = r.c.specsyn /\ t.c.tracks = r.c.tracks /\ t.c.imf = r.c.imf /\ t.c.feh = r.c.feh
        /\ t.c.sfr = r.c.sfr /\ t.c.sfrDist = r.c.sfrDist
        /\ t.c.yields = r.c.yields /\ t.c.minLife = r.c.minLife
    BY <1>4, <1>5, <2>1, ControlsHave
  <2>4. Ready(t.c)
    BY <2>3 DEF slice, frac, Ready, WithRates, Derived, OneRate, PopulationRead, TracksCover, SpecsynCovers,
                YieldsCover, IsotopesCurrent
  <2> QED BY <2>1, <2>2, <2>4 DEF t
<1> QED BY <1>1, <1>6, <1>7

\* What has been read is in order, or something was refused.
Reached(r, ok) == IsReading(r) /\ IsControls(r.c) /\ (~r.error => ok)

\* Whatever deck is accepted, the controls built from it are in order.
LEMMA BuiltReady ==
  ASSUME NEW d, ~Build(d).error
  PROVE IsControls(Build(d).c) /\ Ready(Build(d).c)
<1> DEFINE r0 == Reading(d)
           r1 == Then(r0, ReadGeneral)
           r2 == Then(r1, SetOutputTimes)
           r3 == Then(r2, ReadOutput)
           r4 == Then(r3, ReadIntegrator)
           r5 == Then(r4, ReadPDFs)
           r6 == Then(r5, ReadTracks)
           r7 == Then(r6, ReadSpectra)
           r8 == Then(r7, ReadFilters)
           r9 == Then(r8, ReadNebular)
           r10 == Then(r9, ReadExtinct)
           r11 == Then(r10, ReadYields)
           r12 == Then(r11, ReadFeedback)
           r13 == Then(r12, ReadGalaxy)
           r14 == Then(r13, ReadMinStoch)
<1>1. Build(d) = Then(r14, ReportUnusedKeys) BY DEF Build, InitPhysics, InitControlFlow
<1> HIDE DEF r0, r1, r2, r3, r4, r5, r6, r7, r8, r9, r10, r11, r12, r13, r14
<1>2. Reached(r0, AtStart(r0.c)) BY BlankReading DEF r0, Reached
<1>3. Reached(r1, AtStart(r1.c)) BY <1>2, GeneralLeaves, StagesKept DEF r1, Reached, Then, LeavesAlone
<1>4. Reached(r2, AtStart(r2.c)) BY <1>3, OutputTimesLeaves, StagesKept DEF r2, Reached, Then, LeavesAlone
<1>5. Reached(r3, AtStart(r3.c)) BY <1>4, OutputLeaves, StagesKept DEF r3, Reached, Then, LeavesAlone
<1>6. Reached(r4, AtStart(r4.c)) BY <1>5, IntegratorLeaves, StagesKept DEF r4, Reached, Then, LeavesAlone
<1>7. Reached(r5, WithDistributions(r5.c)) BY <1>6, PDFsRead DEF r5, Reached, Then
<1>8. Reached(r6, WithTracks(r6.c)) BY <1>7, TracksRead DEF r6, Reached, Then
<1>9. Reached(r7, WithSpectra(r7.c)) BY <1>8, SpectraRead DEF r7, Reached, Then
<1>10. Reached(r8, WithSpectra(r8.c)) BY <1>9, FiltersLeave, StagesKept DEF r8, Reached, Then, LeavesAlone
<1>11. Reached(r9, WithSpectra(r9.c)) BY <1>10, NebularLeaves, StagesKept DEF r9, Reached, Then, LeavesAlone
<1>12. Reached(r10, WithSpectra(r10.c)) BY <1>11, ExtinctLeaves, StagesKept DEF r10, Reached, Then, LeavesAlone
<1>13. Reached(r11, WithYields(r11.c)) BY <1>12, YieldsRead DEF r11, Reached, Then
<1>14. Reached(r12, WithYields(r12.c)) BY <1>13, FeedbackLeaves, StagesKept DEF r12, Reached, Then, LeavesAlone
<1>15. Reached(r13, WithRates(r13.c)) BY <1>14, GalaxyRead DEF r13, Reached, Then
<1>16. Reached(r14, Ready(r14.c)) BY <1>15, MinStochRead DEF r14, Reached, Then
<1>17. ~r14.error /\ Build(d).c = r14.c
  BY <1>1, <1>16, RefuseKeeps DEF Reached, Then, ReportUnusedKeys
<1> QED BY <1>16, <1>17 DEF Reached

-----------------------------------------------------------------------------
(* The setters.                                                            *)

\* One field changed.
LEMMA OneFieldSet ==
  ASSUME NEW c, IsControls(c), NEW f \in ControlFields, NEW v, NEW d, d = [c EXCEPT ![f] = v]
  PROVE /\ IsControls(d) /\ d[f] = v
        /\ f # "feh" => d.feh = c.feh
        /\ f # "imf" => d.imf = c.imf
        /\ f # "tracks" => d.tracks = c.tracks
        /\ f # "slice" => d.slice = c.slice
        /\ f # "minStoch" => d.minStoch = c.minStoch
        /\ f # "frac" => d.frac = c.frac
        /\ f # "sfr" => d.sfr = c.sfr
        /\ f # "sfrDist" => d.sfrDist = c.sfrDist
        /\ f # "specsyn" => d.specsyn = c.specsyn
        /\ f # "yields" => d.yields = c.yields
        /\ f # "minLife" => d.minLife = c.minLife
        /\ f # "extinct" => d.extinct = c.extinct
        /\ f # "avField" => d.avField = c.avField
        /\ f # "avNebFac" => d.avNebFac = c.avNebFac
<1>1. IsControls(d) /\ d[f] = v BY DEF IsControls
<1>2. DOMAIN d = DOMAIN c /\ \A g \in DOMAIN c : g # f => d[g] = c[g] OBVIOUS
<1> QED BY <1>1, <1>2, ControlsHave

\* What keeps the controls in order and the curve current.
SameInOrder(c, d) ==
  /\ d.feh = c.feh /\ d.imf = c.imf /\ d.tracks = c.tracks /\ d.slice = c.slice
  /\ d.minStoch = c.minStoch /\ d.frac = c.frac /\ d.sfr = c.sfr /\ d.sfrDist = c.sfrDist
  /\ d.specsyn = c.specsyn /\ d.yields = c.yields /\ d.minLife = c.minLife
SameCurve(c, d) ==
  /\ d.specsyn = c.specsyn /\ d.extinct = c.extinct
  /\ d.avField = c.avField /\ d.avNebFac = c.avNebFac

\* What agrees with controls in order is in order, and likewise for the curve.
LEMMA SameInOrderReady ==
  ASSUME NEW c, NEW d, SameInOrder(c, d), Ready(c) PROVE Ready(d)
BY DEF SameInOrder, Ready, PopulationRead, TracksCover, SpecsynCovers, YieldsCover, IsotopesCurrent, Derived,
       OneRate

LEMMA SameCurveCurrent ==
  ASSUME NEW c, NEW d, SameCurve(c, d), CurveCurrent(c) PROVE CurveCurrent(d)
BY DEF SameCurve, CurveCurrent, RebuiltCurve

\* The curve that is made follows the synthesizer, the field stars and the ratio.
LEMMA CurveFields ==
  ASSUME NEW c
  PROVE /\ c.specsyn = Null => RebuiltCurve(c).grid = ""
        /\ c.specsyn # Null => /\ RebuiltCurve(c).grid = c.specsyn.grid
                               /\ RebuiltCurve(c).field = c.avField /\ RebuiltCurve(c).fac = c.avNebFac
<1>1. CASE c.specsyn = Null BY <1>1 DEF RebuiltCurve
<1>2. CASE c.specsyn # Null BY <1>2 DEF RebuiltCurve
<1> QED BY <1>1, <1>2

LEMMA CurveMade ==
  ASSUME NEW c, IsControls(c)
  PROVE LET d == WithCurve(c) IN IsControls(d) /\ SameInOrder(c, d) /\ CurveCurrent(d)
<1> DEFINE x == [own |-> c.extinct.own, curve |-> RebuiltCurve(c)]
           d == WithCurve(c)
<1>1. CASE c.extinct = Null
  <2>1. d = c BY <1>1 DEF WithCurve
  <2>2. CurveCurrent(c) BY <1>1 DEF CurveCurrent
  <2>3. SameInOrder(c, c) BY DEF SameInOrder
  <2> HIDE DEF d
  <2>4. IsControls(d) /\ SameInOrder(c, d) /\ CurveCurrent(d) BY <2>1, <2>2, <2>3
  <2> QED BY <2>4 DEF d
<1>2. CASE c.extinct # Null
  <2>1. d = [c EXCEPT !.extinct = x] BY <1>2 DEF WithCurve
  <2>2. x.curve = RebuiltCurve(c) OBVIOUS
  <2> HIDE DEF x, d
  <2>3. /\ IsControls(d) /\ SameInOrder(c, d) /\ d.extinct = x
        /\ d.specsyn = c.specsyn /\ d.avField = c.avField /\ d.avNebFac = c.avNebFac
    BY <2>1, OneFieldSet, ControlFieldNames DEF SameInOrder
  <2>4. /\ RebuiltCurve(d).grid = RebuiltCurve(c).grid
        /\ d.specsyn # Null => /\ RebuiltCurve(d).field = RebuiltCurve(c).field
                               /\ RebuiltCurve(d).fac = RebuiltCurve(c).fac
    BY <2>3, CurveFields
  <2>5. CurveCurrent(d) BY <2>2, <2>3, <2>4 DEF CurveCurrent
  <2> QED BY <2>3, <2>5 DEF d
<1> QED BY <1>1, <1>2

\* A call leaves the controls in order and a current curve current; or changes
\* nothing if it throws.
Sound(c, result) ==
  /\ IsControls(result.c) /\ Ready(result.c)
  /\ CurveCurrent(c) => CurveCurrent(result.c)
Atomic(c, result) == result.error => result.c = c

\* The results of a call that is done and of one that failed.
LEMMA ResultOf ==
  ASSUME NEW c PROVE /\ Done(c).c = c /\ Done(c).error = FALSE
                     /\ Failed(c).c = c /\ Failed(c).error = TRUE
BY DEF Done, Failed

\* A call that changes nothing, and one that changes nothing of importance.
LEMMA NothingChanged ==
  ASSUME NEW c, IsControls(c), Ready(c)
  PROVE Sound(c, Failed(c)) /\ Atomic(c, Failed(c)) /\ Sound(c, Done(c)) /\ Atomic(c, Done(c))
BY ResultOf DEF Sound, Atomic

LEMMA NothingMuchChanged ==
  ASSUME NEW c, Ready(c), NEW d, IsControls(d), SameInOrder(c, d), SameCurve(c, d)
  PROVE Sound(c, Done(d)) /\ Atomic(c, Done(d))
BY ResultOf, SameInOrderReady, SameCurveCurrent DEF Sound, Atomic

\* A call that keeps the controls in order and what the curve is made from.
LEMMA CurveUntouched ==
  ASSUME NEW c, NEW d, IsControls(d), Ready(d), SameCurve(c, d)
  PROVE Sound(c, Done(d)) /\ Atomic(c, Done(d))
BY ResultOf, SameCurveCurrent DEF Sound, Atomic

\* A new value is kept with its curve, or the old controls are.
LEMMA RebuiltOrRestored ==
  ASSUME NEW c, IsControls(c), Ready(c), NEW d, IsControls(d), Ready(d)
  PROVE Sound(c, RebuildOrRestore(d, c)) /\ Atomic(c, RebuildOrRestore(d, c))
<1>1. Sound(c, Done(WithCurve(d))) /\ Atomic(c, Done(WithCurve(d)))
  <2> DEFINE e == WithCurve(d)
  <2>1. IsControls(e) /\ SameInOrder(d, e) /\ CurveCurrent(e) BY CurveMade
  <2> HIDE DEF e
  <2>2. Ready(e) BY <2>1, SameInOrderReady
  <2>3. Sound(c, Done(e)) /\ Atomic(c, Done(e)) BY <2>1, <2>2, ResultOf DEF Sound, Atomic
  <2> QED BY <2>3 DEF e
<1> QED BY <1>1, NothingChanged DEF RebuildOrRestore

\* The setters that make the curve again.
LEMMA AVDistFieldSet ==
  ASSUME NEW c, IsControls(c), Ready(c), NEW d
  PROVE Sound(c, SetAVDistField(c, d)) /\ Atomic(c, SetAVDistField(c, d))
<1> DEFINE e == [c EXCEPT !.avField = d]
<1>1. IsControls(e) /\ SameInOrder(c, e) BY OneFieldSet, ControlFieldNames DEF SameInOrder
<1> HIDE DEF e
<1>2. Ready(e) BY <1>1, SameInOrderReady
<1> QED BY <1>1, <1>2, RebuiltOrRestored DEF SetAVDistField, e

LEMMA AVNebFacSet ==
  ASSUME NEW c, IsControls(c), Ready(c), NEW d
  PROVE Sound(c, SetAVNebFac(c, d)) /\ Atomic(c, SetAVNebFac(c, d))
<1> DEFINE e == [c EXCEPT !.avNebFac = d]
<1>1. IsControls(e) /\ SameInOrder(c, e) BY OneFieldSet, ControlFieldNames DEF SameInOrder
<1> HIDE DEF e
<1>2. Ready(e) BY <1>1, SameInOrderReady
<1>3. Sound(c, RebuildOrRestore(e, c)) /\ Atomic(c, RebuildOrRestore(e, c)) BY <1>1, <1>2, RebuiltOrRestored
<1> QED BY <1>3, NothingChanged DEF SetAVNebFac, e

\* Not atomic: the distribution stays.
LEMMA AVDistSet ==
  ASSUME NEW c, IsControls(c), Ready(c), NEW d
  PROVE Sound(c, SetAVDist(c, d))
<1> DEFINE e == [c EXCEPT !.avDist = d]
           f == WithCurve(e)
<1>1. IsControls(e) /\ SameInOrder(c, e) /\ SameCurve(c, e)
  BY OneFieldSet, ControlFieldNames DEF SameInOrder, SameCurve
<1>2. SetAVDist(c, d) = IF CurveThrows(e) THEN Failed(e) ELSE Done(f) BY DEF SetAVDist
<1> HIDE DEF e
<1>3. Ready(e) /\ (CurveCurrent(c) => CurveCurrent(e)) BY <1>1, SameInOrderReady, SameCurveCurrent
<1>4. IsControls(f) /\ SameInOrder(e, f) /\ CurveCurrent(f) BY <1>1, CurveMade
<1> HIDE DEF f
<1>5. Ready(f) BY <1>3, <1>4, SameInOrderReady
<1>6. Sound(c, Failed(e)) BY <1>1, <1>3, ResultOf DEF Sound
<1>7. Sound(c, Done(f)) BY <1>4, <1>5, ResultOf DEF Sound
<1> QED BY <1>2, <1>6, <1>7

\* What replaces covers what it replaces, and so the present distribution.
LEMMA ReplacementCovers ==
  ASSUME NEW c, NEW feh, NEW installed, c.feh \subseteq installed \/ installed = {},
         CoversInstalled(feh, installed, c)
  PROVE c.feh \subseteq feh
BY DEF CoversInstalled

\* A synthesizer is installed, or removed.
LEMMA SpecsynSet ==
  ASSUME NEW c, IsControls(c), Ready(c), NEW s
  PROVE Sound(c, SetSpecsyn(c, s)) /\ Atomic(c, SetSpecsyn(c, s))
<1>1. CASE s # Null /\ ~SpecsynReplaces(s, c)  BY <1>1, NothingChanged DEF SetSpecsyn
<1>2. CASE ~(s # Null /\ ~SpecsynReplaces(s, c))
  <2> DEFINE e == [c EXCEPT !.specsyn = s]
             result == RebuildOrRestore(e, c)
  <2>1. IsControls(e) /\ e.specsyn = s /\ e.feh = c.feh /\ e.imf = c.imf /\ e.tracks = c.tracks
        /\ e.slice = c.slice /\ e.minStoch = c.minStoch /\ e.frac = c.frac /\ e.sfr = c.sfr
        /\ e.sfrDist = c.sfrDist /\ e.yields = c.yields /\ e.minLife = c.minLife
    BY OneFieldSet, ControlFieldNames
  <2>2. s # Null => c.feh \subseteq s.feh
    BY <1>2, ReplacementCovers DEF SpecsynReplaces, Ready, SpecsynCovers
  <2> HIDE DEF e
  <2>3. Ready(e)
    BY <2>1, <2>2 DEF Ready, PopulationRead, TracksCover, SpecsynCovers, YieldsCover, IsotopesCurrent, Derived,
                      OneRate
  <2>4. Sound(c, result) /\ Atomic(c, result) BY <2>1, <2>3, RebuiltOrRestored
  <2>5. SetSpecsyn(c, s) = [result EXCEPT !.consumed = s # Null] BY <1>2 DEF SetSpecsyn, e
  <2>6. "c" \in DOMAIN result /\ "error" \in DOMAIN result BY DEF RebuildOrRestore, Done, Failed
  <2> HIDE DEF result
  <2>7. SetSpecsyn(c, s).c = result.c /\ SetSpecsyn(c, s).error = result.error BY <2>5, <2>6
  <2> QED BY <2>4, <2>7 DEF Sound, Atomic
<1> QED BY <1>1, <1>2

\* Setters of the population: each checks what the others rely on.
LEMMA FeHSet ==
  ASSUME NEW c, IsControls(c), Ready(c), NEW feh \in SUBSET AllFeH
  PROVE Sound(c, SetFeH(c, feh)) /\ Atomic(c, SetFeH(c, feh))
<1> DEFINE slice == SliceConstFeH(c.tracks, feh)
           e == [c EXCEPT !.feh = feh]
           d == [e EXCEPT !.slice = slice]
           fails == \/ ~(feh \subseteq c.tracks.feh)
                    \/ IF c.specsyn = Null THEN FALSE ELSE ~(feh \subseteq c.specsyn.feh)
                    \/ IF c.yields = Null THEN FALSE ELSE ~(feh \subseteq YieldsFeH(c.yields.channels))
<1>1. SetFeH(c, feh) = IF fails THEN Failed(c) ELSE Done(d) BY DEF SetFeH
<1> HIDE DEF slice
<1>2. IsControls(e) /\ e.feh = feh /\ e.imf = c.imf /\ e.tracks = c.tracks
      /\ e.minStoch = c.minStoch /\ e.frac = c.frac /\ e.sfr = c.sfr /\ e.sfrDist = c.sfrDist
      /\ e.yields = c.yields /\ e.minLife = c.minLife /\ SameCurve(c, e)
  BY OneFieldSet, ControlFieldNames DEF SameCurve
<1> HIDE DEF e
<1>3. IsControls(d) /\ d.feh = feh /\ d.imf = e.imf /\ d.tracks = e.tracks /\ d.slice = slice
      /\ d.minStoch = e.minStoch /\ d.frac = e.frac /\ d.sfr = e.sfr /\ d.sfrDist = e.sfrDist
      /\ d.yields = e.yields /\ d.minLife = e.minLife /\ SameCurve(e, d)
  BY <1>2, OneFieldSet, ControlFieldNames DEF SameCurve
<1> HIDE DEF d
<1>4. SameCurve(c, d) BY <1>2, <1>3 DEF SameCurve
<1>5. ~fails => Ready(d)
  BY <1>2, <1>3, <1>4 DEF slice, SameCurve, Ready, PopulationRead, TracksCover, SpecsynCovers, YieldsCover,
                          IsotopesCurrent, Derived, OneRate
<1> HIDE DEF fails
<1>6. ~fails => Sound(c, Done(d)) /\ Atomic(c, Done(d))  BY <1>3, <1>4, <1>5, CurveUntouched
<1> QED BY <1>1, <1>6, NothingChanged

LEMMA TracksSet ==
  ASSUME NEW c, IsControls(c), Ready(c), NEW tracks, tracks.mMax \in Nat
  PROVE /\ Sound(c, SetTracks(c, tracks)) /\ Atomic(c, SetTracks(c, tracks))
        /\ ~SetTracks(c, tracks).error =>
             /\ SetTracks(c, tracks).c.tracks = tracks
             /\ SetTracks(c, tracks).c.imf = c.imf /\ SetTracks(c, tracks).c.feh = c.feh
<1> DEFINE slice == IF ConstFeH(c) THEN SliceConstFeH(tracks, c.feh) ELSE c.slice
           e == [c EXCEPT !.tracks = tracks]
           d == [e EXCEPT !.slice = slice]
           fails == ~TracksCoverFeH(tracks, c.feh) \/ ~IMFWithinTracks(c.imf, tracks)
<1>1. e.slice = c.slice  BY ControlsHave
<1>2. SetTracks(c, tracks) = IF fails THEN Failed(c) ELSE Done(d) BY <1>1 DEF SetTracks
<1>3. slice = SliceConstFeH(tracks, c.feh)  BY DEF ConstFeH, SliceConstFeH, Ready, Derived
<1> HIDE DEF slice
<1>4. IsControls(e) /\ e.tracks = tracks /\ e.imf = c.imf /\ e.feh = c.feh
      /\ e.minStoch = c.minStoch /\ e.frac = c.frac /\ e.sfr = c.sfr /\ e.sfrDist = c.sfrDist
      /\ e.yields = c.yields /\ e.minLife = c.minLife /\ SameCurve(c, e)
  BY OneFieldSet, ControlFieldNames DEF SameCurve
<1> HIDE DEF e
<1>5. IsControls(d) /\ d.slice = slice /\ d.imf = e.imf /\ d.tracks = e.tracks /\ d.feh = e.feh
      /\ d.minStoch = e.minStoch /\ d.frac = e.frac /\ d.sfr = e.sfr /\ d.sfrDist = e.sfrDist
      /\ d.yields = e.yields /\ d.minLife = e.minLife /\ SameCurve(e, d)
  BY <1>4, OneFieldSet, ControlFieldNames DEF SameCurve
<1> HIDE DEF d
<1>6. SameCurve(c, d) BY <1>4, <1>5 DEF SameCurve
<1>7. ~fails => Ready(d)
  BY <1>3, <1>4, <1>5, <1>6
     DEF TracksCoverFeH, IMFWithinTracks, SameCurve, Ready, PopulationRead, TracksCover, SpecsynCovers,
         YieldsCover, IsotopesCurrent, Derived, OneRate
<1> HIDE DEF fails
<1>8. ~fails => Sound(c, Done(d)) /\ Atomic(c, Done(d))  BY <1>5, <1>6, <1>7, CurveUntouched
<1>9. CASE fails BY <1>2, <1>9, NothingChanged, ResultOf
<1>10. CASE ~fails
  <2>1. SetTracks(c, tracks) = Done(d) BY <1>2, <1>10
  <2>2. d.tracks = tracks /\ d.imf = c.imf /\ d.feh = c.feh BY <1>4, <1>5
  <2> QED BY <1>8, <1>10, <2>1, <2>2, ResultOf
<1> QED BY <1>9, <1>10

LEMMA IMFSet ==
  ASSUME NEW c, IsControls(c), Ready(c), NEW imf \in Nat \ {0}
  PROVE /\ Sound(c, SetIMF(c, imf)) /\ Atomic(c, SetIMF(c, imf))
        /\ ~SetIMF(c, imf).error =>
             /\ SetIMF(c, imf).c.imf = imf
             /\ SetIMF(c, imf).c.tracks = c.tracks /\ SetIMF(c, imf).c.feh = c.feh
<1> DEFINE frac == FracStochMass(imf, c.minStoch)
           e == [c EXCEPT !.imf = imf]
           d == [e EXCEPT !.frac = frac]
           fails == ~IMFWithinTracks(imf, c.tracks)
<1>1. SetIMF(c, imf) = IF fails THEN Failed(c) ELSE Done(d) BY DEF SetIMF
<1> HIDE DEF frac
<1>2. IsControls(e) /\ e.tracks = c.tracks /\ e.imf = imf /\ e.feh = c.feh /\ e.slice = c.slice
      /\ e.minStoch = c.minStoch /\ e.sfr = c.sfr /\ e.sfrDist = c.sfrDist
      /\ e.yields = c.yields /\ e.minLife = c.minLife /\ SameCurve(c, e)
  BY OneFieldSet, ControlFieldNames DEF SameCurve
<1> HIDE DEF e
<1>3. IsControls(d) /\ d.frac = frac /\ d.slice = e.slice /\ d.imf = e.imf /\ d.tracks = e.tracks /\ d.feh = e.feh
      /\ d.minStoch = e.minStoch /\ d.sfr = e.sfr /\ d.sfrDist = e.sfrDist
      /\ d.yields = e.yields /\ d.minLife = e.minLife /\ SameCurve(e, d)
  BY <1>2, OneFieldSet, ControlFieldNames DEF SameCurve
<1> HIDE DEF d
<1>4. SameCurve(c, d) BY <1>2, <1>3 DEF SameCurve
<1>5. ~fails => Ready(d)
  BY <1>2, <1>3, <1>4
     DEF frac, IMFWithinTracks, SameCurve, Ready, PopulationRead, TracksCover, SpecsynCovers,
         YieldsCover, IsotopesCurrent, Derived, OneRate
<1> HIDE DEF fails
<1>6. ~fails => Sound(c, Done(d)) /\ Atomic(c, Done(d))  BY <1>3, <1>4, <1>5, CurveUntouched
<1>7. CASE fails BY <1>1, <1>7, NothingChanged, ResultOf
<1>8. CASE ~fails
  <2>1. SetIMF(c, imf) = Done(d) BY <1>1, <1>8
  <2>2. d.imf = imf /\ d.tracks = c.tracks /\ d.feh = c.feh BY <1>2, <1>3
  <2> QED BY <1>6, <1>8, <2>1, <2>2, ResultOf
<1> QED BY <1>7, <1>8

LEMMA MinStochMassSet ==
  ASSUME NEW c, IsControls(c), Ready(c), NEW m
  PROVE Sound(c, SetMinStochMass(c, m)) /\ Atomic(c, SetMinStochMass(c, m))
<1> DEFINE frac == FracStochMass(c.imf, m)
           e == [c EXCEPT !.minStoch = m]
           d == [e EXCEPT !.frac = frac]
<1>1. SetMinStochMass(c, m) = Done(d) BY DEF SetMinStochMass
<1> HIDE DEF frac
<1>2. IsControls(e) /\ e.tracks = c.tracks /\ e.imf = c.imf /\ e.feh = c.feh /\ e.slice = c.slice
      /\ e.minStoch = m /\ e.sfr = c.sfr /\ e.sfrDist = c.sfrDist
      /\ e.yields = c.yields /\ e.minLife = c.minLife /\ SameCurve(c, e)
  BY OneFieldSet, ControlFieldNames DEF SameCurve
<1> HIDE DEF e
<1>3. IsControls(d) /\ d.frac = frac /\ d.slice = e.slice /\ d.imf = e.imf /\ d.tracks = e.tracks /\ d.feh = e.feh
      /\ d.minStoch = e.minStoch /\ d.sfr = e.sfr /\ d.sfrDist = e.sfrDist
      /\ d.yields = e.yields /\ d.minLife = e.minLife /\ SameCurve(e, d)
  BY <1>2, OneFieldSet, ControlFieldNames DEF SameCurve
<1> HIDE DEF d
<1>4. SameCurve(c, d) BY <1>2, <1>3 DEF SameCurve
<1>5. Ready(d)
  BY <1>2, <1>3, <1>4
     DEF frac, SameCurve, Ready, PopulationRead, TracksCover, SpecsynCovers,
         YieldsCover, IsotopesCurrent, Derived, OneRate
<1>6. Sound(c, Done(d)) /\ Atomic(c, Done(d))  BY <1>3, <1>4, <1>5, CurveUntouched
<1> QED BY <1>1, <1>6

\* The rate of star formation: the one given takes the place of the other.
LEMMA OneRateSet ==
  ASSUME NEW c, IsControls(c), Ready(c), NEW a, NEW b, a = "" \/ b = ""
  PROVE LET d == [[c EXCEPT !.sfr = a] EXCEPT !.sfrDist = b]
        IN Sound(c, Done(d)) /\ Atomic(c, Done(d))
<1> DEFINE e == [c EXCEPT !.sfr = a]
           d == [e EXCEPT !.sfrDist = b]
<1>1. IsControls(e) /\ e.tracks = c.tracks /\ e.imf = c.imf /\ e.feh = c.feh /\ e.slice = c.slice
      /\ e.minStoch = c.minStoch /\ e.frac = c.frac /\ e.sfr = a
      /\ e.yields = c.yields /\ e.minLife = c.minLife /\ SameCurve(c, e)
  <2>1. IsControls(e) BY DEF IsControls
  <2> QED BY <2>1, ControlsHave DEF SameCurve
<1> HIDE DEF e
<1>2. IsControls(d) /\ d.frac = e.frac /\ d.slice = e.slice /\ d.imf = e.imf /\ d.tracks = e.tracks /\ d.feh = e.feh
      /\ d.minStoch = e.minStoch /\ d.sfr = e.sfr /\ d.sfrDist = b
      /\ d.yields = e.yields /\ d.minLife = e.minLife /\ SameCurve(e, d)
  <2>1. IsControls(d) BY <1>1 DEF IsControls
  <2> QED BY <1>1, <2>1, ControlsHave DEF SameCurve
<1> HIDE DEF d
<1>3. SameCurve(c, d) BY <1>1, <1>2 DEF SameCurve
<1>4. Ready(d)
  BY <1>1, <1>2, <1>3
     DEF SameCurve, Ready, PopulationRead, TracksCover, SpecsynCovers,
         YieldsCover, IsotopesCurrent, Derived, OneRate
<1>5. Sound(c, Done(d)) /\ Atomic(c, Done(d)) BY <1>2, <1>3, <1>4, CurveUntouched
<1> QED BY <1>5 DEF d, e

LEMMA RateSet ==
  ASSUME NEW c, IsControls(c), Ready(c), NEW x
  PROVE /\ Sound(c, SetSFR(c, x)) /\ Atomic(c, SetSFR(c, x))
        /\ Sound(c, SetSFRDist(c, x)) /\ Atomic(c, SetSFRDist(c, x))
<1>1. [c EXCEPT !.sfrDist = x, !.sfr = ""] = [[c EXCEPT !.sfr = ""] EXCEPT !.sfrDist = x]  OBVIOUS
<1>2. SetSFR(c, x) = Done([[c EXCEPT !.sfr = x] EXCEPT !.sfrDist = ""]) BY DEF SetSFR
<1>3. SetSFRDist(c, x) = Done([[c EXCEPT !.sfr = ""] EXCEPT !.sfrDist = x]) BY <1>1 DEF SetSFRDist
<1>4. Sound(c, SetSFR(c, x)) /\ Atomic(c, SetSFR(c, x)) BY <1>2, OneRateSet
<1>5. Sound(c, SetSFRDist(c, x)) /\ Atomic(c, SetSFRDist(c, x)) BY <1>3, OneRateSet
<1> QED BY <1>4, <1>5

\* Setters of what nothing else depends on.
LEMMA OtherFieldSet ==
  ASSUME NEW c, IsControls(c), Ready(c), NEW v,
         NEW f \in {"outTimes", "outTimeDist", "interval", "flags", "snLimits", "filters", "nebular", "winds"}
  PROVE LET d == [c EXCEPT ![f] = v]
        IN /\ IsControls(d) /\ SameInOrder(c, d) /\ SameCurve(c, d)
           /\ Sound(c, Done(d)) /\ Atomic(c, Done(d))
<1> DEFINE d == [c EXCEPT ![f] = v]
<1>1. IsControls(d) /\ SameInOrder(c, d) /\ SameCurve(c, d)
  BY OneFieldSet, ControlFieldNames DEF SameInOrder, SameCurve
<1> HIDE DEF d
<1>2. Sound(c, Done(d)) /\ Atomic(c, Done(d)) BY <1>1, NothingMuchChanged
<1> QED BY <1>1, <1>2 DEF d

\* Setters of the output, and of objects that only refer to their controls.
LEMMA OutTimesSet ==
  ASSUME NEW c, IsControls(c), Ready(c), NEW times
  PROVE Sound(c, SetOutTimes(c, times)) /\ Atomic(c, SetOutTimes(c, times))
<1> DEFINE e == [c EXCEPT !.outTimes = times]
           d == [e EXCEPT !.outTimeDist = ""]
<1>1. SetOutTimes(c, times) = IF times = "" THEN Failed(c) ELSE Done(d) BY DEF SetOutTimes
<1>2. IsControls(e) /\ SameInOrder(c, e) /\ SameCurve(c, e) BY OtherFieldSet
<1> HIDE DEF e
<1>3. IsControls(d) /\ SameInOrder(e, d) /\ SameCurve(e, d)
  BY <1>2, SameInOrderReady, OtherFieldSet
<1> HIDE DEF d
<1>4. SameInOrder(c, d) /\ SameCurve(c, d) BY <1>2, <1>3 DEF SameInOrder, SameCurve
<1>5. Sound(c, Done(d)) /\ Atomic(c, Done(d)) BY <1>3, <1>4, NothingMuchChanged
<1> QED BY <1>1, <1>5, NothingChanged

LEMMA OutputSet ==
  ASSUME NEW c, IsControls(c), Ready(c), NEW x
  PROVE /\ Sound(c, SetCheckpointInterval(c, x)) /\ Atomic(c, SetCheckpointInterval(c, x))
        /\ Sound(c, SetFlags(c, x)) /\ Atomic(c, SetFlags(c, x))
        /\ Sound(c, SetSNMassLimits(c, x)) /\ Atomic(c, SetSNMassLimits(c, x))
        /\ Sound(c, SetFilters(c, x)) /\ Atomic(c, SetFilters(c, x))
        /\ Sound(c, SetNebControls(c)) /\ Atomic(c, SetNebControls(c))
<1>1. Sound(c, SetCheckpointInterval(c, x)) /\ Atomic(c, SetCheckpointInterval(c, x))
  BY OtherFieldSet DEF SetCheckpointInterval
<1>2. Sound(c, SetFlags(c, x)) /\ Atomic(c, SetFlags(c, x)) BY OtherFieldSet DEF SetFlags
<1>3. Sound(c, SetSNMassLimits(c, x)) /\ Atomic(c, SetSNMassLimits(c, x))
  BY OtherFieldSet, NothingChanged DEF SetSNMassLimits
<1>4. Sound(c, SetFilters(c, x)) /\ Atomic(c, SetFilters(c, x)) BY OtherFieldSet DEF SetFilters
<1>5. Sound(c, SetNebControls(c)) /\ Atomic(c, SetNebControls(c)) BY NothingChanged DEF SetNebControls
<1> QED BY <1>1, <1>2, <1>3, <1>4, <1>5

LEMMA LightObjectSet ==
  ASSUME NEW c, IsControls(c), Ready(c), NEW x
  PROVE /\ Sound(c, SetNebular(c, x)) /\ Atomic(c, SetNebular(c, x))
        /\ Sound(c, SetWinds(c, x)) /\ Atomic(c, SetWinds(c, x))
<1>1. Sound(c, SetNebular(c, x)) /\ Atomic(c, SetNebular(c, x)) BY OtherFieldSet, NothingChanged DEF SetNebular
<1>2. Sound(c, SetWinds(c, x)) /\ Atomic(c, SetWinds(c, x)) BY OtherFieldSet, NothingChanged DEF SetWinds
<1> QED BY <1>1, <1>2

\* The curve that is installed need not be current.
LEMMA ExtinctSet ==
  ASSUME NEW c, IsControls(c), Ready(c), NEW x
  PROVE /\ IsControls(SetExtinct(c, x).c) /\ Ready(SetExtinct(c, x).c)
        /\ Atomic(c, SetExtinct(c, x))
<1> DEFINE d == [c EXCEPT !.extinct = x]
<1>1. IsControls(d) /\ SameInOrder(c, d) BY OneFieldSet, ControlFieldNames DEF SameInOrder
<1> HIDE DEF d
<1>2. Ready(d) BY <1>1, SameInOrderReady
<1>3. SetExtinct(c, x) = IF x # Null /\ ~x.own THEN Failed(c) ELSE Done(d) BY DEF SetExtinct, d
<1> QED BY <1>1, <1>2, <1>3, ResultOf DEF Atomic

\* Yields changed, and perhaps the lifetime they are for.
LEMMA YieldsChanged ==
  ASSUME NEW c, IsControls(c), Ready(c), NEW y, NEW life,
         y # Null => /\ IsYields(y) /\ c.feh \subseteq YieldsFeH(y.channels)
                     /\ y.requested # {} => y.isotopes = IsotopeGrid(y.channels, y.requested, life)
  PROVE LET d == [[c EXCEPT !.minLife = life] EXCEPT !.yields = y]
        IN Sound(c, Done(d)) /\ Atomic(c, Done(d))
<1> DEFINE e == [c EXCEPT !.minLife = life]
           d == [e EXCEPT !.yields = y]
<1>1. IsControls(e) /\ e.tracks = c.tracks /\ e.imf = c.imf /\ e.feh = c.feh /\ e.slice = c.slice
      /\ e.minStoch = c.minStoch /\ e.frac = c.frac /\ e.sfr = c.sfr /\ e.sfrDist = c.sfrDist
      /\ e.minLife = life /\ SameCurve(c, e)
  <2>1. IsControls(e) BY DEF IsControls
  <2> QED BY <2>1, ControlsHave DEF SameCurve
<1> HIDE DEF e
<1>2. IsControls(d) /\ d.tracks = e.tracks /\ d.imf = e.imf /\ d.feh = e.feh /\ d.slice = e.slice
      /\ d.minStoch = e.minStoch /\ d.frac = e.frac /\ d.sfr = e.sfr /\ d.sfrDist = e.sfrDist
      /\ d.yields = y /\ d.minLife = e.minLife /\ SameCurve(e, d)
  <2>1. IsControls(d) BY <1>1 DEF IsControls
  <2> QED BY <1>1, <2>1, ControlsHave DEF SameCurve
<1> HIDE DEF d
<1>3. SameCurve(c, d) BY <1>1, <1>2 DEF SameCurve
<1>4. YieldsCover(d) /\ IsotopesCurrent(d) BY <1>1, <1>2 DEF YieldsCover, IsotopesCurrent
<1>5. Ready(d)
  BY <1>1, <1>2, <1>3, <1>4 DEF SameCurve, Ready, PopulationRead, TracksCover, SpecsynCovers, Derived, OneRate
<1>6. Sound(c, Done(d)) /\ Atomic(c, Done(d)) BY <1>2, <1>3, <1>5, CurveUntouched
<1> QED BY <1>6 DEF d, e

\* The lifetime set to what it is.
LEMMA SameLifetime ==
  ASSUME NEW c, IsControls(c)
  PROVE [c EXCEPT !.minLife = c.minLife] = c
BY ControlsHave DEF IsControls

\* Yields are installed, or removed; those in place are in order.
LEMMA YieldsSet ==
  ASSUME NEW c, IsControls(c), Ready(c), NEW y, y # Null => IsYields(y) /\ y.requested = {}
  PROVE Sound(c, SetYields(c, y)) /\ Atomic(c, SetYields(c, y))
<1>1. CASE y # Null /\ ~YieldsReplace(y, c)  BY <1>1, NothingChanged DEF SetYields
<1>2. CASE ~(y # Null /\ ~YieldsReplace(y, c))
  <2>1. y # Null => c.feh \subseteq YieldsFeH(y.channels)
    BY <1>2, ReplacementCovers DEF YieldsReplace, Ready, YieldsCover
  <2>2. SetYields(c, y) = Done([c EXCEPT !.yields = y]) BY <1>2 DEF SetYields
  <2>3. SetYields(c, y) = Done([[c EXCEPT !.minLife = c.minLife] EXCEPT !.yields = y])
    BY <2>2, SameLifetime
  <2> QED BY <2>1, <2>3, YieldsChanged
<1> QED BY <1>1, <1>2

LEMMA YieldsThere ==
  ASSUME NEW c, Ready(c), c.yields # Null
  PROVE /\ IsYields(c.yields) /\ c.feh \subseteq YieldsFeH(c.yields.channels)
        /\ c.yields.requested # {} =>
             c.yields.isotopes = IsotopeGrid(c.yields.channels, c.yields.requested, c.minLife)
BY DEF Ready, YieldsCover, IsotopesCurrent

\* Changes of the yields in place.
LEMMA MinIsotopeLifetimeSet ==
  ASSUME NEW c, IsControls(c), Ready(c), NEW life
  PROVE Sound(c, SetMinIsotopeLifetime(c, life)) /\ Atomic(c, SetMinIsotopeLifetime(c, life))
<1>1. CASE life = "negative"  BY <1>1, NothingChanged DEF SetMinIsotopeLifetime
<1>2. CASE life # "negative" /\ c.yields = Null
  <2> DEFINE e == [c EXCEPT !.minLife = life]
  <2>1. SetMinIsotopeLifetime(c, life) = Done(e) BY <1>2 DEF SetMinIsotopeLifetime
  <2>2. IsControls(e) /\ e.yields = c.yields
    <3>1. IsControls(e) BY DEF IsControls
    <3> QED BY <3>1, ControlsHave
  <2>3. e = [e EXCEPT !.yields = Null]
    <3> HIDE DEF e
    <3> QED BY <1>2, <2>2, ControlsHave DEF IsControls
  <2>4. Sound(c, Done([e EXCEPT !.yields = Null])) /\ Atomic(c, Done([e EXCEPT !.yields = Null]))
    BY YieldsChanged
  <2> HIDE DEF e
  <2> QED BY <2>1, <2>3, <2>4
<1>3. CASE life # "negative" /\ c.yields # Null
  <2> DEFINE y == c.yields
             now == RebuildYieldGrid(y, y.requested, life)
             before == RebuildYieldGrid(y, y.requested, c.minLife)
  <2>1. SetMinIsotopeLifetime(c, life) =
          IF GridFails(now) THEN Failed([c EXCEPT !.yields = before])
          ELSE Done([[c EXCEPT !.minLife = life] EXCEPT !.yields = now])
    BY <1>3 DEF SetMinIsotopeLifetime
  <2>2. /\ IsYields(now) /\ now.channels = y.channels /\ now.requested = y.requested
        /\ now.isotopes = IsotopeGrid(y.channels, y.requested, life)
    BY <1>3, YieldsThere, GridRebuilt
  <2>3. CASE ~GridFails(now)
    <3>1. c.feh \subseteq YieldsFeH(y.channels) BY <1>3, YieldsThere
    <3> HIDE DEF now
    <3>2. LET d == [[c EXCEPT !.minLife = life] EXCEPT !.yields = now]
          IN Sound(c, Done(d)) /\ Atomic(c, Done(d))
      BY <2>2, <3>1, YieldsChanged
    <3> QED BY <2>1, <2>3, <3>2
  <2>4. CASE GridFails(now)
    <3>1. y.requested # {} BY <2>2, <2>4 DEF GridFails
    <3>2. y.isotopes = IsotopeGrid(y.channels, y.requested, c.minLife) /\ IsYields(y)
      BY <1>3, <3>1, YieldsThere
    <3>3. /\ IsYields(before) /\ before.own = y.own /\ before.channels = y.channels
          /\ before.requested = y.requested /\ before.isotopes = y.isotopes
      BY <3>2, GridRebuilt
    <3> HIDE DEF now, before, y
    <3>4. before = y BY <3>2, <3>3 DEF IsYields
    <3>5. [c EXCEPT !.yields = before] = c BY <3>4, ControlsHave DEF IsControls, y
    <3> QED BY <2>1, <2>4, <3>5, NothingChanged
  <2> QED BY <2>3, <2>4
<1> QED BY <1>1, <1>2, <1>3

LEMMA ChannelsChanged ==
  ASSUME NEW c, IsControls(c), Ready(c), c.yields # Null,
         NEW channels \in Seq(YieldChannels), c.feh \subseteq YieldsFeH(channels)
  PROVE Sound(c, Done(WithChannels(c, channels))) /\ Atomic(c, Done(WithChannels(c, channels)))
<1> DEFINE x == [c.yields EXCEPT !.channels = channels]
           y == RebuildYieldGrid(x, {}, c.minLife)
<1>1. WithChannels(c, channels) = [c EXCEPT !.yields = y] BY ControlsHave DEF WithChannels
<1>2. IsYields(x) /\ x.channels = channels BY YieldsThere DEF IsYields
<1> HIDE DEF x
<1>3. IsYields(y) /\ y.channels = channels /\ y.requested = {} BY <1>2, GridRebuilt
<1> HIDE DEF y
<1>4. WithChannels(c, channels) = [[c EXCEPT !.minLife = c.minLife] EXCEPT !.yields = y]
  BY <1>1, SameLifetime
<1> QED BY <1>3, <1>4, YieldsChanged

LEMMA ChannelsSet ==
  ASSUME NEW c, IsControls(c), Ready(c), c.yields # Null, NEW channels \in Seq(YieldChannels)
  PROVE Sound(c, SetChannels(c, channels)) /\ Atomic(c, SetChannels(c, channels))
BY ChannelsChanged, NothingChanged DEF SetChannels

LEMMA ChannelAdded ==
  ASSUME NEW c, IsControls(c), Ready(c), c.yields # Null, NEW ch \in YieldChannels
  PROVE Sound(c, AddChannel(c, ch)) /\ Atomic(c, AddChannel(c, ch))
<1>1. c.yields.channels \in Seq(YieldChannels) BY YieldsThere DEF IsYields
<1>2. Append(c.yields.channels, ch) \in Seq(YieldChannels) BY <1>1
<1> QED BY <1>2, ChannelsSet DEF AddChannel

\* Fewer channels cover no less.
LEMMA FewerChannelsCoverMore ==
  ASSUME NEW S, NEW s \in Seq(S), NEW i \in DOMAIN s
  PROVE /\ RemoveAt(s, i) \in Seq(S)
        /\ \A j \in DOMAIN RemoveAt(s, i) : \E k \in DOMAIN s : RemoveAt(s, i)[j] = s[k]
<1> DEFINE a == SubSeq(s, 1, i - 1)
           b == SubSeq(s, i + 1, Len(s))
<1>1. i \in 1 .. Len(s) /\ Len(s) \in Nat /\ DOMAIN s = 1 .. Len(s) OBVIOUS
<1>2. a \in Seq(S) /\ Len(a) = i - 1 /\ \A j \in 1 .. i - 1 : a[j] = s[j] BY <1>1
<1>3. b \in Seq(S) /\ Len(b) = Len(s) - i /\ \A j \in 1 .. Len(s) - i : b[j] = s[i + j] BY <1>1
<1>4. RemoveAt(s, i) = a \o b BY DEF RemoveAt
<1> HIDE DEF a, b
<1>5. a \o b \in Seq(S) /\ Len(a \o b) = Len(s) - 1
  <2>1. Len(a \o b) = Len(a) + Len(b) /\ a \o b \in Seq(S) BY <1>2, <1>3, ConcatProperties
  <2>2. i \in Int /\ Len(s) \in Int BY <1>1
  <2>3. (i - 1) + (Len(s) - i) = Len(s) - 1 BY <2>2
  <2> QED BY <1>2, <1>3, <2>1, <2>3
<1>6. \A j \in 1 .. Len(s) - 1 : (a \o b)[j] = IF j <= i - 1 THEN a[j] ELSE b[j - (i - 1)]
  BY <1>1, <1>2, <1>3, ConcatProperties
<1>7. ASSUME NEW j \in 1 .. Len(s) - 1 PROVE \E k \in DOMAIN s : (a \o b)[j] = s[k]
  <2>1. CASE j < i
    <3>1. j \in 1 .. i - 1 /\ j \in 1 .. Len(s) BY <1>1, <2>1
    <3>2. (a \o b)[j] = s[j] BY <1>1, <1>2, <1>6, <3>1
    <3> QED BY <1>1, <3>1, <3>2
  <2>2. CASE j >= i
    <3> DEFINE m == j - (i - 1)
    <3>1. j \in Int /\ i \in Int /\ Len(s) \in Int BY <1>1
    <3>2. m \in 1 .. Len(s) - i /\ i + m = j + 1 /\ j + 1 \in 1 .. Len(s) BY <1>1, <2>2, <3>1
    <3>6. ~(j <= i - 1) BY <2>2, <3>1
    <3>7. (a \o b)[j] = IF j <= i - 1 THEN a[j] ELSE b[m] BY <1>6
    <3>3. (a \o b)[j] = b[m] BY <3>6, <3>7
    <3> HIDE DEF m
    <3>4. b[m] = s[i + m] BY <1>3, <3>2
    <3>5. (a \o b)[j] = s[j + 1] BY <3>2, <3>3, <3>4
    <3>8. j + 1 \in DOMAIN s BY <1>1, <3>2
    <3> QED BY <3>5, <3>8
  <2>3. i \in Int /\ j \in Int BY <1>1
  <2>4. j < i \/ j >= i BY <2>3
  <2> QED BY <2>1, <2>2, <2>4
<1>8. DOMAIN (a \o b) = 1 .. Len(s) - 1 BY <1>5
<1> QED BY <1>4, <1>5, <1>7, <1>8

LEMMA ChannelDeleted ==
  ASSUME NEW c, IsControls(c), Ready(c), c.yields # Null, NEW i
  PROVE Sound(c, DeleteChannel(c, i)) /\ Atomic(c, DeleteChannel(c, i))
<1>1. CASE i \notin DOMAIN c.yields.channels BY <1>1, NothingChanged DEF DeleteChannel
<1>2. CASE i \in DOMAIN c.yields.channels
  <2> DEFINE fewer == RemoveAt(c.yields.channels, i)
  <2>1. c.yields.channels \in Seq(YieldChannels) BY YieldsThere DEF IsYields
  <2>2. /\ fewer \in Seq(YieldChannels)
        /\ \A j \in DOMAIN fewer : \E k \in DOMAIN c.yields.channels : fewer[j] = c.yields.channels[k]
    BY <1>2, <2>1, FewerChannelsCoverMore
  <2> HIDE DEF fewer
  <2>3. c.feh \subseteq YieldsFeH(fewer) BY <2>2, YieldsThere DEF YieldsFeH
  <2> QED BY <1>2, <2>2, <2>3, ChannelsChanged DEF DeleteChannel, fewer
<1> QED BY <1>1, <1>2

\* Not atomic: the request stays.
LEMMA YieldsRebuilt ==
  ASSUME NEW c, IsControls(c), Ready(c), c.yields # Null, NEW requested
  PROVE Sound(c, RebuildYields(c, requested))
<1> DEFINE y == RebuildYieldGrid(c.yields, requested, c.minLife)
           d == [[c EXCEPT !.minLife = c.minLife] EXCEPT !.yields = y]
<1>1. IsYields(y) /\ y.channels = c.yields.channels /\ y.requested = requested
      /\ y.isotopes = IsotopeGrid(y.channels, y.requested, c.minLife)
  BY YieldsThere, GridRebuilt
<1>2. RebuildYields(c, requested).c = [c EXCEPT !.yields = y] BY DEF RebuildYields
<1> HIDE DEF y
<1>3. RebuildYields(c, requested).c = d BY <1>2, SameLifetime
<1>4. Sound(c, Done(d)) BY <1>1, YieldsThere, YieldsChanged
<1> HIDE DEF d
<1> QED BY <1>3, <1>4, ResultOf DEF Sound

-----------------------------------------------------------------------------
(* The steps.                                                              *)

\* Controls that were built are in order, and stay so; yields that wait to be
\* installed were built without a request.
IsObject(x) ==
  x # Null => /\ x.kind \in {"extinct", "nebular", "winds", "yields"}
              /\ x.kind = "yields" => IsYields(x.it) /\ x.it.requested = {}
SettersInv ==
  /\ phase = "run" => IsControls(controls) /\ Ready(controls)
  /\ IsObject(object)

\* What a call does to the controls: the calls that a property leaves out are named.
StepKeeps ==
  /\ IsControls(controls') /\ Ready(controls')
  /\ CurveCurrent(controls) /\ last'.name # "extinct" => CurveCurrent(controls')
  /\ last'.error /\ last'.name \notin {"setAVDist", "rebuildYieldGrid"} => controls' = controls

\* Each kind of step, through the setter it calls.
LEMMA Called ==
  ASSUME NEW name, NEW result, Call(name, result), Sound(controls, result),
         name \in {"setAVDist", "rebuildYieldGrid"} \/ Atomic(controls, result)
  PROVE StepKeeps /\ object' = object
<1>1. /\ controls' = result.c /\ object' = object
      /\ last'.name = name /\ last'.error = result.error
  BY DEF Call
<1> QED BY <1>1 DEF StepKeeps, Sound, Atomic

LEMMA ExtinctionStep ==
  ASSUME IsControls(controls), Ready(controls), SetExtinction
  PROVE StepKeeps /\ object' = object
<1>1. CASE \E d \in {"zero", "easy"} : Call("setAVDist", SetAVDist(controls, d))
  BY <1>1, AVDistSet, Called
<1>2. CASE \E d \in {"zero", "easy", "hard"} : Call("setAVDistField", SetAVDistField(controls, d))
  BY <1>2, AVDistFieldSet, Called
<1>3. CASE \E d \in {"one", "two", "negative"} : Call("setAVNebFac", SetAVNebFac(controls, d))
  BY <1>3, AVNebFacSet, Called
<1> QED BY <1>1, <1>2, <1>3 DEF SetExtinction

LEMMA LightStep ==
  ASSUME IsControls(controls), Ready(controls), SetLight
  PROVE StepKeeps /\ object' = object
<1>1. CASE \E s \in Specsyns \cup {Null} : Call("setSpecsyn", SetSpecsyn(controls, s))
  BY <1>1, SpecsynSet, Called
<1>2. CASE \E f \in {Null, [bands |-> {"V"}]} : Call("setFilters", SetFilters(controls, f))
  BY <1>2, OutputSet, Called
<1>3. CASE Call("setNebControls", SetNebControls(controls))  BY <1>3, OutputSet, Called
<1> QED BY <1>1, <1>2, <1>3 DEF SetLight

LEMMA PopulationStep ==
  ASSUME IsControls(controls), Ready(controls), SetPopulation
  PROVE StepKeeps /\ object' = object
<1>1. ASSUME NEW n \in DOMAIN FeHRange, Call("setFeH", SetFeH(controls, FeHRange[n]))
      PROVE StepKeeps /\ object' = object
  <2>1. FeHRange[n] \in SUBSET AllFeH BY DEF AllFeH
  <2> QED BY <1>1, <2>1, FeHSet, Called
<1>2. ASSUME NEW t \in TrackSets, Call("setTracks", SetTracks(controls, t))
      PROVE StepKeeps /\ object' = object
  <2>1. t.mMax \in Nat BY SettersAssumption
  <2> QED BY <1>2, <2>1, TracksSet, Called
<1>3. ASSUME NEW imf \in IMFs, Call("setIMF", SetIMF(controls, imf))
      PROVE StepKeeps /\ object' = object
  <2>1. imf \in Nat \ {0} BY SettersAssumption
  <2> QED BY <1>3, <2>1, IMFSet, Called
<1>4. CASE \E m \in 1 .. 3 : Call("setMinStochMass", SetMinStochMass(controls, m))
  BY <1>4, MinStochMassSet, Called
<1> QED BY <1>1, <1>2, <1>3, <1>4 DEF SetPopulation

LEMMA OutputStep ==
  ASSUME IsControls(controls), Ready(controls), SetOutput
  PROVE StepKeeps /\ object' = object
<1>1. CASE \E x \in {"1.0"} :
             Call("setSFR", SetSFR(controls, x)) \/ Call("setSFRDist", SetSFRDist(controls, x))
  BY <1>1, RateSet, Called
<1>2. CASE \E times \in {"", "list"} : Call("setOutTimes", SetOutTimes(controls, times))
  BY <1>2, OutTimesSet, Called
<1>3. CASE \E n \in {"0", "5"} : Call("setCheckpointInterval", SetCheckpointInterval(controls, n))
  BY <1>3, OutputSet, Called
<1>4. CASE \E f \in Flags : Call("setWrite", SetFlags(controls, controls.flags \ {f}))
  BY <1>4, OutputSet, Called
<1>5. CASE \E limits \in {"8-40", "odd"} : Call("setSNMassLimits", SetSNMassLimits(controls, limits))
  BY <1>5, OutputSet, Called
<1> QED BY <1>1, <1>2, <1>3, <1>4, <1>5 DEF SetOutput

LEMMA IsotopesStep ==
  ASSUME IsControls(controls), Ready(controls), SetIsotopes
  PROVE StepKeeps /\ object' = object
<1>1. CASE \E life \in {"short", "long", "negative"} :
             Call("setMinIsotopeLifetime", SetMinIsotopeLifetime(controls, life))
  BY <1>1, MinIsotopeLifetimeSet, Called
<1>2. ASSUME controls.yields # Null, NEW requested \in Isotopes,
             Call("rebuildYieldGrid", RebuildYields(controls, requested))
      PROVE StepKeeps /\ object' = object
  BY <1>2, YieldsRebuilt, Called
<1>3. ASSUME controls.yields # Null, NEW n \in DOMAIN FeHRange, NEW model \in DOMAIN IsotopesOf,
             NEW ch, ch = [feh |-> FeHRange[n], model |-> model],
             \/ Call("addChannel", AddChannel(controls, ch))
             \/ Call("setChannels", SetChannels(controls, <<ch>>))
      PROVE StepKeeps /\ object' = object
  <2>1. FeHRange[n] \in SUBSET AllFeH BY DEF AllFeH
  <2>2. ch \in YieldChannels BY <1>3, <2>1 DEF YieldChannels
  <2>3. <<ch>> \in Seq(YieldChannels) BY <2>2
  <2>4. CASE Call("addChannel", AddChannel(controls, ch)) BY <1>3, <2>2, <2>4, ChannelAdded, Called
  <2>5. CASE Call("setChannels", SetChannels(controls, <<ch>>)) BY <1>3, <2>3, <2>5, ChannelsSet, Called
  <2> QED BY <1>3, <2>4, <2>5
<1>4. ASSUME controls.yields # Null, NEW i \in 1 .. MaxChannels,
             Call("deleteChannel", DeleteChannel(controls, i))
      PROVE StepKeeps /\ object' = object
  BY <1>4, ChannelDeleted, Called
<1> QED BY <1>1, <1>2, <1>3, <1>4 DEF SetIsotopes

LEMMA BuildStep ==
  ASSUME IsControls(controls), Ready(controls), BuildObject
  PROVE StepKeeps /\ IsObject(object')
<1>1. controls' = controls /\ last'.name = "build" /\ last'.error = FALSE BY DEF BuildObject, Idle
<1>2. StepKeeps BY <1>1 DEF StepKeeps
<1>3. CASE \E own \in BOOLEAN :
             object' = [kind |-> "extinct", it |-> [own |-> own, curve |-> RebuiltCurve(controls)]]
  BY <1>2, <1>3 DEF IsObject
<1>4. CASE \E own \in BOOLEAN : object' = [kind |-> "nebular", it |-> [own |-> own, lines |-> TRUE]]
  BY <1>2, <1>4 DEF IsObject
<1>5. CASE \E own \in BOOLEAN : object' = [kind |-> "winds", it |-> [own |-> own]]
  BY <1>2, <1>5 DEF IsObject
<1>6. ASSUME NEW own \in BOOLEAN, NEW model \in DOMAIN IsotopesOf, NEW y,
             y = [own |-> own, requested |-> {}, isotopes |-> {},
                  channels |-> <<[feh |-> controls.feh, model |-> model]>>],
             object' = [kind |-> "yields", it |-> RebuildYieldGrid(y, {}, controls.minLife)]
      PROVE IsObject(object')
  <2>1. controls.feh \in SUBSET AllFeH BY DEF Ready, PopulationRead
  <2>2. [feh |-> controls.feh, model |-> model] \in YieldChannels BY <2>1 DEF YieldChannels
  <2>3. <<[feh |-> controls.feh, model |-> model]>> \in Seq(YieldChannels) BY <2>2
  <2>4. IsYields(y) BY <1>6, <2>3 DEF IsYields
  <2> DEFINE z == RebuildYieldGrid(y, {}, controls.minLife)
  <2>5. IsYields(z) /\ z.requested = {} BY <2>4, GridRebuilt
  <2> HIDE DEF z
  <2>6. object' = [kind |-> "yields", it |-> z] BY <1>6 DEF z
  <2> QED BY <2>5, <2>6 DEF IsObject
<1> QED BY <1>2, <1>3, <1>4, <1>5, <1>6 DEF BuildObject

\* An object of a kind is installed, or what there is of that kind removed.
LEMMA KindInstalled ==
  ASSUME IsControls(controls), Ready(controls),
         NEW kind \in {"extinct", "nebular", "winds", "yields"},
         NEW x, kind = "yields" /\ x # Null => IsYields(x) /\ x.requested = {}
  PROVE LET result == Installed(controls, kind, x)
        IN /\ IsControls(result.c) /\ Ready(result.c) /\ Atomic(controls, result)
           /\ kind # "extinct" => Sound(controls, result)
<1>1. CASE kind = "extinct"
  <2>1. Installed(controls, kind, x) = SetExtinct(controls, x) BY <1>1 DEF Installed
  <2> QED BY <1>1, <2>1, ExtinctSet
<1>2. CASE kind = "nebular"
  <2>1. Installed(controls, kind, x) = SetNebular(controls, x) BY <1>2 DEF Installed
  <2> QED BY <2>1, LightObjectSet DEF Sound
<1>3. CASE kind = "winds"
  <2>1. Installed(controls, kind, x) = SetWinds(controls, x) BY <1>3 DEF Installed
  <2> QED BY <2>1, LightObjectSet DEF Sound
<1>4. CASE kind = "yields"
  <2>1. Installed(controls, kind, x) = SetYields(controls, x) BY <1>4 DEF Installed
  <2> QED BY <1>4, <2>1, YieldsSet DEF Sound
<1> QED BY <1>1, <1>2, <1>3, <1>4

\* So the step that installs or removes it keeps everything.
LEMMA KindKept ==
  ASSUME IsControls(controls), Ready(controls),
         NEW kind \in {"extinct", "nebular", "winds", "yields"},
         NEW x, kind = "yields" /\ x # Null => IsYields(x) /\ x.requested = {},
         controls' = Installed(controls, kind, x).c,
         last'.name = kind, last'.error = Installed(controls, kind, x).error
  PROVE StepKeeps
<1> DEFINE result == Installed(controls, kind, x)
<1>1. /\ IsControls(result.c) /\ Ready(result.c) /\ Atomic(controls, result)
      /\ kind # "extinct" => Sound(controls, result)
  BY KindInstalled
<1>2. controls' = result.c /\ last'.error = result.error OBVIOUS
<1> HIDE DEF result
<1> QED BY <1>1, <1>2 DEF StepKeeps, Sound, Atomic

LEMMA InstallStep ==
  ASSUME IsControls(controls), Ready(controls), IsObject(object), InstallObject
  PROVE StepKeeps /\ IsObject(object')
<1>1. /\ object # Null /\ controls' = Installed(controls, object.kind, object.it).c
      /\ last'.name = object.kind /\ last'.error = Installed(controls, object.kind, object.it).error
      /\ object' = object \/ object' = Null
  BY DEF InstallObject
<1>2. /\ object.kind \in {"extinct", "nebular", "winds", "yields"}
      /\ object.kind = "yields" => IsYields(object.it) /\ object.it.requested = {}
  BY <1>1 DEF IsObject
<1>3. StepKeeps BY <1>1, <1>2, KindKept
<1> QED BY <1>1, <1>3 DEF IsObject

LEMMA RemoveStep ==
  ASSUME IsControls(controls), Ready(controls), RemoveObject
  PROVE StepKeeps /\ object' = object
<1>1. PICK kind \in {"extinct", "nebular", "winds", "yields"} : Call(kind, Installed(controls, kind, Null))
  BY DEF RemoveObject
<1>2. /\ controls' = Installed(controls, kind, Null).c /\ object' = object
      /\ last'.name = kind /\ last'.error = Installed(controls, kind, Null).error
  BY <1>1 DEF Call
<1> QED BY <1>2, KindKept

\* A step of any kind.
LEMMA SetterStep ==
  ASSUME SettersInv, Setter
  PROVE StepKeeps /\ IsObject(object')
<1>1. IsControls(controls) /\ Ready(controls) /\ IsObject(object) BY DEF SettersInv, Setter
<1>2. CASE SetExtinction BY <1>1, <1>2, ExtinctionStep
<1>3. CASE SetLight BY <1>1, <1>3, LightStep
<1>4. CASE SetPopulation BY <1>1, <1>4, PopulationStep
<1>5. CASE SetOutput BY <1>1, <1>5, OutputStep
<1>6. CASE SetIsotopes BY <1>1, <1>6, IsotopesStep
<1>7. CASE BuildObject BY <1>1, <1>7, BuildStep
<1>8. CASE InstallObject BY <1>1, <1>8, InstallStep
<1>9. CASE RemoveObject BY <1>1, <1>9, RemoveStep
<1> QED BY <1>2, <1>3, <1>4, <1>5, <1>6, <1>7, <1>8, <1>9 DEF Setter

\* SimControls, its constructor and its setters: from whatever deck they were
\* built, and whatever was called since, the controls are in order.
THEOREM SettersInductive == Spec => []SettersInv
<1>1. Init => SettersInv BY DEF Init, SettersInv, IsObject
<1>2. SettersInv /\ [Next]_vars => SettersInv'
  <2> SUFFICES ASSUME SettersInv, [Next]_vars PROVE SettersInv' OBVIOUS
  <2>1. CASE EditDeck BY <2>1 DEF EditDeck, SettersInv, IsObject
  <2>2. CASE Construct
    <3>1. object' = object BY <2>2 DEF Construct
    <3>2. phase' = "run" => ~Build(deck).error /\ controls' = Build(deck).c  BY <2>2 DEF Construct
    <3>3. phase' = "run" => IsControls(controls') /\ Ready(controls') BY <3>2, BuiltReady
    <3> QED BY <3>1, <3>3 DEF SettersInv, IsObject
  <2>3. CASE Setter BY <2>3, SetterStep DEF SettersInv, StepKeeps
  <2>4. CASE UNCHANGED vars BY <2>4 DEF vars, SettersInv, IsObject
  <2> QED BY <2>1, <2>2, <2>3, <2>4 DEF Next
<1> QED BY <1>1, <1>2, PTL DEF Spec

\* setFeH, setTracks, setIMF, setSpecsyn, setYields and the channels' setters: no
\* star, no spectrum and no yield is ever looked up outside its tables.
THEOREM FehAlwaysCovered == Spec => []FehCovered
<1>1. SettersInv => FehCovered
  BY DEF SettersInv, FehCovered, Ready, PopulationRead, TracksCover, SpecsynCovers, YieldsCover,
         Derived, OneRate
<1> QED BY <1>1, SettersInductive, PTL

\* applyConstructorProperties accepts every IMF and tracks that fit each other.
THEOREM ConstructorAccepts == Spec => []ConstructorAcceptsConsistent
<1>1. ASSUME NEW c, IsControls(c), Ready(c), NEW imf \in IMFs, NEW t \in TrackSets,
             c.feh \subseteq t.feh, imf <= t.mMax
      PROVE ~ApplyConstructorProperties(c, imf, t).error
  <2>1. imf \in Nat \ {0} /\ t.mMax \in Nat \ {0} BY SettersAssumption
  <2>2. c.imf \in Nat \ {0} /\ c.tracks.mMax \in Nat /\ c.imf <= c.tracks.mMax
    BY <1>1 DEF Ready, PopulationRead, TracksCover
  <2>3. CASE TracksFirst(c, t)
    <3> DEFINE installed == SetTracks(c, t)
    <3>1. ~installed.error
      BY <1>1, <2>3 DEF SetTracks, TracksCoverFeH, IMFWithinTracks, TracksFirst, Done
    <3>2. installed.c.tracks = t BY <1>1, <2>1, <3>1, TracksSet
    <3> HIDE DEF installed
    <3>3. ~SetIMF(installed.c, imf).error BY <1>1, <3>2 DEF SetIMF, IMFWithinTracks, Done
    <3>4. Done(c).c = c /\ ~Done(c).error BY ResultOf
    <3>5. ApplyConstructorProperties(c, imf, t) = SetIMF(installed.c, imf)
      BY <2>3, <3>1, <3>4 DEF ApplyConstructorProperties, installed
    <3> QED BY <3>3, <3>5
  <2>4. CASE ~TracksFirst(c, t)
    <3> DEFINE early == SetIMF(c, imf)
    <3>1. imf <= c.tracks.mMax BY <1>1, <2>1, <2>2, <2>4 DEF TracksFirst
    <3>2. ~early.error BY <3>1 DEF SetIMF, IMFWithinTracks, Done
    <3>3. early.c.imf = imf /\ early.c.feh = c.feh BY <1>1, <2>1, <3>2, IMFSet
    <3> HIDE DEF early
    <3>4. ~SetTracks(early.c, t).error BY <1>1, <3>3 DEF SetTracks, TracksCoverFeH, IMFWithinTracks, Done
    <3>5. ApplyConstructorProperties(c, imf, t) = SetTracks(early.c, t)
      BY <2>4, <3>2, <3>4 DEF ApplyConstructorProperties, early
    <3> QED BY <3>4, <3>5
  <2> QED BY <2>3, <2>4
<1>2. SettersInv => ConstructorAcceptsConsistent
  BY <1>1 DEF SettersInv, ConstructorAcceptsConsistent
<1> QED BY <1>2, SettersInductive, PTL

\* A setter that throws leaves the controls as they were, but for the two named.
THEOREM FailuresAreAtomic == Spec => FailureAtomic
<1>1. SettersInv /\ [Next]_vars
        => [(last'.error /\ last' # last /\ last'.name \notin {"setAVDist", "rebuildYieldGrid"})
             => controls' = controls]_vars
  <2> SUFFICES ASSUME SettersInv, Next, last'.error, last' # last,
                      last'.name \notin {"setAVDist", "rebuildYieldGrid"}
               PROVE controls' = controls
    OBVIOUS
  <2>1. CASE EditDeck BY <2>1 DEF EditDeck
  <2>2. CASE Construct BY <2>2 DEF Construct
  <2>3. CASE Setter BY <2>3, SetterStep DEF StepKeeps
  <2> QED BY <2>1, <2>2, <2>3 DEF Next
<1> QED BY <1>1, SettersInductive, PTL DEF Spec, FailureAtomic

\* Extinct's cache follows the synthesizer, the field stars' A_V and the nebular
\* ratio: a current curve is current after every call but an installation.
THEOREM CurveKept == Spec => CurveStaysCurrent
<1>1. SettersInv /\ [Next]_vars
        => [(phase = "run" /\ CurveCurrent(controls) /\ last'.name # "extinct")
             => CurveCurrent(controls')]_vars
  <2> SUFFICES ASSUME SettersInv, Next, phase = "run", CurveCurrent(controls), last'.name # "extinct"
               PROVE CurveCurrent(controls')
    OBVIOUS
  <2>1. Setter BY DEF Next, EditDeck, Construct
  <2> QED BY <2>1, SetterStep DEF StepKeeps
<1> QED BY <1>1, SettersInductive, PTL DEF Spec, CurveStaysCurrent
=============================================================================
