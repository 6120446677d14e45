----------------------------- MODULE SimControls -----------------------------
(***************************************************************************)
(* The controls of a simulation (io::SimControls) as they are read from an *)
(* input deck.  Distributions are told apart by what is checked of them:   *)
(* a distribution of [Fe/H] is the set of values it may give, an IMF its   *)
(* largest mass.  A component (tracks, synthesizer, yields) is a record of *)
(* what it was built for, Null if it is not there.                         *)
(***************************************************************************)
EXTENDS Integers, SequencesExt, TLC

CONSTANTS
  Distance(_, _),   \* the edit distance of two last segments
  FeHRange,     \* the [Fe/H] values each name of a distribution may give
  MaxMassOf,    \* the largest mass of each IMF and of each set of tracks
  IsotopesOf    \* the isotopes each model of a yield channel tabulates

\* Masses are positive.
ASSUME MassAssumption == \A name \in DOMAIN MaxMassOf : MaxMassOf[name] \in Nat \ {0}

-----------------------------------------------------------------------------
(* Reading an input deck (utils::TrackedDeck): a deck is a function from   *)
(* its keys to their values, a key the sequence of its path's segments.    *)
(* A reading is the deck with what is recorded of it: which keys were      *)
(* used, which are ignored and why, and which were wanted but not there.   *)

IsUnder(path, prefix) == IsPrefix(prefix, path)
Leaves(r) == DOMAIN r.deck
Has(r, path) == \E k \in Leaves(r) : IsUnder(k, path)

\* Looking paths up: a leaf is used, a path that is not there was wanted, and a
\* table is neither.
LookUp(r, paths) ==
  [r EXCEPT !.used = @ \cup (paths \cap Leaves(r)),
            !.wanted = @ \cup {p \in paths : ~Has(r, p)}]

\* The keys under a prefix not used so far, and not ignored for another reason,
\* are ignored; a later read still uses them.
MarkIgnored(r, prefix, reason) ==
  LET skipped == {k \in Leaves(r) : IsUnder(k, prefix) /\ k \notin r.used \cup DOMAIN r.reasons}
  IN [r EXCEPT !.reasons = [k \in skipped |-> reason] @@ @]

Unused(r) == Leaves(r) \ (r.used \cup DOMAIN r.reasons)
Ignored(r) == DOMAIN r.reasons \ r.used

\* What an unused key was probably meant to be: a wanted path with the same last
\* segment, else the nearest one within two edits; {} if there is none.
SuggestKey(key, wanted) ==
  LET same == {w \in wanted : Last(w) = Last(key)}
      near == {w \in wanted : Distance(Last(key), Last(w)) <= 2}
      nearest == {w \in near : \A x \in near : Distance(Last(key), Last(w)) <= Distance(Last(key), Last(x))}
  IN IF same # {} THEN same ELSE nearest

-----------------------------------------------------------------------------
AllFeH == UNION {FeHRange[n] : n \in DOMAIN FeHRange}
Everywhere == AllFeH \cup {0}   \* 0 stands for any other [Fe/H]
Null == [null |-> TRUE]
ConstFeH(c) == \E f \in AllFeH : c.feh = {f}

\* The controls before anything is read: the defaults of the members.
Blank ==
  [simType |-> "none", strict |-> FALSE, outputMode |-> "h5", interval |-> "0",
   outTimes |-> "", outTimeDist |-> "", flags |-> {},
   imf |-> 0, feh |-> {}, tracks |-> Null, slice |-> Null,
   minStoch |-> 0, frac |-> 6,
   specsyn |-> Null, filters |-> Null, computeLbol |-> FALSE, computeNeb |-> FALSE, nebular |-> Null,
   avDist |-> "", avField |-> "", avNebFac |-> "", extinct |-> Null,
   minLife |-> "short", yields |-> Null, snLimits |-> "", winds |-> Null,
   clf |-> "", sfr |-> "", sfrDist |-> "", fCluster |-> ""]

-----------------------------------------------------------------------------
(* What several readers and setters share.                                 *)

\* updateFracStochMass: the share of the mass in stars of at least minStoch, in
\* sixths, for an IMF from 1 to imf with as many stars between any two masses.
FracStochMass(imf, minStoch) ==
  CASE minStoch <= 1 -> 6
    [] minStoch >= imf -> 0
    [] OTHER -> (6 * SumSet(minStoch .. imf - 1)) \div SumSet(1 .. imf - 1)

SliceConstFeH(tracks, feh) == IF \E f \in AllFeH : feh = {f} THEN [of |-> tracks, feh |-> feh] ELSE Null

\* Extinct::rebuildCache: the cache is made for the wavelengths of the
\* synthesizer, the expected extinction of field stars and the nebular lines.
\* The curve cannot be normalised if the wavelengths do not cover the V band.
CurveFails(c) == c.specsyn # Null /\ (c.specsyn.grid = "red" \/ c.avField = "hard")
RebuiltCurve(c) ==
  IF c.specsyn = Null THEN [grid |-> "", field |-> "", fac |-> "", lines |-> FALSE]
  ELSE [grid |-> c.specsyn.grid, field |-> c.avField, fac |-> c.avNebFac, lines |-> c.nebular # Null]

\* Yields::rebuildYieldGrid over the isotopes asked for, {} for all: those that
\* live too short are left out.  A failure leaves no isotope at all.
IsotopeGrid(channels, requested, minLife) ==
  LET all == UNION {IsotopesOf[channels[i].model] : i \in DOMAIN channels}
      kept == IF minLife = "long" THEN all \ {"shortlived"} ELSE all
  IN IF requested = {} THEN kept ELSE kept \cap requested
RebuildYieldGrid(y, requested, minLife) ==
  [y EXCEPT !.requested = requested, !.isotopes = IsotopeGrid(y.channels, requested, minLife)]
GridFails(y) == y.requested # {} /\ y.isotopes = {}

\* Yields::requestedFehMin and requestedFehMax: what every channel covers.
YieldsFeH(channels) == {f \in Everywhere : \A i \in DOMAIN channels : f \in channels[i].feh}

-----------------------------------------------------------------------------
(* Reading a deck.                                                         *)

\* The deck as the constructor records it: nothing of it is used yet.
Reading(deck) ==
  [deck |-> deck, used |-> {}, reasons |-> << >>, wanted |-> {}, c |-> Blank, error |-> FALSE]

Given(r, path) == path \in Leaves(r)
Value(r, path, default) == IF Given(r, path) THEN r.deck[path] ELSE default

\* TrackedDeck::value on each of these keys: one that cannot be read is an error.
Read(r, paths) ==
  [LookUp(r, paths) EXCEPT !.error = @ \/ \E p \in paths : Value(r, p, "") = "bad"]
Refuse(r, condition) == [r EXCEPT !.error = @ \/ condition]

\* A reader runs unless one before it threw.
Then(r, Reader(_)) == IF r.error THEN r ELSE Reader(r)

\* The times are a list, a distribution or a range, and only one of them; of a
\* range, one time means one output.
OutTime == <<"output", "output_times">>
RangeKeys == {<<"output", "start_time">>, <<"output", "end_time">>, <<"output", "ntime">>}
SetOutputTimes(r) ==
  LET s == Read(r, {OutTime} \cup RangeKeys)
      hasRange == \E k \in RangeKeys : Given(r, k)
      start == Value(r, <<"output", "start_time">>, "")
      end == Value(r, <<"output", "end_time">>, "")
      one == Value(r, <<"output", "ntime">>, "") = "1"
      t == IF Given(r, OutTime) THEN s ELSE Read(s, {<<"output", "log_time">>})
      logTime == Value(r, <<"output", "log_time">>, "") = "true"
  IN [Refuse(t, \/ Given(r, OutTime) = hasRange
                \/ hasRange /\ ~(\A k \in RangeKeys : Given(r, k))
                \/ hasRange /\ (start = end) # one
                \/ hasRange /\ logTime /\ start = "0")
      EXCEPT !.c.outTimes = IF hasRange THEN start \o end ELSE IF Value(r, OutTime, "") = "list" THEN "list" ELSE "",
             !.c.outTimeDist = IF Value(r, OutTime, "list") = "list" THEN "" ELSE Value(r, OutTime, "")]

\* The flags of what is written, true unless the deck says otherwise.
Flags == {"write_cluster", "write_cluster_spec", "write_cluster_phot", "write_cluster_yields",
          "write_cluster_feedback", "write_galaxy", "write_galaxy_spec", "write_galaxy_phot",
          "write_galaxy_yields", "write_galaxy_feedback"}
ReadOutput(r) ==
  [Read(r, {<<"output", f>> : f \in Flags})
   EXCEPT !.c.flags = {f \in Flags : Value(r, <<"output", f>>, "true") = "true"}]

ReadGeneral(r) ==
  LET simType == Value(r, <<"sim_type">>, "")
      mode == Value(r, <<"output", "output_mode">>, "h5")
      interval == Value(r, <<"output", "checkpoint_interval">>, "0")
  IN [Refuse(Read(r, {<<"sim_type">>, <<"verbosity">>, <<"strict_input">>, <<"output", "output_mode">>,
                      <<"output", "model_name">>, <<"output", "out_dir">>, <<"n_trial">>,
                      <<"output", "checkpoint_interval">>}),
             \/ simType \notin {"galaxy", "cluster"}
             \/ mode \notin {"h5", "h5divided", "ascii"}
             \/ interval # "0" /\ mode = "ascii")
      EXCEPT !.c.simType = simType, !.c.outputMode = mode, !.c.interval = interval,
             !.c.strict = Value(r, <<"strict_input">>, "false") = "true"]

ReadIntegrator(r) ==
  Read(r, {<<"rng_seed">>, <<"integrator", "rel_tol">>, <<"integrator", "abs_tol">>,
           <<"integrator", "max_iter">>})

InitControlFlow(r) == Then(Then(Then(Then(r, ReadGeneral), SetOutputTimes), ReadOutput), ReadIntegrator)

-----------------------------------------------------------------------------
(* The physics: in this order, since each needs what was read before it.   *)

PDFKeys == {<<"stars", "IMF">>, <<"clusters", "CMF">>, <<"stars", "FeH">>}
ReadPDFs(r) ==
  LET imf == Value(r, <<"stars", "IMF">>, "")
      feh == Value(r, <<"stars", "FeH">>, "")
      known == imf \in DOMAIN MaxMassOf /\ feh \in DOMAIN FeHRange
  IN [Refuse(Read(r, PDFKeys), ~known \/ ~Given(r, <<"clusters", "CMF">>))
      EXCEPT !.c.imf = IF known THEN MaxMassOf[imf] ELSE 0,
             !.c.feh = IF known THEN FeHRange[feh] ELSE {}]

\* The tracks are loaded over the range of the [Fe/H] distribution, and have to
\* reach the largest mass of the IMF.
ReadTracks(r) ==
  LET name == Value(r, <<"stars", "tracks">>, "")
      tracks == IF name \in DOMAIN MaxMassOf THEN [feh |-> r.c.feh, mMax |-> MaxMassOf[name]] ELSE Null
  IN [Refuse(Read(r, {<<"stars", "tracks">>, <<"stars", "track_registry">>, <<"stars", "v_vcrit">>,
                      <<"stars", "alphaFe">>}),
             IF tracks = Null THEN TRUE ELSE r.c.imf > tracks.mMax)
      EXCEPT !.c.tracks = tracks]

SpectraKeys == {<<"spectra", "registry">>, <<"spectra", "wl_min">>, <<"spectra", "wl_max">>,
                <<"spectra", "nwl">>, <<"spectra", "z">>, <<"stars", "alphaFe">>, <<"stars", "CFe">>}

\* A library is loaded over the range of the tracks; the black-body needs none.
\* The ends of the wavelengths are given together, with their number.
ReadSpectra(r) ==
  LET s == LookUp(r, {<<"spectra", "model">>})
      model == Value(r, <<"spectra", "model">>, "")
      ends == {<<"spectra", "wl_min">>, <<"spectra", "wl_max">>}
      grid == Value(r, <<"spectra", "wl_min">>, "wide")
  IN IF ~Has(r, <<"spectra", "model">>)
     THEN MarkIgnored(MarkIgnored(s, <<"spectra">>, "no spectra"), <<"stars", "CFe">>, "no spectra")
     ELSE [Refuse(Read(s, SpectraKeys),
                  \/ model \notin {"blackbody", "library", "chain"}
                  \/ /\ \E k \in ends : Given(r, k)
                     /\ \E k \in ends \cup {<<"spectra", "nwl">>} : ~Given(r, k))
           EXCEPT !.c.specsyn = [feh |-> IF model = "blackbody" THEN Everywhere ELSE r.c.tracks.feh,
                                 grid |-> grid]]

\* "Lbol" among the filters is a request of its own; the others need a synthesizer.
ReadFilters(r) ==
  LET filters == Value(r, <<"phot", "filters">>, "none")
      proper == filters \in {"V", "V+Lbol"}
  IN [Refuse(Read(r, {<<"phot", "system">>, <<"phot", "registry">>, <<"phot", "vega">>,
                      <<"phot", "filters">>}),
             proper /\ r.c.specsyn = Null)
      EXCEPT !.c.filters = IF proper THEN [bands |-> {"V"}] ELSE Null,
             !.c.computeLbol = filters \in {"Lbol", "V+Lbol"}]

\* Nebular emission is computed by default if there is a synthesizer, and
\* refused if it is asked for without one.
ReadNebular(r) ==
  LET s == Read(r, {<<"nebular", "compute_neb">>})
      flag == Value(r, <<"nebular", "compute_neb">>, IF r.c.specsyn = Null THEN "false" ELSE "true")
  IN IF r.c.specsyn = Null
     THEN MarkIgnored(Refuse(s, flag = "true"), <<"nebular">>, "no spectra")
     ELSE IF flag = "false" THEN MarkIgnored(s, <<"nebular">>, "compute_neb is false")
     ELSE [Read(s, {<<"nebular", "log_U">>, <<"nebular", "cov_fac">>, <<"nebular", "line_width">>,
                    <<"nebular", "table">>, <<"stars", "tracks">>, <<"stars", "v_vcrit">>})
           EXCEPT !.c.computeNeb = TRUE, !.c.nebular = [lines |-> TRUE]]

\* Seeded fault: the ratio of nebular to stellar extinction is taken from the deck
\* before it is known whether extinction is applied
ReadExtinctEagerly(r) ==
  LET fac == Value(r, <<"extinct", "neb_factor">>, "one")
  IN [MarkIgnored(LookUp(r, {<<"extinct", "AV">>, <<"extinct", "AV_field">>}), <<"extinct">>, "no A_V")
      EXCEPT !.c.avNebFac = fac]

\* The A_V of clusters or of field stars turns extinction on, and the one not
\* given is zero.
ReadExtinct(r) ==
  LET s == Read(r, {<<"extinct", "AV">>, <<"extinct", "AV_field">>})
      fac == Value(r, <<"extinct", "neb_factor">>, "one")
      d == [r.c EXCEPT !.avDist = Value(r, <<"extinct", "AV">>, "zero"),
                       !.avField = Value(r, <<"extinct", "AV_field">>, "zero"),
                       !.avNebFac = fac]
  IN IF ~Given(r, <<"extinct", "AV">>) /\ ~Given(r, <<"extinct", "AV_field">>)
     THEN [MarkIgnored(s, <<"extinct">>, "no A_V") EXCEPT !.c.avNebFac = "one"]
     ELSE [Refuse(Read(s, {<<"extinct", "neb_factor">>, <<"extinct", "model">>, <<"extinct", "registry">>}),
                  \/ fac = "negative"
                  \/ ~Given(r, <<"extinct", "model">>)
                  \/ r.c.specsyn = Null
                  \/ CurveFails(d))
           EXCEPT !.c = [d EXCEPT !.extinct = [own |-> TRUE, curve |-> RebuiltCurve(d)]]]

ChannelKey(i) == <<"yields", "channel" \o ToString(i)>>
Channels == {"agb", "ccsn"}
MaxChannels == 2   \* the bound on the channels of a deck

\* The channels are numbered from one, and the first number that is missing ends
\* them.  Without a channel the keys read after them are ignored.
ReadYields(r) ==
  LET n == CHOOSE k \in 0 .. MaxChannels :
             /\ \A i \in 1 .. k : Has(r, ChannelKey(i))
             /\ k = MaxChannels \/ ~Has(r, ChannelKey(k + 1))
      Own(i, key) == Append(ChannelKey(i), key)
      s == Read(LookUp(r, {ChannelKey(i) : i \in 1 .. n + 1}),
                {Own(i, key) : i \in 1 .. n, key \in {"channel", "model", "m_min", "m_max"}}
                \cup {<<"yields", key>> : key \in {"channel_decomposed", "no_decay", "min_isotope_lifetime"}})
      minLife == Value(r, <<"yields", "min_isotope_lifetime">>, "short")
      channels == [i \in 1 .. n |-> [feh |-> r.c.feh, model |-> Value(r, Own(i, "model"), "")]]
      requested == IF Given(r, <<"yields", "isotopes">>) THEN {Value(r, <<"yields", "isotopes">>, "")} ELSE {}
      y == RebuildYieldGrid([own |-> TRUE, channels |-> channels, requested |-> {}, isotopes |-> {}],
                            requested, minLife)
      t == [Refuse(s, \/ \E i \in 1 .. n : Value(r, Own(i, "channel"), "") \notin Channels
                      \/ minLife = "negative") EXCEPT !.c.minLife = minLife]
  IN IF t.error THEN t
     ELSE IF n = 0
     THEN MarkIgnored(MarkIgnored(t, <<"yields", "registry">>, "no channel"), <<"yields", "isotopes">>, "no channel")
     ELSE IF \/ "write_cluster_yields" \notin r.c.flags
                /\ ("write_galaxy_yields" \notin r.c.flags \/ r.c.simType = "cluster")
             \/ \E i \in 1 .. n : channels[i].model \notin DOMAIN IsotopesOf
     THEN Refuse(t, TRUE)
     ELSE [Refuse(Read(t, {<<"yields", "registry">>, <<"yields", "isotopes">>}), GridFails(y))
           EXCEPT !.c.yields = y]

WindKeys == {<<"feedback", w>> : w \in {"wr_winds", "ob_winds", "agb_winds", "other_winds"}}

\* The limits of the supernovae: an even number of finite positive masses, each
\* above the one before.
LimitsFail(limits) == limits \in {"odd", "decreasing"}

\* The winds are computed whatever the deck says.
ReadFeedback(r) ==
  LET limits == Value(r, <<"feedback", "sn_mass_range">>, "")
  IN [Refuse(Read(r, WindKeys \cup {<<"feedback", "sn_mass_range">>}), LimitsFail(limits))
      EXCEPT !.c.snLimits = limits, !.c.winds = [own |-> TRUE]]

\* A galaxy has a rate or a distribution of rates; clusters alone use neither.
ReadGalaxy(r) ==
  LET sfr == Value(r, <<"galaxy", "sfr">>, "")
      sfrDist == Value(r, <<"galaxy", "sfr_dist">>, "")
      s == Read(r, {<<"clusters", "CLF">>, <<"galaxy", "sfr">>, <<"galaxy", "sfr_dist">>, <<"clusters", "f_cluster">>})
  IN IF r.c.simType = "galaxy"
     THEN [Refuse(s, ~Given(r, <<"clusters", "CLF">>) \/ (sfr = "") = (sfrDist = ""))
           EXCEPT !.c.clf = Value(r, <<"clusters", "CLF">>, ""), !.c.sfr = sfr, !.c.sfrDist = sfrDist,
                  !.c.fCluster = Value(r, <<"clusters", "f_cluster">>, "1.0")]
     ELSE MarkIgnored(MarkIgnored(MarkIgnored(r, <<"clusters", "CLF">>, "no galaxy"),
                                  <<"clusters", "f_cluster">>, "no galaxy"), <<"galaxy">>, "no galaxy")

Mass == [two |-> 2, three |-> 3]
ReadMinStoch(r) ==
  LET key == <<"stars", "min_stoch_mass">>
      s == [Read(r, {key}) EXCEPT !.c.slice = SliceConstFeH(r.c.tracks, r.c.feh)]
  IN IF ~Given(r, key) \/ s.error THEN s
     ELSE LET m == Mass[Value(r, key, "")]
          IN [s EXCEPT !.c.minStoch = m, !.c.frac = FracStochMass(r.c.imf, m)]

InitPhysics(r) ==
  LET tracks == Then(Then(r, ReadPDFs), ReadTracks)
      light == Then(Then(Then(tracks, ReadSpectra), ReadFilters), ReadNebular)
      yields == Then(Then(Then(light, ReadExtinct), ReadYields), ReadFeedback)
  IN Then(Then(yields, ReadGalaxy), ReadMinStoch)

\* SimControls::SimControls: with strict input, a key that is never used is refused.
ReportUnusedKeys(r) == Refuse(r, r.c.strict /\ Unused(r) # {})
Build(deck) == Then(InitPhysics(InitControlFlow(Reading(deck))), ReportUnusedKeys)
=============================================================================
