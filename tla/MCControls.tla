----------------------------- MODULE MCControls -----------------------------
(* Instances of ControlsSetters for TLC. *)
EXTENDS ControlsSetters

\* The first segment of a misspelt key is a list of what it is near to.
MCDistance(a, b) == IF a = b THEN 0 ELSE IF <<a, b>> \in {<<"v_vcirt", "v_vcrit">>, <<"AVfield", "AV_field">>} THEN 2 ELSE 9

MCFeHRange == [low |-> {1}, high |-> {2}, both |-> {1, 2}]
MCMaxMassOf == [light |-> 2, heavy |-> 3, short |-> 2, tall |-> 3]
MCIsotopesOf == [karakas |-> {"C12", "shortlived"}, sukhbold |-> {"O16", "Fe56"}]

Cluster == <<"sim_type">> :> "cluster" @@ <<"output", "output_times">> :> "list"
           @@ <<"stars", "IMF">> :> "light" @@ <<"clusters", "CMF">> :> "schechter"
           @@ <<"stars", "FeH">> :> "low" @@ <<"stars", "tracks">> :> "tall"
Full == <<"spectra", "model">> :> "library" @@ <<"extinct", "AV_field">> :> "easy"
        @@ <<"extinct", "model">> :> "MW" @@ <<"phot", "filters">> :> "V+Lbol"
        @@ <<"yields", "channel1", "channel">> :> "agb" @@ <<"yields", "channel1", "model">> :> "karakas"
        @@ <<"stars", "min_stoch_mass">> :> "two" @@ Cluster
Galaxy == <<"sim_type">> :> "galaxy" @@ <<"clusters", "CLF">> :> "exp" @@ <<"galaxy", "sfr">> :> "1.0"
          @@ <<"stars", "FeH">> :> "both" @@ Full
MCBaseDecks == {Cluster, Full, Galaxy}

MCEdits ==
  {<<<<"strict_input">>, "true">>, <<<<"stars", "v_vcirt">>, "0.4">>, <<<<"stars", "v_vcrit">>, "0.4">>,
   <<<<"stars", "CFe">>, "0.0">>, <<<<"stars", "IMF">>, "heavy">>, <<<<"stars", "FeH">>, "high">>,
   <<<<"stars", "tracks">>, "short">>, <<<<"output", "start_time">>, "0">>, <<<<"output", "end_time">>, "9">>,
   <<<<"output", "ntime">>, "1">>, <<<<"output", "log_time">>, "true">>, <<<<"output", "output_times">>, "flat">>,
   <<<<"output", "output_mode">>, "ascii">>, <<<<"output", "checkpoint_interval">>, "5">>,
   <<<<"output", "write_cluster_yields">>, "false">>, <<<<"output", "write_galaxy_yields">>, "bad">>,
   <<<<"spectra", "model">>, "blackbody">>, <<<<"spectra", "wl_min">>, "red">>, <<<<"spectra", "wl_max">>, "x">>,
   <<<<"spectra", "nwl">>, "100">>, <<<<"phot", "filters">>, "Lbol">>, <<<<"nebular", "compute_neb">>, "false">>,
   <<<<"nebular", "log_U">>, "-3">>, <<<<"nebular", "compute_neb">>, "true">>, <<<<"extinct", "AV">>, "one">>,
   <<<<"extinct", "AVfield">>, "one">>, <<<<"extinct", "AV_field">>, "hard">>, <<<<"extinct", "neb_factor">>, "two">>,
   <<<<"yields", "channel2", "channel">>, "ccsn">>, <<<<"yields", "channel2", "model">>, "sukhbold">>,
   <<<<"yields", "isotopes">>, "shortlived">>, <<<<"yields", "min_isotope_lifetime">>, "long">>,
   <<<<"yields", "registry">>, "mine">>, <<<<"feedback", "agb_winds">>, "slug2">>,
   <<<<"feedback", "sn_mass_range">>, "odd">>, <<<<"galaxy", "sfr">>, "2.0">>, <<<<"galaxy", "sfr_dist">>, "flat">>,
   <<<<"clusters", "f_cluster">>, "0.5">>}

MCSpecsyns == {[own |-> own, feh |-> feh, grid |-> grid] :
                 own \in {TRUE}, feh \in {{1}, {1, 2}}, grid \in {"wide", "narrow", "red"}}
              \cup {[own |-> FALSE, feh |-> {1, 2}, grid |-> "wide"]}
MCTrackSets == {[feh |-> feh, mMax |-> m] : feh \in {{1}, {2}, {1, 2}}, m \in {2, 3}}
MCIsotopes == {{}, {"shortlived"}, {"O16"}}
=============================================================================
