--------------------------- MODULE ControlsSetters ---------------------------
(***************************************************************************)
(* The life of a SimControls: its deck is written, it is built from the    *)
(* deck, and then Python (or the library's user) changes it with setters,  *)
(* installs objects built for it earlier, and edits the channels of its    *)
(* yields.  Every call gives the controls after it, whether it threw, and  *)
(* whether the Python object handed over is gone.                          *)
(***************************************************************************)
EXTENDS SimControls

CONSTANTS
  BaseDecks,    \* the decks to start from
  Edits,        \* <<key, value>> pairs a deck may be given
  IMFs,         \* largest masses of the IMFs that are set
  TrackSets,    \* the tracks that are installed
  Specsyns,     \* the synthesizers that are installed
  Isotopes,     \* requests for isotopes
  MaxSteps      \* the bound on edits and calls together

\* Masses are positive.
ASSUME SettersAssumption ==
  /\ IMFs \subseteq Nat \ {0}
  /\ \A tracks \in TrackSets : tracks.mMax \in Nat \ {0}

VARIABLES
  phase,        \* "deck", "run" or "refused"
  deck,         \* the deck while it is written
  controls,
  object,       \* the Python object built for the controls and not installed yet
  last,         \* the last call: its name, whether it threw, whether it consumed its object
  steps
vars == <<phase, deck, controls, object, last, steps>>

Done(c) == [c |-> c, error |-> FALSE, consumed |-> TRUE]
Failed(c) == [c |-> c, error |-> TRUE, consumed |-> FALSE]

-----------------------------------------------------------------------------
(* What is checked before anything changes.                                *)

TracksCoverFeH(tracks, feh) == feh \subseteq tracks.feh
IMFWithinTracks(imf, tracks) == imf <= tracks.mMax

\* checkSpecsynReplacement, checkYieldsReplacement: a replacement covers what the
\* present object covers, or the [Fe/H] distribution if there is none.
CoversInstalled(feh, installedFeh, c) == (IF installedFeh = {} THEN c.feh ELSE installedFeh) \subseteq feh
SpecsynReplaces(s, c) ==
  s.own /\ CoversInstalled(s.feh, IF c.specsyn = Null THEN {} ELSE c.specsyn.feh, c)
YieldsReplace(y, c) ==
  y.own /\ CoversInstalled(YieldsFeH(y.channels), IF c.yields = Null THEN {} ELSE YieldsFeH(c.yields.channels), c)

-----------------------------------------------------------------------------
(* Setters that need the curve of extinction made again: the new value is  *)
(* in place while it is made, and taken back if that fails.                *)

\* Extinct::rebuildCache on a copy, then committed.
WithCurve(c) ==
  IF c.extinct = Null THEN c ELSE [c EXCEPT !.extinct = [own |-> @.own, curve |-> RebuiltCurve(c)]]
CurveThrows(c) == c.extinct # Null /\ CurveFails(c)
RebuildOrRestore(new, old) == IF CurveThrows(new) THEN Failed(old) ELSE Done(WithCurve(new))

SetAVDistField(c, d) == RebuildOrRestore([c EXCEPT !.avField = d], c)
SetAVNebFac(c, d) ==
  IF d = "negative" THEN Failed(c) ELSE RebuildOrRestore([c EXCEPT !.avNebFac = d], c)

\* The distribution of the clusters' A_V is not taken back.
SetAVDist(c, d) ==
  LET new == [c EXCEPT !.avDist = d] IN IF CurveThrows(new) THEN Failed(new) ELSE Done(WithCurve(new))

\* Seeded fault: the synthesizer that was replaced is not put back
SetSpecsynNoRestore(c, s) ==
  IF s # Null /\ ~SpecsynReplaces(s, c) THEN Failed(c)
  ELSE LET new == [c EXCEPT !.specsyn = s]
       IN IF CurveThrows(new) THEN [Failed(new) EXCEPT !.consumed = s # Null] ELSE Done(WithCurve(new))

\* setSpecsynKeepOnFailure: a synthesizer that does not replace the present one is
\* left to Python, one whose curve cannot be made is gone.
SetSpecsyn(c, s) ==
  IF s # Null /\ ~SpecsynReplaces(s, c) THEN Failed(c)
  ELSE [RebuildOrRestore([c EXCEPT !.specsyn = s], c) EXCEPT !.consumed = s # Null]

-----------------------------------------------------------------------------
(* Metallicity, tracks and IMF.                                            *)

\* Seeded fault: the yields are forgotten when a wider distribution is checked
SetFeHNarrowly(c, feh) ==
  IF \/ ~(feh \subseteq c.tracks.feh)
     \/ IF c.specsyn = Null THEN FALSE ELSE ~(feh \subseteq c.specsyn.feh)
  THEN Failed(c) ELSE Done([c EXCEPT !.feh = feh, !.slice = SliceConstFeH(c.tracks, feh)])

SetFeH(c, feh) ==
  IF \/ ~(feh \subseteq c.tracks.feh)
     \/ IF c.specsyn = Null THEN FALSE ELSE ~(feh \subseteq c.specsyn.feh)
     \/ IF c.yields = Null THEN FALSE ELSE ~(feh \subseteq YieldsFeH(c.yields.channels))
  THEN Failed(c) ELSE Done([c EXCEPT !.feh = feh, !.slice = SliceConstFeH(c.tracks, feh)])

\* setTracksKeepOnFailure: the checks are made before Python gives the tracks away.
SetTracks(c, tracks) ==
  IF ~TracksCoverFeH(tracks, c.feh) \/ ~IMFWithinTracks(c.imf, tracks) THEN Failed(c)
  ELSE Done([c EXCEPT !.tracks = tracks,
                      !.slice = IF ConstFeH(c) THEN SliceConstFeH(tracks, c.feh) ELSE @])

SetIMF(c, imf) ==
  IF ~IMFWithinTracks(imf, c.tracks) THEN Failed(c)
  ELSE Done([c EXCEPT !.imf = imf, !.frac = FracStochMass(imf, c.minStoch)])

SetMinStochMass(c, m) == Done([c EXCEPT !.minStoch = m, !.frac = FracStochMass(c.imf, m)])

\* Seeded fault: new tracks always go first
TracksFirstAlways(c, tracks) == TRUE

\* applyConstructorProperties: of an IMF and tracks that are given together, the
\* tracks go first if they reach the present IMF.
TracksFirst(c, tracks) == tracks.mMax >= c.imf
ApplyConstructorProperties(c, imf, tracks) ==
  LET early == IF TracksFirst(c, tracks) THEN Done(c) ELSE SetIMF(c, imf)
      installed == SetTracks(early.c, tracks)
  IN IF early.error THEN early
     ELSE IF installed.error \/ ~TracksFirst(c, tracks) THEN installed
     ELSE SetIMF(installed.c, imf)

-----------------------------------------------------------------------------
(* Rates, times, and what is written.                                      *)

SetSFR(c, x) == Done([c EXCEPT !.sfr = x, !.sfrDist = ""])
SetSFRDist(c, x) == Done([c EXCEPT !.sfrDist = x, !.sfr = ""])
SetOutTimes(c, times) ==
  IF times = "" THEN Failed(c) ELSE Done([c EXCEPT !.outTimes = times, !.outTimeDist = ""])
SetCheckpointInterval(c, n) == Done([c EXCEPT !.interval = n])
SetFlags(c, flags) == Done([c EXCEPT !.flags = flags])
SetSNMassLimits(c, limits) ==
  IF LimitsFail(limits) THEN Failed(c) ELSE Done([c EXCEPT !.snLimits = limits])

\* hasSN: the limits if there are any, else the core-collapse yields, else never.
HasSN(c) == IF c.snLimits # "" THEN "limits" ELSE IF c.yields # Null THEN "yields" ELSE "none"

-----------------------------------------------------------------------------
(* Objects that hold a reference to their controls.                        *)

\* setExtinct and setNebular ask only for these same controls; neither makes the
\* curve again.
SetExtinct(c, x) == IF x # Null /\ ~x.own THEN Failed(c) ELSE Done([c EXCEPT !.extinct = x])
SetNebular(c, x) == IF x # Null /\ ~x.own THEN Failed(c) ELSE Done([c EXCEPT !.nebular = x])
SetYields(c, y) == IF y # Null /\ ~YieldsReplace(y, c) THEN Failed(c) ELSE Done([c EXCEPT !.yields = y])
SetWinds(c, w) == IF w # Null /\ ~w.own THEN Failed(c) ELSE Done([c EXCEPT !.winds = w])
SetFilters(c, f) == Done([c EXCEPT !.filters = f])
SetNebControls(c) == Done(c)

\* Seeded fault: the isotopes are not made again with the old lifetime
SetMinIsotopeLifetimeOnce(c, life) ==
  LET Rebuilt(l) == RebuildYieldGrid(c.yields, c.yields.requested, l)
  IN IF life = "negative" THEN Failed(c)
     ELSE IF c.yields = Null THEN Done([c EXCEPT !.minLife = life])
     ELSE IF GridFails(Rebuilt(life)) THEN Failed([c EXCEPT !.yields = Rebuilt(life)])
     ELSE Done([c EXCEPT !.minLife = life, !.yields = Rebuilt(life)])

\* If the isotopes cannot be made they are made again with the old lifetime.
SetMinIsotopeLifetime(c, life) ==
  LET Rebuilt(l) == RebuildYieldGrid(c.yields, c.yields.requested, l)
  IN IF life = "negative" THEN Failed(c)
     ELSE IF c.yields = Null THEN Done([c EXCEPT !.minLife = life])
     ELSE IF GridFails(Rebuilt(life)) THEN Failed([c EXCEPT !.yields = Rebuilt(c.minLife)])
     ELSE Done([c EXCEPT !.minLife = life, !.yields = Rebuilt(life)])

\* The channels of the yields in place, which have to cover the [Fe/H]
\* distribution; Python makes the isotopes again, all of them, after each change.
WithChannels(c, channels) ==
  [c EXCEPT !.yields = RebuildYieldGrid([@ EXCEPT !.channels = channels], {}, c.minLife)]
SetChannels(c, channels) ==
  IF ~(c.feh \subseteq YieldsFeH(channels)) THEN Failed(c) ELSE Done(WithChannels(c, channels))
AddChannel(c, ch) == SetChannels(c, Append(c.yields.channels, ch))
DeleteChannel(c, i) ==
  IF i \notin DOMAIN c.yields.channels THEN Failed(c)
  ELSE Done(WithChannels(c, RemoveAt(c.yields.channels, i)))
RebuildYields(c, requested) ==
  LET y == RebuildYieldGrid(c.yields, requested, c.minLife)
  IN [c |-> [c EXCEPT !.yields = y], error |-> GridFails(y), consumed |-> FALSE]

-----------------------------------------------------------------------------
(* The steps.                                                              *)

Idle == [name |-> "", error |-> FALSE, consumed |-> FALSE]
Init ==
  /\ phase = "deck" /\ deck \in BaseDecks
  /\ controls = Blank /\ object = Null /\ last = Idle /\ steps = 0

EditDeck ==
  /\ phase = "deck" /\ steps < MaxSteps - 1
  /\ \/ \E e \in Edits : deck' = [k \in {e[1]} |-> e[2]] @@ deck
     \/ \E k \in DOMAIN deck : deck' = [d \in DOMAIN deck \ {k} |-> deck[d]]
  /\ steps' = steps + 1
  /\ UNCHANGED <<phase, controls, object, last>>

\* The deck is not kept: the controls are all there is from now on.
Construct ==
  /\ phase = "deck"
  /\ LET r == Build(deck)
     IN IF r.error THEN phase' = "refused" /\ UNCHANGED controls
        ELSE phase' = "run" /\ controls' = r.c
  /\ deck' = << >>
  /\ UNCHANGED <<object, last, steps>>

Call(name, result) ==
  /\ controls' = result.c
  /\ last' = [name |-> name, error |-> result.error, consumed |-> result.consumed]
  /\ UNCHANGED object

SetExtinction ==
  \/ \E d \in {"zero", "easy"} : Call("setAVDist", SetAVDist(controls, d))
  \/ \E d \in {"zero", "easy", "hard"} : Call("setAVDistField", SetAVDistField(controls, d))
  \/ \E d \in {"one", "two", "negative"} : Call("setAVNebFac", SetAVNebFac(controls, d))
SetLight ==
  \/ \E s \in Specsyns \cup {Null} : Call("setSpecsyn", SetSpecsyn(controls, s))
  \/ \E f \in {Null, [bands |-> {"V"}]} : Call("setFilters", SetFilters(controls, f))
  \/ Call("setNebControls", SetNebControls(controls))
SetPopulation ==
  \/ \E n \in DOMAIN FeHRange : Call("setFeH", SetFeH(controls, FeHRange[n]))
  \/ \E t \in TrackSets : Call("setTracks", SetTracks(controls, t))
  \/ \E imf \in IMFs : Call("setIMF", SetIMF(controls, imf))
  \/ \E m \in 1 .. 3 : Call("setMinStochMass", SetMinStochMass(controls, m))
SetOutput ==
  \/ \E x \in {"1.0"} : Call("setSFR", SetSFR(controls, x)) \/ Call("setSFRDist", SetSFRDist(controls, x))
  \/ \E times \in {"", "list"} : Call("setOutTimes", SetOutTimes(controls, times))
  \/ \E n \in {"0", "5"} : Call("setCheckpointInterval", SetCheckpointInterval(controls, n))
  \/ \E f \in Flags : Call("setWrite", SetFlags(controls, controls.flags \ {f}))
  \/ \E limits \in {"8-40", "odd"} : Call("setSNMassLimits", SetSNMassLimits(controls, limits))
SetIsotopes ==
  \/ \E life \in {"short", "long", "negative"} :
       Call("setMinIsotopeLifetime", SetMinIsotopeLifetime(controls, life))
  \/ /\ controls.yields # Null
     /\ \/ \E requested \in Isotopes : Call("rebuildYieldGrid", RebuildYields(controls, requested))
        \/ \E n \in DOMAIN FeHRange, model \in DOMAIN IsotopesOf :
             LET ch == [feh |-> FeHRange[n], model |-> model]
             IN \/ Len(controls.yields.channels) < MaxChannels /\ Call("addChannel", AddChannel(controls, ch))
                \/ Call("setChannels", SetChannels(controls, <<ch>>))
        \/ \E i \in 1 .. MaxChannels : Call("deleteChannel", DeleteChannel(controls, i))

\* An object is built for the controls as they are, or for some other controls.
BuildObject ==
  /\ object = Null
  /\ \E own \in BOOLEAN :
       \/ /\ ~CurveFails(controls)
          /\ object' = [kind |-> "extinct", it |-> [own |-> own, curve |-> RebuiltCurve(controls)]]
       \/ object' = [kind |-> "nebular", it |-> [own |-> own, lines |-> TRUE]]
       \/ object' = [kind |-> "winds", it |-> [own |-> own]]
       \/ \E model \in DOMAIN IsotopesOf :
            object' = [kind |-> "yields",
                       it |-> RebuildYieldGrid([own |-> own, requested |-> {}, isotopes |-> {},
                                                channels |-> <<[feh |-> controls.feh, model |-> model]>>],
                                               {}, controls.minLife)]
  /\ last' = [Idle EXCEPT !.name = "build"]
  /\ UNCHANGED controls

Installed(c, kind, x) ==
  CASE kind = "extinct" -> SetExtinct(c, x)
    [] kind = "nebular" -> SetNebular(c, x)
    [] kind = "winds" -> SetWinds(c, x)
    [] OTHER -> SetYields(c, x)

\* setExtinct and setNebular take the object whether they accept it or not.
InstallObject ==
  /\ object # Null
  /\ LET result == Installed(controls, object.kind, object.it)
         kept == result.error /\ object.kind \in {"winds", "yields"}
     IN /\ controls' = result.c
        /\ last' = [name |-> object.kind, error |-> result.error, consumed |-> ~kept]
        /\ object' = IF kept THEN object ELSE Null

RemoveObject ==
  \E kind \in {"extinct", "nebular", "winds", "yields"} : Call(kind, Installed(controls, kind, Null))

Setter ==
  /\ phase = "run" /\ steps < MaxSteps /\ steps' = steps + 1
  /\ SetExtinction \/ SetLight \/ SetPopulation \/ SetOutput \/ SetIsotopes
     \/ BuildObject \/ InstallObject \/ RemoveObject
  /\ UNCHANGED <<phase, deck>>

Next == EditDeck \/ Construct \/ Setter
Spec == Init /\ [][Next]_vars

-----------------------------------------------------------------------------
(* What a SimControls promises of its deck and of its setters.             *)

\* What was read of the deck, or would be if it were built now.
Reported == Build(deck)
Unneeded(r) == Unused(r) \cup Ignored(r)

\* The keys reported unused or ignored had no effect: the deck without them gives
\* the same controls, and refuses nothing more.  The hint for an unused key is one
\* the code reads: renamed to it, the key is used, or the deck is refused.  Under
\* strict input no key goes unused.  (TrackedDeck and every reader
\* of SimControls: a value read behind the deck's back, or a branch that forgets a
\* key, shows here.)
KeysReportedTruly ==
  phase = "deck" =>
    LET r == Reported
        needed == [k \in DOMAIN deck \ Unneeded(r) |-> deck[k]]
        Renamed(k, hint) == [d \in (DOMAIN deck \ {k}) \cup {hint} |-> IF d = hint THEN deck[k] ELSE deck[d]]
    IN ~r.error => /\ Build(needed).c = r.c /\ ~Build(needed).error
                   /\ \A k \in Unused(r) : \A hint \in SuggestKey(k, r.wanted) :
                        LET s == Build(Renamed(k, hint)) IN s.error \/ hint \in s.used
                   /\ r.c.strict => Unused(r) = {}

\* The [Fe/H] distribution lies within what the tracks, the synthesizer and the
\* yields cover, the IMF within the tracks, the slice is the tracks' at the one
\* [Fe/H] there is, and the stochastic share of the mass and the rates are those
\* of the present IMF and of one choice: whatever setters were called, in any
\* order, so that no star is ever looked up outside its tables.
FehCovered ==
  phase = "run" =>
    /\ controls.feh \subseteq controls.tracks.feh
    /\ IF controls.specsyn = Null THEN TRUE ELSE controls.feh \subseteq controls.specsyn.feh
    /\ IF controls.yields = Null THEN TRUE ELSE controls.feh \subseteq YieldsFeH(controls.yields.channels)
    /\ controls.imf <= controls.tracks.mMax
    /\ controls.slice = SliceConstFeH(controls.tracks, controls.feh)
    /\ controls.frac = FracStochMass(controls.imf, controls.minStoch)
    /\ controls.sfr = "" \/ controls.sfrDist = ""

\* The comments of the setters promise that a call that throws changes nothing.
\* setAVDist alone keeps the value it was given, and rebuildYieldGrid its request.
FailureAtomic ==
  [][(last'.error /\ last' # last /\ last'.name \notin {"setAVDist", "rebuildYieldGrid"})
     => controls' = controls]_vars

\* The curve of extinction is the one of the present synthesizer, field stars and
\* nebular ratio.
CurveCurrent(c) ==
  c.extinct = Null \/ LET now == RebuiltCurve(c)
                          made == c.extinct.curve
                      IN /\ made.grid = now.grid
                         /\ c.specsyn # Null => made.field = now.field /\ made.fac = now.fac

\* A current curve stays current under every call but the installation of a curve
\* made earlier, whether the call fails or not (Extinct.hpp says the cache follows
\* avDistField() even if it changes later).
CurveStaysCurrent ==
  [][(phase = "run" /\ CurveCurrent(controls) /\ last'.name # "extinct") => CurveCurrent(controls')]_vars

\* The Python constructor accepts every IMF and tracks that fit each other and the
\* [Fe/H] distribution, whatever IMF and tracks the deck named.
ConstructorAcceptsConsistent ==
  phase = "run" => \A imf \in IMFs, t \in TrackSets :
    controls.feh \subseteq t.feh /\ imf <= t.mMax => ~ApplyConstructorProperties(controls, imf, t).error
=============================================================================
