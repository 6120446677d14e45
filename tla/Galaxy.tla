-------------------------------- MODULE Galaxy --------------------------------
(***************************************************************************)
(* A galaxy (core::Galaxy) as the driver uses it: advanced through the     *)
(* output times, with any of its results, or those of one of its clusters, *)
(* asked for in any order in between.  Time is counted in steps of the     *)
(* star formation history, in each of which the same mass forms.           *)
(*                                                                         *)
(* Light and yields are as in Cluster, with two more kinds of stars:       *)
(*   "field"   star n drawn for the field in the step after time host,     *)
(*   "slot"    the field stars of one mass below minStoch formed at time   *)
(*             host, which are integrated over.                            *)
(***************************************************************************)
EXTENDS Cluster

CONSTANTS
  MaxTime,                 \* the last time asked for
  MinRate, MaxRate,        \* the star formation rates sfr_dist may give
  MinCluster, MaxCluster,  \* the cluster mass function
  MaxSteps,                \* bound on the calls of advance
  MaxCalls                 \* bound on the results asked for, over the whole run

ASSUME GalaxyAssumption ==
  /\ MaxTime \in Nat /\ MaxTime < Never
  /\ MinRate \in Nat /\ MaxRate \in Nat /\ MinRate <= MaxRate
  /\ MinCluster \in Nat \ {0} /\ MaxCluster \in Nat /\ MinCluster <= MaxCluster
  /\ MaxSteps \in Nat /\ MaxCalls \in Nat

VARIABLES
  curTime,           \* curTime_
  rate,              \* sfr_
  gal,               \* lists of stars and clusters, and what is computed on demand
  deadFieldStars,    \* deadFieldStars_
  yields, fieldYields, lastYieldTime,
  stochSNe, nonStochSNe, lastFeedbackTime,
  rng,               \* the state of the thread's generator
  nextUid,           \* the unique ID service
  census,            \* history: every star ever formed, and when
  steps, calls       \* calls of advance, and results asked for, so far

vars == <<tape, sc, curTime, rate, gal, deadFieldStars, yields, fieldYields, lastYieldTime,
          stochSNe, nonStochSNe, lastFeedbackTime, rng, nextUid, census, steps, calls>>

-----------------------------------------------------------------------------
(* The continuous population: field stars below minStoch.                  *)

HasContinuous == sc.fCluster < 2 /\ sc.minStoch > 1

\* integrateCts and Specsyn::specCts: the stars alive at time t, with their ages.
IntegrateCts(t) ==
  IF ~HasContinuous THEN EmptyBag
  ELSE SetToBag(UNION {{<< <<"slot", s, 0, m>>, t - s>> : m \in LiveMasses(t - s) \cap 1 .. sc.minStoch - 1} :
                        s \in 1 .. t})

\* continuousDeathQuantity: the stars that died between two times, with the times
\* of their deaths.  An instant weighs nothing in the integral; a death at the
\* end counts for the next interval, as it does for drawn stars.
ContinuousDeaths(tLast, tNow) ==
  IF tNow <= tLast \/ ~HasContinuous THEN {}
  ELSE {d \in {<< <<"slot", s, 0, m>>, s + Lifetime[m]>> :
                 s \in 1 .. tNow, m \in MinTrack .. sc.minStoch - 1} :
          tLast <= d[2] /\ d[2] < tNow}

-----------------------------------------------------------------------------
(* Results on demand.                                                      *)

Each(F(_), list) == [i \in DOMAIN list |-> F(list[i])]
Listed(g) == g.clusters \o g.disrupted
SumOverClusters(F(_), g) == SumOf(Each(LAMBDA c : SetToBag(F(c)), Listed(g)))

NoProps == -1   \* an empty entry of fieldStarProps_

\* The light of the field stars that have properties.
FieldLight(g) ==
  SetToBag({<<g.fieldStars[j].src, g.fieldProps[j]>> :
              j \in {i \in DOMAIN g.fieldStars : g.fieldProps[i] # NoProps}})

\* Field light is extinguished as one, by the expected extinction, 0.
Expected(light) ==
  [x \in {<<y[1], y[2], 0>> : y \in BagToSet(light)} |-> light[<<x[1], x[2]>>]]

\* computeSpec with addClusterSpecNeb: the sums over all clusters.
SpecSummed(g) ==
  [g EXCEPT !.spec =
    [plain |-> SumOverClusters(LAMBDA c : c.spec.plain, g),
     extinct |-> IF sc.extinct THEN SumOverClusters(LAMBDA c : c.spec.extinct, g) ELSE @.extinct,
     neb |-> IF sc.nebular THEN SumOverClusters(LAMBDA c : c.spec.neb, g) ELSE @.neb,
     nebExtinct |-> IF sc.extinct /\ sc.nebular
                    THEN SumOverClusters(LAMBDA c : c.spec.nebExtinct, g) ELSE @.nebExtinct]]
ClusterSpecs(g) ==
  SpecSummed([g EXCEPT !.clusters = Each(WithSpec, @), !.disrupted = Each(WithSpec, @)])

\* addContinuousSpec with addContinuousNebSpec: the integral that gives the
\* spectrum gives the luminosity as well, if that is wanted.
AddContinuousSpec(g) ==
  LET light == IntegrateCts(curTime) (+) FieldLight(g)
      byproduct == HasContinuous /\ sc.computeLbol
  IN [g EXCEPT
       !.spec = [plain |-> @.plain (+) light,
                 extinct |-> IF sc.extinct THEN @.extinct (+) Expected(light) ELSE @.extinct,
                 neb |-> IF sc.nebular THEN @.neb (+) light ELSE @.neb,
                 nebExtinct |-> IF sc.extinct /\ sc.nebular THEN @.nebExtinct (+) Expected(light)
                                ELSE @.nebExtinct],
       !.lbolCts = IF byproduct THEN IntegrateCts(curTime) ELSE @,
       !.lbolCtsCurrent = @ \/ byproduct]

ComputeGalaxySpec(g) ==
  IF ~sc.specsyn THEN g
  ELSE IF sc.fCluster < 2 THEN AddContinuousSpec(ClusterSpecs(g)) ELSE ClusterSpecs(g)

GalaxyWithSpec(g) ==
  IF g.specCurrent THEN g ELSE [ComputeGalaxySpec(g) EXCEPT !.specCurrent = TRUE]

\* The photometry of the summed spectrum; no cluster's photometry is needed.
PhotFromSpec(g) == [g EXCEPT !.phot = g.spec]
ComputeGalaxyPhot(g) ==
  IF ~sc.filters THEN g ELSE PhotFromSpec(GalaxyWithSpec(g))

GalaxyWithPhot(g) ==
  IF g.photCurrent THEN g ELSE [ComputeGalaxyPhot(g) EXCEPT !.photCurrent = TRUE]

ComputeLbolCts(g) == [g EXCEPT !.lbolCts = IntegrateCts(curTime), !.lbolCtsCurrent = TRUE]

WithLbolCts(g) == IF ~g.lbolCtsCurrent /\ HasContinuous THEN ComputeLbolCts(g) ELSE g
LbolSummed(g) ==
  LET cts == IF g.lbolCtsCurrent THEN g.lbolCts ELSE EmptyBag
  IN [g EXCEPT !.lbol = SumOverClusters(LAMBDA c : c.lbol, g) (+) cts (+) FieldLight(g)]

ComputeGalaxyLbol(g) ==
  IF ~sc.computeLbol THEN g
  ELSE LbolSummed(WithLbolCts([g EXCEPT !.clusters = Each(WithLbol, @),
                                        !.disrupted = Each(WithLbol, @)]))

GalaxyWithLbol(g) ==
  IF g.lbolCurrent THEN g ELSE [ComputeGalaxyLbol(g) EXCEPT !.lbolCurrent = TRUE]

WindsSummed(g) ==
  [g EXCEPT !.winds = SumOverClusters(LAMBDA c : c.winds, g) (+) FieldLight(g)
                        (+) IntegrateCts(curTime)]
ComputeGalaxyWinds(g) ==
  WindsSummed([g EXCEPT !.clusters = Each(WithWinds, @), !.disrupted = Each(WithWinds, @)])

GalaxyWithWinds(g) ==
  IF g.windsCurrent THEN g ELSE [ComputeGalaxyWinds(g) EXCEPT !.windsCurrent = TRUE]

-----------------------------------------------------------------------------
(* Formation of stars between curTime and t.                               *)

NewMass(t) == rate * (t - curTime)

\* made: what has formed so far.  A cluster of one of the masses drawn is added.
ClusterAdded(made, new) ==
  [made EXCEPT !.clusters = Append(@, new.cluster), !.next = new.next, !.uid = @ + 1]
FormCluster(made, mass, t) ==
  ClusterAdded(made, NewCluster(made.uid, mass, DrawAt(made.next, curTime + 1, t), made.next + 1))

\* A field star likewise: formation time, [Fe/H], and A_V if there is extinction.
NewFieldStar(made, mass, formTime) ==
  [src |-> <<"field", curTime, Len(made.field) + 1, mass>>,
   feh |-> DrawAt(made.next + 1, 0, 1),
   formTime |-> formTime,
   deathTime |-> formTime + StarLifetimeClamped(mass),
   aV |-> IF sc.extinct THEN DrawAt(made.next + 2, 1, 2) ELSE 0]
FormFieldStar(made, mass, t) ==
  [made EXCEPT !.field = Append(@, NewFieldStar(made, mass, DrawAt(made.next, curTime + 1, t))),
               !.next = IF sc.extinct THEN @ + 3 ELSE @ + 2]

ClustersFormed(none, masses, t) ==
  LET upTo[n \in 0 .. Len(masses)] ==
        IF n = 0 THEN none ELSE FormCluster(upTo[n - 1], masses[n], t)
  IN upTo[Len(masses)]
FieldFormed(made, masses, t) ==
  LET upTo[n \in 0 .. Len(masses)] ==
        IF n = 0 THEN made ELSE FormFieldStar(upTo[n - 1], masses[n], t)
  IN upTo[Len(masses)]

SortedByFormTime(made) ==
  [made EXCEPT !.field = Sorted(made.field, [i \in DOMAIN made.field |-> made.field[i].formTime])]

\* Steps 1 to 3 of advance: all masses are drawn before anything is formed.
FormedOf(clusterMasses, fieldMasses, t) ==
  LET none == [clusters |-> << >>, field |-> << >>, next |-> fieldMasses.next, uid |-> nextUid]
  IN SortedByFormTime(FieldFormed(ClustersFormed(none, clusterMasses, t), fieldMasses.sample, t))

FormedAfter(clusterMasses, t) ==
  FormedOf(clusterMasses.sample,
           DrawTarget(clusterMasses.next, StochMass((NewMass(t) * (2 - sc.fCluster)) \div 2),
                      sc.minStoch, MaxMass), t)

Formation(t) ==
  FormedAfter(DrawTarget(rng, (NewMass(t) * sc.fCluster) \div 2, MinCluster, MaxCluster), t)

\* history: what formed
BornInCluster(c) ==
  {[src |-> s.src, born |-> c.formTime] : s \in ToSet(c.stars)}
    \cup {[src |-> <<"bin", c.uid, 0, m>>, born |-> c.formTime] :
            m \in IF c.hasBins THEN 1 .. sc.minStoch - 1 ELSE {}}
BornInClusters(clusters) == UNION {BornInCluster(c) : c \in ToSet(clusters)}
BornInField(stars) == {[src |-> s.src, born |-> s.formTime] : s \in ToSet(stars)}
SlotsBorn(from, t) ==
  IF HasContinuous THEN {[src |-> <<"slot", s, 0, m>>, born |-> s] : s \in from + 1 .. t, m \in 1 .. sc.minStoch - 1}
  ELSE {}
Born(t, formed) ==
  BornInClusters(formed.clusters) \cup BornInField(formed.field) \cup SlotsBorn(curTime, t)

-----------------------------------------------------------------------------
(* Evolution.                                                              *)

\* getFieldStarProps: the age stands for the properties, which a star outside
\* the mass range of the tracks does not have.
FieldStarProps(stars, t) ==
  [i \in DOMAIN stars |->
     IF stars[i].src[4] \in MinTrack .. MaxMass THEN t - stars[i].formTime ELSE NoProps]

\* computeYields: the clusters' yields summed anew, the field's carried on.
FieldYieldsAfter(t, dead) ==
  ApplyDecay(t - lastYieldTime, fieldYields)
    (+) SetToBag({<<s.src, DecayTime(t, s.deathTime)>> : s \in ToSet(dead)})
    (+) SetToBag({<<d[1], DecayTime(t, d[2])>> : d \in ContinuousDeaths(lastYieldTime, t)})

YieldsAfter(clusterLists, newFieldYields) ==
  newFieldYields (+) SumOf(Each(LAMBDA c : c.yields, clusterLists))

\* Step 4: clusters advanced to t.
Aged(clusters, t) == Each(LAMBDA c : AdvanceCluster(c, t), clusters)

FieldAlive(stars, t) == Picked(stars, {i \in DOMAIN stars : stars[i].deathTime >= t})
FieldDead(stars, t) == Picked(stars, {i \in DOMAIN stars : stars[i].deathTime < t})
Staying(clusters) == Picked(clusters, {i \in DOMAIN clusters : ~clusters[i].isDisrupted})
Leaving(clusters) == Picked(clusters, {i \in DOMAIN clusters : clusters[i].isDisrupted})

\* Steps 5 to 8: the clusters that disrupted move to their own list, the field stars
\* that died to theirs; nothing computed on demand is current.
ListsAfter(clusters, disrupted, field, t) ==
  /\ gal' = [gal EXCEPT !.clusters = Staying(clusters),
                        !.disrupted = disrupted \o Leaving(clusters),
                        !.fieldStars = FieldAlive(field, t),
                        !.fieldProps = FieldStarProps(FieldAlive(field, t), t),
                        !.specCurrent = FALSE, !.photCurrent = FALSE, !.lbolCurrent = FALSE,
                        !.windsCurrent = FALSE, !.lbolCtsCurrent = FALSE]
  /\ deadFieldStars' = FieldDead(field, t)

\* Steps 9 and 10: yields and feedback, from the lists as they are now.
ReleasedBy(t) ==
  /\ IF sc.yields
     THEN /\ fieldYields' = FieldYieldsAfter(t, deadFieldStars')
          /\ yields' = YieldsAfter(gal'.clusters \o gal'.disrupted, fieldYields')
     ELSE UNCHANGED <<fieldYields, yields>>
  /\ stochSNe' = stochSNe
       (+) SetToBag({s.src : s \in {d \in ToSet(deadFieldStars') : d.src[4] \in HasSN}})
  /\ nonStochSNe' = nonStochSNe
       (+) SetToBag({d[1] : d \in {e \in ContinuousDeaths(lastFeedbackTime, t) : e[1][4] \in HasSN}})
  /\ lastYieldTime' = t
  /\ lastFeedbackTime' = t

\* Galaxy::advance
Advance(t) ==
  /\ t >= curTime
  /\ steps < MaxSteps
  /\ curTime' = t
  /\ \E formed \in {Formation(t)} :
     /\ \E clusters \in {Aged(gal.clusters \o formed.clusters, t)} :
          ListsAfter(clusters, Aged(gal.disrupted, t), gal.fieldStars \o formed.field, t)
     /\ rng' = formed.next % Len(tape)
     /\ nextUid' = formed.uid
     /\ census' = census \cup Born(t, formed)
  /\ ReleasedBy(t)
  /\ steps' = steps + 1
  /\ UNCHANGED <<tape, sc, rate, calls>>

-----------------------------------------------------------------------------
(* Calls between one advance and the next.                                 *)

Call ==
  /\ calls < MaxCalls
  /\ calls' = calls + 1
  /\ UNCHANGED <<tape, sc, curTime, rate, deadFieldStars, yields, fieldYields, lastYieldTime,
                 stochSNe, nonStochSNe, lastFeedbackTime, nextUid, census, steps>>

AskSpec == Call /\ gal' = GalaxyWithSpec(gal) /\ UNCHANGED rng
AskPhot == Call /\ gal' = GalaxyWithPhot(gal) /\ UNCHANGED rng
AskLbol == Call /\ gal' = GalaxyWithLbol(gal) /\ UNCHANGED rng
AskWinds == Call /\ gal' = GalaxyWithWinds(gal) /\ UNCHANGED rng

\* A result of one cluster, of either list.
AskCluster(With(_)) ==
  /\ Call
  /\ \/ \E i \in DOMAIN gal.clusters : gal' = [gal EXCEPT !.clusters[i] = With(@)]
     \/ \E i \in DOMAIN gal.disrupted : gal' = [gal EXCEPT !.disrupted[i] = With(@)]
  /\ UNCHANGED rng

AskClusterSpec == AskCluster(WithSpec)
AskClusterPhot == AskCluster(WithPhot)
AskClusterLbol == AskCluster(WithLbol)
AskClusterWinds == AskCluster(WithWinds)

\* Another Cluster is built from the recorded state of one of these: the
\* generator is put back after the draws that are replayed.
Rebuild ==
  /\ Call
  /\ \E c \in ToSet(gal.clusters \o gal.disrupted) :
       rng' = RebuiltCluster(c.uid, c.targetMass, c.formTime, c.rngState, rng).next % Len(tape)
  /\ UNCHANGED gal

-----------------------------------------------------------------------------
EmptySpec == [plain |-> EmptyBag, extinct |-> EmptyBag, neb |-> EmptyBag, nebExtinct |-> EmptyBag]

\* The constructor, with the controls and the tape given: the star formation rate
\* is fixed, or drawn from its distribution.
Construct ==
  /\ curTime = 0
  /\ rate = IF sc.sfrDist THEN DrawAt(0, MinRate, MaxRate) ELSE MaxRate
  /\ rng = IF sc.sfrDist THEN 1 ELSE 0
  /\ gal = [clusters |-> << >>, disrupted |-> << >>, fieldStars |-> << >>, fieldProps |-> << >>,
            spec |-> EmptySpec, specCurrent |-> TRUE,
            phot |-> EmptySpec, photCurrent |-> TRUE,
            lbol |-> EmptyBag, lbolCurrent |-> TRUE,
            lbolCts |-> EmptyBag, lbolCtsCurrent |-> FALSE,
            winds |-> EmptyBag, windsCurrent |-> TRUE]
  /\ deadFieldStars = << >>
  /\ yields = EmptyBag /\ fieldYields = EmptyBag /\ lastYieldTime = 0
  /\ stochSNe = EmptyBag /\ nonStochSNe = EmptyBag /\ lastFeedbackTime = 0
  /\ nextUid = 0
  /\ census = {}
  /\ steps = 0 /\ calls = 0

Next ==
  \/ \E t \in curTime .. MaxTime : Advance(t)
  \/ AskSpec \/ AskPhot \/ AskLbol \/ AskWinds
  \/ AskClusterSpec \/ AskClusterPhot \/ AskClusterLbol \/ AskClusterWinds
  \/ Rebuild

Init == tape \in Tapes /\ sc \in Controls /\ Construct

Spec == Init /\ [][Next]_vars

-----------------------------------------------------------------------------
(* What a galaxy has to get right: however its evolution is cut into steps *)
(* and whatever is asked for in between, its results are those of the      *)
(* stars that formed.                                                      *)

AllClusters == ToSet(Listed(gal))
DeathOf(x) == x.born + StarLifetimeClamped(x.src[4])
Dead == {x \in census : DeathOf(x) < curTime}
Alive == census \ Dead

\* Every star that died has released its yields exactly once, decayed for exactly
\* the time since its death, whichever steps and lists it went through; and every
\* death that is a supernova was counted once (computeYields, computeFeedback and
\* the death lists both of them rely on, in Galaxy and in Cluster).
DeathsCountedOnce ==
  /\ yields = IF sc.yields
              THEN SetToBag({<<x.src, DecayTime(curTime, DeathOf(x))>> : x \in Dead})
              ELSE EmptyBag
  /\ stochSNe (+) nonStochSNe (+) SumOf(Each(LAMBDA c : c.stochSN (+) c.nonStochSN, Listed(gal)))
       = SetToBag({x.src : x \in {d \in Dead : d.src[4] \in HasSN}})

\* The stars that give light: alive, and known to the tracks.
Shining == {x \in Alive : x.src[4] >= MinTrack}
TrueLight == {<<x.src, curTime - x.born>> : x \in Shining}
TrueLightOf(uid) == {y \in TrueLight : y[1][1] \in {"star", "bin"} /\ y[1][2] = uid}

\* The A_V of the light of a star: its cluster's, or the expected one.
AVOf(src) ==
  IF src[1] \in {"star", "bin"} THEN (CHOOSE c \in AllClusters : c.uid = src[2]).aV ELSE 0
NebAVOf(src) ==
  IF src[1] \in {"star", "bin"} THEN (CHOOSE c \in AllClusters : c.uid = src[2]).avNeb ELSE 0

SpecIs(spec, light) ==
  /\ spec.plain = light
  /\ sc.nebular => spec.neb = light

GalaxySpecIs(spec) ==
  /\ SpecIs(spec, SetToBag(TrueLight))
  /\ sc.extinct => spec.extinct = SetToBag({<<y[1], y[2], AVOf(y[1])>> : y \in TrueLight})
  /\ sc.extinct /\ sc.nebular =>
       spec.nebExtinct = SetToBag({<<y[1], y[2], NebAVOf(y[1])>> : y \in TrueLight})

\* A result marked current is that of the stars now alive, each counted once, in
\* the galaxy and in each cluster, in whatever order results were asked for
\* (specCurrent_, photCurrent_, lbolCurrent_, windsCurrent_, lbolCtsCurrent_).
CachesCoherent ==
  /\ gal.specCurrent /\ sc.specsyn => GalaxySpecIs(gal.spec)
  /\ gal.photCurrent /\ sc.filters => GalaxySpecIs(gal.phot)
  /\ gal.lbolCurrent /\ sc.computeLbol => gal.lbol = SetToBag(TrueLight)
  /\ gal.windsCurrent => gal.winds = SetToBag(TrueLight)
  /\ \A c \in AllClusters :
       /\ c.specCurrent /\ sc.specsyn => SpecIs(c.spec, TrueLightOf(c.uid))
       /\ c.photCurrent /\ sc.filters => SpecIs(c.phot, TrueLightOf(c.uid))
       /\ c.lbolCurrent /\ sc.computeLbol => c.lbol = TrueLightOf(c.uid)
       /\ c.windsCurrent => c.winds = TrueLightOf(c.uid)

\* Every star drawn is in one list until it dies and in none afterwards; a cluster
\* is among the disrupted ones from the first time after its disruption on; the
\* field stars stay sorted by formation time, with their properties beside them.
PopulationKept ==
  LET inClusters == SumOverClusters(LAMBDA c : {s.src : s \in ToSet(c.stars)}, gal)
      inField == SetToBag({s.src : s \in ToSet(gal.fieldStars)})
  IN /\ inClusters (+) inField = SetToBag({x.src : x \in {y \in Alive : y.src[1] \in {"star", "field"}}})
     /\ \A c \in ToSet(gal.clusters) : curTime <= c.disruptTime
     /\ \A c \in ToSet(gal.disrupted) : curTime > c.disruptTime
     /\ \A i, j \in DOMAIN gal.fieldStars :
          i <= j => gal.fieldStars[i].formTime <= gal.fieldStars[j].formTime
     /\ gal.fieldProps = FieldStarProps(gal.fieldStars, curTime)

\* A cluster built from the recorded generator state of another, its birth state,
\* has the same [Fe/H], extinctions and stars at birth, whatever was drawn since
\* (the two constructors of Cluster).
ReplayExact ==
  \A c \in AllClusters :
    LET copy == RebuiltCluster(c.uid, c.targetMass, c.formTime, c.rngState, rng).cluster
    IN /\ copy.feH = c.feH /\ copy.aV = c.aV /\ copy.avNeb = c.avNeb
       /\ copy.birthMass = c.birthMass
       /\ {s.src : s \in ToSet(copy.stars)}
            = {x.src : x \in {y \in census : y.src[1] = "star" /\ y.src[2] = c.uid}}
=============================================================================
