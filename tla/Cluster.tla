------------------------------- MODULE Cluster -------------------------------
(***************************************************************************)
(* A star cluster (core::Cluster): a record, with an operator for each of  *)
(* its methods.  Masses are integers and a star is <<kind, host, n, mass>>,*)
(* so that light and yields can be told apart by where they come from:     *)
(*   "star"   star n drawn for cluster host,                               *)
(*   "bin"    the stars of one mass below minStoch in cluster host, which  *)
(*            are not drawn but integrated over.                           *)
(* A spectrum, a luminosity or a wind flux is the set of <<star, age>> it  *)
(* sums, extinguished light <<star, age, A_V>>, yields a bag of <<star,    *)
(* time the released material has decayed for>>.                           *)
(***************************************************************************)
EXTENDS PDF, Bags

CONSTANTS
  Controls,   \* the controls a run may have
  MaxMass,    \* the largest stellar mass, of the IMF and of the tracks
  MinTrack,   \* the smallest mass the tracks know; smaller stars are dark
  Lifetime,   \* the lifetimes of the masses MinTrack .. MaxMass
  HasSN       \* the masses that end in a supernova

ASSUME TracksAssumption ==
  /\ MaxMass \in Nat \ {0}
  /\ MinTrack \in 1 .. MaxMass
  /\ Lifetime \in [MinTrack .. MaxMass -> Nat \ {0}]
  /\ HasSN \subseteq MinTrack .. MaxMass

\* SimControls refuses filters without a spectral synthesizer.
ASSUME ControlsAssumption ==
  /\ Controls \subseteq
       [specsyn : BOOLEAN, filters : BOOLEAN, computeLbol : BOOLEAN, nebular : BOOLEAN, extinct : BOOLEAN,
        yields : BOOLEAN, noDecay : BOOLEAN, clf : BOOLEAN, sfrDist : BOOLEAN, fCluster : 0 .. 2,
        minStoch : 1 .. MaxMass + 1]
  /\ \A controls \in Controls : controls.filters => controls.specsyn

\* The simulation controls: which components there are, and the smallest mass
\* that is drawn star by star.  Fixed for a run.
VARIABLE sc

-----------------------------------------------------------------------------
(* Sequences that are sorted, and parts of them; sums of bags.             *)

\* A sequence in ascending order of the keys of its elements, those with one key as they
\* are.
Sorted(s, key) ==
  LET place(i) == Cardinality({j \in DOMAIN s : key[j] < key[i] \/ (key[j] = key[i] /\ j <= i)})
  IN [p \in DOMAIN s |-> s[CHOOSE i \in DOMAIN s : place(i) = p]]

\* The elements at some of its places.
Picked(s, places) == FlattenSeq([i \in DOMAIN s |-> IF i \in places THEN <<s[i]>> ELSE << >>])

SumOf(bags) ==
  LET upTo[n \in 0 .. Len(bags)] == IF n = 0 THEN EmptyBag ELSE upTo[n - 1] (+) bags[n]
  IN upTo[Len(bags)]

-----------------------------------------------------------------------------
(* Sets of stellar masses as ascending sequences of ranges <<lo, hi>>, the *)
(* form in which the tracks say which masses are alive at an age.  Several *)
(* ranges are needed because a lifetime may not fall with mass.            *)

\* The masses in a range, whose upper end is excluded.
MassesIn(ranges) == UNION {r[1] .. r[2] - 1 : r \in {ranges[i] : i \in DOMAIN ranges}}

\* The ranges of a set of masses, ascending, one for each run of masses.
RangesOf(S) ==
  LET found == SetToSeq({m \in S : m - 1 \notin S})
      starts == Sorted(found, found)
      End(m) == CHOOSE e \in {n + 1 : n \in S} : e > m /\ e \notin S /\ m .. e - 1 \subseteq S
  IN [i \in DOMAIN starts |-> <<starts[i], End(starts[i])>>]

\* One range of the subtrahend taken from what is left of a range of the
\* minuend, cut.lo .. hi; the piece below it is final.
CutOne(cut, b, hi) ==
  IF cut.lo >= hi \/ b[2] <= cut.lo \/ b[1] >= hi THEN cut
  ELSE [out |-> IF b[1] > cut.lo THEN Append(cut.out, <<cut.lo, b[1]>>) ELSE cut.out,
        lo |-> IF b[2] > cut.lo THEN b[2] ELSE cut.lo]

\* What is left of one range of the minuend, after the pieces in out.
CutRange(out, a, subtrahend) ==
  LET upTo[n \in 0 .. Len(subtrahend)] ==
        IF n = 0 THEN [out |-> out, lo |-> a[1]] ELSE CutOne(upTo[n - 1], subtrahend[n], a[2])
      cut == upTo[Len(subtrahend)]
  IN IF cut.lo < a[2] THEN Append(cut.out, <<cut.lo, a[2]>>) ELSE cut.out

\* subtractMassRanges of Cluster.cpp.
SubtractMassRanges(minuend, subtrahend) ==
  LET upTo[n \in 0 .. Len(minuend)] ==
        IF n = 0 THEN << >> ELSE CutRange(upTo[n - 1], minuend[n], subtrahend)
  IN upTo[Len(minuend)]

-----------------------------------------------------------------------------
Never == 1000   \* the time +infinity, later than any a run reaches

StarLifetimeClamped(m) == IF m < MinTrack THEN Never ELSE Lifetime[m]

\* The masses the isochrone at an age covers.
LiveMasses(age) == {m \in MinTrack .. MaxMass : Lifetime[m] >= age}

\* The stochastically treated part of a mass of stars.
MassAbove(lo) == Total([i \in 1 .. MaxMass |-> IF i >= lo THEN i ELSE 0])
StochMass(mass) == (mass * MassAbove(sc.minStoch)) \div MassAbove(1)

-----------------------------------------------------------------------------
(* Construction.                                                           *)

\* What the primary constructor draws in its initializer list, with the
\* generator in state p: [Fe/H], A_V and the nebular A_V if there is extinction,
\* then the stellar masses.
BirthDraws(mass, p) ==
  LET aV == IF sc.extinct THEN DrawAt(p + 1, 1, 2) ELSE 0
      masses == DrawTarget(IF sc.extinct THEN p + 3 ELSE p + 1, StochMass(mass), sc.minStoch, MaxMass)
  IN [feH |-> DrawAt(p, 0, 1),
      aV |-> aV,
      avNeb |-> IF sc.extinct THEN aV * DrawAt(p + 2, 1, 2) ELSE 0,
      masses |-> masses.sample,
      next |-> masses.next]

\* Seeded fault: the nebular A_V is replayed after the masses instead of before them
ReplayedDrawsReordered(mass, saved) ==
  LET afterAV == IF sc.extinct THEN saved + 2 ELSE saved + 1
      aV == IF sc.extinct THEN DrawAt(saved + 1, 1, 2) ELSE 0
      masses == DrawTarget(afterAV, StochMass(mass), sc.minStoch, MaxMass)
  IN [feH |-> DrawAt(saved, 0, 1),
      aV |-> aV,
      avNeb |-> IF sc.extinct THEN aV * DrawAt(masses.next, 1, 2) ELSE 0,
      masses |-> masses.sample,
      next |-> masses.next]

\* What the reconstruction constructor draws after it has put the generator in
\* the saved state: the same quantities, each from where the last one ended.
ReplayedDraws(mass, saved) ==
  LET afterFeH == saved + 1
      afterAV == IF sc.extinct THEN afterFeH + 1 ELSE afterFeH
      afterNeb == IF sc.extinct THEN afterAV + 1 ELSE afterAV
      aV == IF sc.extinct THEN DrawAt(afterFeH, 1, 2) ELSE 0
      masses == DrawTarget(afterNeb, StochMass(mass), sc.minStoch, MaxMass)
  IN [feH |-> DrawAt(saved, 0, 1),
      aV |-> aV,
      avNeb |-> IF sc.extinct THEN aV * DrawAt(afterAV, 1, 2) ELSE 0,
      masses |-> masses.sample,
      next |-> masses.next]

\* Seeded fault: the order of the masses is kept
SortByDeathTimeKept(stars) == stars

\* The stars in the order of their deaths, the next to die last.
SortByDeathTimeDescending(stars) == Sorted(stars, [i \in DOMAIN stars |-> -stars[i].tDeath])

NoSpec == [plain |-> {}, extinct |-> {}, neb |-> {}, nebExtinct |-> {}]

\* The cluster of either constructor's draws; disruption is drawn last, from the
\* live generator, in state p.
Constructed(uid, mass, time, rngState, draws, p) ==
  LET sorted == Sorted(draws.masses, draws.masses)
      stars == [i \in DOMAIN sorted |->
                 [src |-> <<"star", uid, i, sorted[i]>>,
                  tDeath |-> time + StarLifetimeClamped(sorted[i])]]
  IN [uid |-> uid, targetMass |-> mass, formTime |-> time, rngState |-> rngState,
      feH |-> draws.feH, aV |-> draws.aV, avNeb |-> draws.avNeb,
      stars |-> SortByDeathTimeDescending(stars), dead |-> << >>,
      birthMass |-> Total(draws.masses),
      hasBins |-> mass > StochMass(mass),
      disruptTime |-> IF sc.clf THEN time + DrawAt(p, 0, 2) ELSE Never,
      curTime |-> time, isDisrupted |-> FALSE, advanced |-> FALSE, isoAge |-> 0,
      spec |-> NoSpec, specCurrent |-> TRUE,
      phot |-> NoSpec, photCurrent |-> TRUE,
      lbol |-> {}, lbolCurrent |-> TRUE,
      winds |-> {}, windsCurrent |-> TRUE,
      yields |-> EmptyBag, lastYieldTime |-> 0,
      stochSN |-> EmptyBag, nonStochSN |-> EmptyBag, lastFeedbackTime |-> 0]

AfterDisruption(p) == IF sc.clf THEN p + 1 ELSE p

\* The two constructors, with the state they leave the generator in.
DrawnCluster(uid, mass, time, p, draws) ==
  [cluster |-> Constructed(uid, mass, time, p, draws, draws.next),
   next |-> AfterDisruption(draws.next)]
NewCluster(uid, mass, time, p) == DrawnCluster(uid, mass, time, p, BirthDraws(mass, p))

RebuiltCluster(uid, mass, time, rngState, p) ==
  [cluster |-> Constructed(uid, mass, time, rngState, ReplayedDraws(mass, rngState), p),
   next |-> AfterDisruption(p)]

-----------------------------------------------------------------------------
(* Evolution.                                                              *)

\* Seeded fault: the lists of the last deaths are not cleared
UpdateLivingStarsUncleared(c) ==
  LET left == Max({0} \cup {i \in DOMAIN c.stars : c.stars[i].tDeath >= c.curTime})
  IN [c EXCEPT !.stars = SubSeq(@, 1, left),
               !.dead = @ \o Reverse(SubSeq(c.stars, left + 1, Len(c.stars)))]

\* Stars whose death time has passed are popped off the back of the list.
UpdateLivingStars(c) ==
  LET left == Max({0} \cup {i \in DOMAIN c.stars : c.stars[i].tDeath >= c.curTime})
  IN [c EXCEPT !.stars = SubSeq(@, 1, left),
               !.dead = Reverse(SubSeq(c.stars, left + 1, Len(c.stars)))]

\* The masses below minStoch alive at lastTime and dead now: a lastTime before
\* the cluster's birth counts as its birth.
NonStochDeadMassRanges(c, lastTime) ==
  LET last == IF lastTime < c.formTime THEN c.formTime ELSE lastTime
      gone == SubtractMassRanges(RangesOf(LiveMasses(last - c.formTime)),
                                 RangesOf(LiveMasses(c.isoAge)))
      Clipped(r) == IF r[2] > sc.minStoch THEN <<r[1], sc.minStoch>> ELSE r
      clipped == [i \in DOMAIN gone |-> Clipped(gone[i])]
  IN Picked(clipped, {i \in DOMAIN clipped : clipped[i][1] < clipped[i][2]})

DeadBins(c, lastTime) ==
  IF c.hasBins THEN MassesIn(NonStochDeadMassRanges(c, lastTime)) ELSE {}

\* Decay of yields already released, by the time dt.
ApplyDecay(dt, yields) ==
  IF sc.noDecay THEN yields
  ELSE [y \in {<<z[1], z[2] + dt>> : z \in BagToSet(yields)} |-> yields[<<y[1], y[2] - dt>>]]

\* How long what was released at time tDied has decayed for at time now.
DecayTime(now, tDied) == IF sc.noDecay THEN 0 ELSE now - tDied

ComputeYields(c) ==
  IF ~sc.yields THEN c
  ELSE [c EXCEPT !.yields =
    ApplyDecay(c.curTime - c.lastYieldTime, @)
      (+) SetToBag({<<s.src, DecayTime(c.curTime, s.tDeath)>> : s \in ToSet(c.dead)})
      (+) SetToBag({<< <<"bin", c.uid, 0, m>>, DecayTime(c.curTime, c.formTime + Lifetime[m])>> :
                      m \in DeadBins(c, c.lastYieldTime)})]

ComputeFeedback(c) ==
  [c EXCEPT
    !.stochSN = @ (+) SetToBag({s.src : s \in {d \in ToSet(c.dead) : d.src[4] \in HasSN}}),
    !.nonStochSN = @ (+) SetToBag({<<"bin", c.uid, 0, m>> :
                                     m \in DeadBins(c, c.lastFeedbackTime) \cap HasSN})]

\* Seeded fault: the luminosity is not marked stale
AdvanceClusterLbolKept(c, t) ==
  IF t = c.curTime /\ c.advanced THEN c
  ELSE LET aged == UpdateLivingStars([c EXCEPT !.curTime = t, !.isoAge = t - c.formTime])
           fed == ComputeFeedback([ComputeYields(aged) EXCEPT !.lastYieldTime = t])
       IN [fed EXCEPT !.lastFeedbackTime = t,
                      !.specCurrent = FALSE, !.photCurrent = FALSE, !.windsCurrent = FALSE,
                      !.isDisrupted = @ \/ t > c.disruptTime,
                      !.advanced = TRUE]

\* Cluster::advance to a time not before the current one.
AdvanceCluster(c, t) ==
  IF t = c.curTime /\ c.advanced THEN c
  ELSE LET aged == UpdateLivingStars([c EXCEPT !.curTime = t, !.isoAge = t - c.formTime])
           fed == ComputeFeedback([ComputeYields(aged) EXCEPT !.lastYieldTime = t])
       IN [fed EXCEPT !.lastFeedbackTime = t,
                      !.specCurrent = FALSE, !.photCurrent = FALSE,
                      !.lbolCurrent = FALSE, !.windsCurrent = FALSE,
                      !.isDisrupted = @ \/ t > c.disruptTime,
                      !.advanced = TRUE]

-----------------------------------------------------------------------------
(* What is computed on demand and kept until the cluster advances.         *)

\* The stars that shine: those of the list and the bins below minStoch that the
\* isochrone covers.
StarsShining(c) == {s.src : s \in {d \in ToSet(c.stars) : d.src[4] \in LiveMasses(c.isoAge)}}
BinsShining(c) ==
  IF c.hasBins THEN {<<"bin", c.uid, 0, m>> : m \in LiveMasses(c.isoAge) \cap 1 .. sc.minStoch - 1}
  ELSE {}
LightOf(c) == {<<src, c.isoAge>> : src \in StarsShining(c) \cup BinsShining(c)}

Extinguished(light, aV) == {<<x[1], x[2], aV>> : x \in light}

\* Nebular emission keeps the light it is driven by.
ComputeSpec(c) ==
  IF ~sc.specsyn THEN c
  ELSE [c EXCEPT !.spec =
    [plain |-> LightOf(c),
     neb |-> IF sc.nebular THEN LightOf(c) ELSE @.neb,
     extinct |-> IF sc.extinct THEN Extinguished(LightOf(c), c.aV) ELSE @.extinct,
     nebExtinct |-> IF sc.extinct /\ sc.nebular THEN Extinguished(LightOf(c), c.avNeb)
                    ELSE @.nebExtinct]]

\* spec(), specExtinct(), specNeb(), specNebExtinct(), lineLum() and
\* lineLumExtinct(): the cluster after the call.
WithSpec(c) == IF c.specCurrent THEN c ELSE [ComputeSpec(c) EXCEPT !.specCurrent = TRUE]

PhotOf(c) == [c EXCEPT !.phot = c.spec]
ComputePhot(c) ==
  IF ~sc.filters THEN c ELSE PhotOf(WithSpec(c))

\* phot(), photExtinct(), photNeb(), photNebExtinct()
WithPhot(c) == IF c.photCurrent THEN c ELSE [ComputePhot(c) EXCEPT !.photCurrent = TRUE]

ComputeLbol(c) == IF ~sc.computeLbol THEN c ELSE [c EXCEPT !.lbol = LightOf(c)]

\* lbol()
WithLbol(c) == IF c.lbolCurrent THEN c ELSE [ComputeLbol(c) EXCEPT !.lbolCurrent = TRUE]

ComputeWinds(c) == [c EXCEPT !.winds = LightOf(c)]

\* mDotWind(), pDotWind(), eDotWind()
WithWinds(c) == IF c.windsCurrent THEN c ELSE [ComputeWinds(c) EXCEPT !.windsCurrent = TRUE]
=============================================================================
