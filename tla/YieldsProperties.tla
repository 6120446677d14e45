-------------------------- MODULE YieldsProperties ---------------------------
(***************************************************************************)
(* What yields::Yields promises once its grid is built: the isotopes that  *)
(* were asked for with all that decays into or out of them, and answers    *)
(* that are those of the tables themselves.                                *)
(***************************************************************************)
EXTENDS Yields

CONSTANTS ProbedMasses, ProbedFeh  \* where answers are compared, a bound

Weighted(list, f(_)) == FoldLeft(LAMBDA sum, d : sum + f(d), 0, list)

\* A decay, whatever is skipped on the way, loses no mass.
MassKept(i, skip) ==
  Weighted(EffectiveDaughters(i, skip), LAMBDA d : d.share * MassNumber[d.to]) = Whole * MassNumber[i]

\* Everything that comes to decay into one of these, through anything but what it emits.
RECURSIVE Ancestors(_, _)
Ancestors(found, all) ==
  LET more == found \cup {i \in all : ~Stable(i) /\ (Feeds(i, {}) \ Particles) \cap found # {}}
  IN IF more = found THEN found ELSE Ancestors(more, all)

\* The list is what was asked for and tabulated, what decays into it, and what any of
\* these decays into, without the short-lived; and the chain is over that list.
RequestHonoured ==
  LET full == Full(channels)
      asked == IF requested = {} THEN full ELSE (requested \cap full) \ skipped
  IN /\ (Ancestors(asked, full) \ skipped) \subseteq isotopes
     /\ UNION {Feeds(i, skipped) : i \in isotopes} \subseteq isotopes
     /\ isotopes \subseteq WithProducts(Ancestors(asked, full), {})
     /\ isotopes \cap skipped = {}
     /\ \A i \in isotopes : ~Stable(i) => Lifetime[i] >= minLifetime
     /\ \A k \in DOMAIN channels : channels[k].isotopes = isotopes
     /\ chain.over = isotopes /\ chain.relevant \subseteq isotopes
     /\ DOMAIN chain.inflow = {i \in isotopes : ~Stable(i)} /\ \A p \in DOMAIN chain.inflow : MassKept(p, skipped)

-----------------------------------------------------------------------------
(* The answer a table gives by itself: straight between its masses and its *)
(* metallicities, and in proportion to the mass beyond its masses.         *)

Around(points, x) ==
  LET lo == Max({1} \cup {k \in DOMAIN points : points[k] <= x})
  IN {lo, Min({Len(points), lo + 1})}
Straight(points, x, at) ==
  LET lo == Min(Around(points, x)) hi == Max(Around(points, x))
  IN IF lo = hi \/ points[lo] = x THEN at[lo]
     ELSE ((points[hi] - x) * at[lo] + (x - points[lo]) * at[hi]) \div (points[hi] - points[lo])
OverMass(t, f, mass, i) ==
  LET at == [m \in DOMAIN t.masses |-> t.value[f][m][i]] n == Len(t.masses)
  IN IF mass < t.masses[1] THEN (mass * at[1]) \div t.masses[1]
     ELSE IF mass > t.masses[n] THEN (mass * at[n]) \div t.masses[n]
     ELSE Straight(t.masses, mass, at)
Recorded(t, mass, feh) ==
  [i \in t.isotopes |-> Straight(t.feh, feh, [f \in DOMAIN t.feh |-> OverMass(t, f, mass, i)])]

\* ... with what is short-lived already decayed.
Decayed(yields, j) ==
  (IF j \in DOMAIN yields THEN yields[j] ELSE 0)
  + Sum(DOMAIN yields \cap skipped, [s \in DOMAIN yields |->
        Weighted(EffectiveDaughters(s, skipped),
                 LAMBDA d : IF d.to = j THEN (yields[s] * d.share * MassNumber[j]) \div (Whole * MassNumber[s]) ELSE 0)])

Covering(mass, feh) == {k \in DOMAIN channels : Has(channels[k], mass, feh)}
AnswersMatchTables ==
  \A t \in Threads, mass \in ProbedMasses, feh \in ProbedFeh :
    LET recorded == [k \in Covering(mass, feh) |-> Recorded(TableOf(channels[k]), mass, feh)]
        answer == YieldSum(t, mass, feh)
    IN /\ \A j \in isotopes :
            answer[j] = Sum(DOMAIN recorded, [k \in DOMAIN recorded |-> Decayed(recorded[k], j)])
       /\ \A k \in DOMAIN recorded :
            (\E i \in DOMAIN recorded[k] : recorded[k][i] # 0) => HasYield(channels[k], t, mass, feh)
       /\ requested = {} =>
            Sum(isotopes, answer)
              = Sum(DOMAIN recorded, [k \in DOMAIN recorded |-> Sum(DOMAIN recorded[k], recorded[k])])

-----------------------------------------------------------------------------
\* No thread remembers a place beyond the end of a grid, however the grid was rebuilt.
CachesInRange ==
  \A k \in DOMAIN channels, t \in Threads :
    LET ch == channels[k]
    IN /\ ch.fehCache[t] + 1 < Max({2, Len(ch.feh)})
       /\ ch.massCache[t] + 1 < Max({2, Len(ch.masses)})

\* Installed yields cover the simulation's metallicities.
RangeCovered == Installed => \A k \in DOMAIN channels : HasFeH(channels[k], FehRange.lo) /\ HasFeH(channels[k], FehRange.hi)

\* Whatever channels came and went, and whatever a thread asked before, the isotopes are
\* those that were asked for and all that belongs to them, no mass is lost in decays, the
\* answers are those of the tables, and a mass that is ejected is never reported as
\* ejecting nothing (Yields::rebuildYieldGrid, YieldChannel::rebuildYieldGrid, yield).
YieldsRight ==
  /\ CachesInRange
  /\ RangeCovered
  /\ grid = "built" => RequestHonoured /\ AnswersMatchTables
=============================================================================
