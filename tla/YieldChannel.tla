---------------------------- MODULE YieldChannel -----------------------------
(***************************************************************************)
(* One table of stellar yields (yields::YieldChannel).  A table is         *)
(* [masses; isotopes; feh; value], value[f][m] being the yield of each     *)
(* isotope at the f-th metallicity and m-th mass.  A channel is            *)
(*   [desc |-> [table, mMin, mMax, lo, hi], the bounds on mass being sets  *)
(*     of one or none, lo .. hi the metallicities it was asked for;        *)
(*    feh |-> the metallicities of the part of the table that was read;    *)
(*    masses, isotopes, through |-> the grid's masses and isotopes, and    *)
(*     the isotopes taken as decayed, all empty until it is first rebuilt; *)
(*    massCache, fehCache |-> each thread's last places in the grid].      *)
(* The grid's numbers, which only rebuilding changes, are those that these *)
(* and the table determine: Value and Active.                              *)
(***************************************************************************)
EXTENDS DecayChain, GridBracket

CONSTANTS
  Tables,       \* the tables, by name
  Threads

Sum(S, f) == FoldSet(LAMBDA x, sum : sum + f[x], 0, S)
NoCache == [t \in Threads |-> 0]

-----------------------------------------------------------------------------
(* The constructor                                                         *)

\* findBracketingFeH
InRange(t, lo, hi) == t.feh[1] <= lo /\ hi <= Last(t.feh)
FirstFeH(t, lo) == Max({1} \cup {k \in DOMAIN t.feh : t.feh[k] <= lo})
LastFeH(t, hi) == Min({Len(t.feh)} \cup {k \in DOMAIN t.feh : t.feh[k] >= hi})

CanRead(desc) == InRange(Tables[desc.table], desc.lo, desc.hi)
NewChannel(desc) ==
  LET t == Tables[desc.table]
  IN [desc |-> desc, feh |-> SubSeq(t.feh, FirstFeH(t, desc.lo), LastFeH(t, desc.hi)),
      masses |-> << >>, isotopes |-> {}, through |-> {},
      massCache |-> NoCache, fehCache |-> NoCache]

TableOf(ch) == Tables[ch.desc.table]
MassesOrig(ch) == TableOf(ch).masses
IsotopesOrig(ch) == TableOf(ch).isotopes
ValueOrig(ch, f, m) == TableOf(ch).value[FirstFeH(TableOf(ch), ch.desc.lo) + f - 1][m]

-----------------------------------------------------------------------------
(* rebuildYieldGrid                                                        *)

GivenOr(bound, otherwise) == IF bound = {} THEN otherwise ELSE CHOOSE b \in bound : TRUE
LoMass(ch, lo) == GivenOr(lo, MassesOrig(ch)[1])
HiMass(ch, hi) == GivenOr(hi, Last(MassesOrig(ch)))
CanRebuild(ch, lo, hi) == LoMass(ch, lo) > 0 /\ HiMass(ch, hi) > 0 /\ LoMass(ch, lo) < HiMass(ch, hi)

\* buildIsotopeMap: of which tabulated isotopes, and how many Whole parts of their mass,
\* an isotope's yield is made.
MassFrom(s, j, skipped, of) ==
  FoldLeft(LAMBDA sum, d : IF d.to = j THEN sum + (d.share * MassNumber[j] * of) \div (Whole * MassNumber[s])
                           ELSE sum,
           0, EffectiveDaughters(s, skipped))
Remapped(orig, isotopes, skipped) ==
  [j \in isotopes |->
     (IF j \in DOMAIN orig THEN orig[j] ELSE 0)
     + Sum(DOMAIN orig \cap skipped, [s \in DOMAIN orig |-> MassFrom(s, j, skipped, orig[s])])]

\* findActive
ActiveOrig(ch, f, m) == \E i \in IsotopesOrig(ch) : ValueOrig(ch, f, m)[i] # 0

\* One column of the grid, at mass mt: beyond the table in proportion to the mass, and
\* within it between the masses on either side.
Beyond(points, mt) == mt < points[1] \/ mt > Last(points)
EdgeOf(points, mt) == IF mt < points[1] THEN 1 ELSE Len(points)
Column(ch, f, mt) ==
  LET points == MassesOrig(ch)
      b == FindBracket(points, mt, 0)
      edge == EdgeOf(points, mt)
      at(m) == ValueOrig(ch, f, m)
  IN [i \in IsotopesOrig(ch) |->
        IF Beyond(points, mt) THEN (mt * at(edge)[i]) \div points[edge]
        ELSE Blend(points, mt, b, at(b.lo + 1)[i], at(b.hi + 1)[i])]
Value(ch, f, m) == Remapped(Column(ch, f, ch.masses[m]), ch.isotopes, ch.through)

Active(ch, f, m) ==
  LET points == MassesOrig(ch)
      mt == ch.masses[m]
      b == FindBracket(points, mt, 0)
  IN IF Beyond(points, mt) THEN ActiveOrig(ch, f, EdgeOf(points, mt))
     ELSE \/ Part(points, mt, b) # Width(points, b) /\ ActiveOrig(ch, f, b.lo + 1)
          \/ Part(points, mt, b) # 0 /\ ActiveOrig(ch, f, b.hi + 1)

GridMasses(ch, lo, hi) ==
  <<LoMass(ch, lo)>> \o SelectSeq(MassesOrig(ch), LAMBDA m : LoMass(ch, lo) < m /\ m < HiMass(ch, hi))
  \o <<HiMass(ch, hi)>>

\* Seeded fault: the places are kept.
KeepMasses(ch) == ch.massCache

\* The places the threads last found are forgotten: the grid may be shorter.
ForgetMasses(ch) == NoCache

\* An empty list of isotopes stands for the table's own.
Rebuilt(ch, lo, hi, isotopes, skipped) ==
  [ch EXCEPT
     !.desc.mMin = IF lo = {} THEN @ ELSE lo, !.desc.mMax = IF hi = {} THEN @ ELSE hi,
     !.masses = GridMasses(ch, lo, hi),
     !.isotopes = IF isotopes = {} THEN IsotopesOrig(ch) ELSE isotopes,
     !.through = IF isotopes = {} THEN {} ELSE skipped,
     !.massCache = ForgetMasses(ch)]

-----------------------------------------------------------------------------
(* Queries, by a thread                                                    *)

HasMass(ch, mass) == ch.masses # << >> /\ ch.masses[1] <= mass /\ mass <= Last(ch.masses)
HasFeH(ch, feh) == ch.feh[1] <= feh /\ feh <= Last(ch.feh)
NearestFeH(ch, feh) == Max({ch.feh[1], Min({feh, Last(ch.feh)})})

MassBracket(ch, t, mass) == FindBracket(ch.masses, mass, ch.massCache[t])
FeHBracket(ch, t, feh) == FindBracket(ch.feh, feh, ch.fehCache[t])

\* hasYield at a mass and a metallicity
HasYield(ch, t, mass, feh) ==
  HasMass(ch, mass) /\
    LET bm == MassBracket(ch, t, mass)
        bf == FeHBracket(ch, t, NearestFeH(ch, feh))
    IN \E f \in {bf.lo, bf.hi}, m \in {bm.lo, bm.hi} : Active(ch, f + 1, m + 1)

\* yield
YieldOf(ch, t, mass, feh) ==
  LET bm == MassBracket(ch, t, mass)
      bf == FeHBracket(ch, t, feh)
      at(f, i) == Blend(ch.masses, mass, bm, Value(ch, f + 1, bm.lo + 1)[i], Value(ch, f + 1, bm.hi + 1)[i])
  IN [i \in ch.isotopes |-> Blend(ch.feh, feh, bf, at(bf.lo, i), at(bf.hi, i))]

\* What either leaves behind.
Asked(ch, t, mass, feh) ==
  [ch EXCEPT !.massCache[t] = MassBracket(ch, t, mass).cache, !.fehCache[t] = FeHBracket(ch, t, feh).cache]
=============================================================================
