---------------------------- MODULE StellarTracks ----------------------------
(***************************************************************************)
(* Reading a set of stellar tracks (tracks::Tracks3D, tracks::Tracks2D).   *)
(* A file is the sequence of its groups, in order of their names, each     *)
(* [feh, vvcrit, afe, tracks]: tracks are [m, rows], in any order of mass, *)
(* and a row is [t, q], the logarithm of an age and a quantity.  An        *)
(* attribute is the set of its one value, or empty in a group without it.  *)
(* What is read is a solid, or a mesh, of time, mass and metallicity; a    *)
(* failure is [error |-> why].                                             *)
(***************************************************************************)
EXTENDS Mesh3DInterpolator, Interpolator1D

CONSTANT Earliest     \* the synthetic first time, earlier than any in a file

Matches(have, want) == have = {} \/ want \in have
Error(why) == [error |-> why]

-----------------------------------------------------------------------------
(* findMatchingTracks, findTrack                                           *)

Available(file, vvcrit, afe) ==
  LET fits == {g \in DOMAIN file : Matches(file[g].vvcrit, vvcrit) /\ Matches(file[g].afe, afe)}
  IN [k \in 1 .. Cardinality(fits) |-> file[SetToSortSeq(fits, LAMBDA a, b : file[a].feh < file[b].feh)[k]]]

\* From the last metallicity at or below lo to the first at or above hi, and expand more
\* on either side if there are.
Selected(groups, lo, hi, expand) ==
  LET n == Len(groups)
      first == Max({1} \cup {k \in 1 .. n : groups[k].feh <= lo})
      last == Min({n} \cup {k \in 1 .. n : groups[k].feh >= hi})
  IN SubSeq(groups, Max({1, first - expand}), Min({n, last + expand}))

FindTrack(file, feh, vvcrit, afe) ==
  LET fits == {g \in DOMAIN file : /\ Matches(file[g].feh, feh)
                                   /\ Matches(file[g].vvcrit, vvcrit) /\ Matches(file[g].afe, afe)}
  IN IF fits = {} THEN << >> ELSE <<file[Min(fits)]>>

-----------------------------------------------------------------------------
(* readAllTrackData: times and quantities, [mass][time]                    *)

ByMass(g) == SortSeq(g.tracks, LAMBDA a, b : a.m < b.m)
MassesOf(g) == [j \in DOMAIN g.tracks |-> ByMass(g)[j].m]
\* getTrackSize
MostRows(groups) == Max({Len(groups[k].tracks[j].rows) : k \in DOMAIN groups, j \in DOMAIN groups[1].tracks})

\* Seeded fault: the first row, not a row before it, is put at the earliest time.
Shifted(rows, nt) ==
  [i \in 1 .. nt |-> [rows[Min({i, Len(rows)})] EXCEPT !.t = IF i = 1 THEN Earliest ELSE @]]

\* Before its first row a track is as it is there, from the earliest time on; a shorter
\* one repeats its last row.
Padded(rows, nt) ==
  [i \in 1 .. nt |-> IF i = 1 THEN [t |-> Earliest, q |-> rows[1].q] ELSE rows[Min({i - 1, Len(rows)})]]
Times(g, nt) == [j \in DOMAIN g.tracks |-> [i \in 1 .. nt |-> Padded(ByMass(g)[j].rows, nt)[i].t]]
Quantities(g, nt) == [j \in DOMAIN g.tracks |-> [i \in 1 .. nt |-> Padded(ByMass(g)[j].rows, nt)[i].q]]

-----------------------------------------------------------------------------
(* Tracks3D's constructor, with the curves' default type                   *)

Default == "steffen"
Expand == TypeMinSize[Default] \div 2

\* fehMin, fehMax in what there is, one plane if they are one that is there, and else with
\* the planes beside them.
Chosen(groups, lo, hi) ==
  LET one == Selected(groups, lo, hi, 0)
  IN IF lo = hi /\ Len(one) = 1 /\ one[1].feh = lo THEN one ELSE Selected(groups, lo, hi, Expand)

\* Mesh3DInterpolator builds a curve along y for more than one mass, along z for more than
\* one plane.
CurvesFit(n) == n = 1 \/ n >= TypeMinSize[Default]

Tracks3D(file, r) ==
  LET all == Available(file, r.vvcrit, r.afe)
      g == Chosen(all, r.fehMin, r.fehMax)
      nt == 1 + MostRows(g)
  IN IF all = << >> THEN Error("no tracks found")
     ELSE IF r.fehMin < all[1].feh \/ r.fehMax > Last(all).feh THEN Error("outside the range available")
     ELSE IF \E k \in DOMAIN g : MassesOf(g[k]) # MassesOf(g[1]) THEN Error("must share the same mass grid")
     ELSE IF ~CurvesFit(Len(g)) \/ ~CurvesFit(Len(g[1].tracks)) THEN Error("minimum size")
     ELSE [x |-> [k \in DOMAIN g |-> Times(g[k], nt)], y |-> MassesOf(g[1]),
           z |-> [k \in DOMAIN g |-> g[k].feh], f |-> [k \in DOMAIN g |-> Quantities(g[k], nt)],
           type |-> Default]

\* Tracks2D's constructor
Tracks2D(file, feh, vvcrit, afe) ==
  LET g == FindTrack(file, feh, vvcrit, afe)
      nt == 1 + MostRows(g)
  IN IF g = << >> THEN Error("no track found")
     ELSE IF ~CurvesFit(Len(g[1].tracks)) THEN Error("minimum size")
     ELSE [x |-> Times(g[1], nt), y |-> MassesOf(g[1]), f |-> Quantities(g[1], nt), type |-> Default, lazy |-> FALSE]
=============================================================================
