----------------------------- MODULE SpecsynLib ------------------------------
(***************************************************************************)
(* A library of spectra (specsyn::SpecsynLib and its kinds NoWind, WR and  *)
(* WD), made from a file of the registry.  Numbers are integers, all of    *)
(* them logarithms but h and he, a surface's tenths of hydrogen and helium.*)
(*   A file is [kind, micro, groups]: "normal", "wd" or a Wolf-Rayet type; *)
(*     the default of the microturbulence; its groups, each [feh, attr,    *)
(*     wl, points], attr being the attributes it has, wl the wavelengths   *)
(*     of its spectra, and points their <<log g, log Teff>>, or            *)
(*     <<log R_t, log Teff>> for Wolf-Rayet stars.                         *)
(*   A library is [kind, axes, points, wl, places, ranges, top]: the three *)
(*     axes of its grid, the cells that have a spectrum, its wavelengths,  *)
(*     where on each axis the last query was, and, of the libraries it is  *)
(*     chained with, the temperatures of each kind of WNL spectra and of   *)
(*     ordinary stars.  An empty set is a range that is not known, NaN.    *)
(*   A star is [m, l, t, h, he, nitrogen, wind, rt].                       *)
(* A spectrum is the set of the cells it is blended from, <<cell, weight>>; *)
(* it is empty for a star out of a library's bounds.                       *)
(***************************************************************************)
EXTENDS GridBracket

CONSTANTS
  Registry,         \* the files, by name
  Defaults,         \* afe, cfe, micro and r where a request does not say
  LogTeffHotMin,    \* 50000 K
  LogMassMin        \* 5 solar masses

Abs(n) == IF n < 0 THEN -n ELSE n
Sorted(S) == SetToSortSeq(S, <)
Within(S, v) == S # {} /\ Min(S) <= v /\ v <= Max(S)
Clamped(S, v) == Max({Min(S), Min({Max(S), v})})
Nearest(S, v) == CHOOSE x \in S : \A y \in S : Abs(x - v) < Abs(y - v) \/ (Abs(x - v) = Abs(y - v) /\ x <= y)

-----------------------------------------------------------------------------
(* Which groups of a file a request is for (SpecsynUtils)                  *)

\* An attribute that a group does not have matches anything.
Agrees(g, want) == \A a \in DOMAIN g.attr : g.attr[a] = want[a]

\* The groups that match, from the one at or below lo, if any, to the one at or above hi.
FindMatchingSpectra(file, want, lo, hi) ==
  LET m == {g \in file.groups : Agrees(g, want)}
      fehs == {g.feh : g \in m}
      first == IF \E x \in fehs : x <= lo THEN Max({x \in fehs : x <= lo}) ELSE Min(fehs)
      last == IF \E x \in fehs : x >= hi THEN Min({x \in fehs : x >= hi}) ELSE Max(fehs)
  IN {g \in m : first <= g.feh /\ g.feh <= last}

FindAfeValues(file, want) ==
  {g.attr["afe"] : g \in {g \in file.groups : "afe" \in DOMAIN g.attr /\ Agrees(g, [want EXCEPT !.afe = g.attr["afe"]])}}

-----------------------------------------------------------------------------
(* The grid of SpecsynLibNoWind                                            *)

FehsOf(groups) == {g.feh : g \in groups}
PointsOf(groups) == UNION {g.points : g \in groups}
CellsOf(groups) == UNION {{<<g.feh, p[1], p[2]>> : p \in g.points} : g \in groups}
GridOver(groups, cells) ==
  [axes |-> <<Sorted(FehsOf(groups)), Sorted({p[1] : p \in PointsOf(groups)}), Sorted({p[2] : p \in PointsOf(groups)})>>,
   points |-> cells]

BuildExactMatchGrid(groups) == GridOver(groups, CellsOf(groups))

\* Between the nearest [alpha/Fe] on either side: what both have.  {} if it throws.
Shared(loGroups, hiGroups) == GridOver(loGroups \cup hiGroups, CellsOf(loGroups) \cap CellsOf(hiGroups))
BuildInterpolatedGrid(file, want, lo, hi) ==
  LET At(a) == FindMatchingSpectra(file, [want EXCEPT !.afe = a], lo, hi)
      Between(below, above) == IF below = {} \/ above = {} THEN {} ELSE {Shared(At(Max(below)), At(Min(above)))}
      afes == FindAfeValues(file, want)
  IN Between({a \in afes : a <= want.afe}, {a \in afes : a > want.afe})

GridCoversRange(g, lo, hi) ==
  /\ g.axes[1][1] <= lo /\ hi <= Last(g.axes[1])
  /\ \A x \in ToSet(g.axes[1]) : lo <= x /\ x <= hi => \E p \in g.points : p[1] = x

\* The grids of the nearest other [alpha/Fe] that covers the range: any of two as near.
TryNudgeAfe(file, want, lo, hi) ==
  LET At(a) == BuildExactMatchGrid(FindMatchingSpectra(file, [want EXCEPT !.afe = a], lo, hi))
      Closest(good) == {At(a) : a \in {a \in good : \A b \in good : Abs(a - want.afe) <= Abs(b - want.afe)}}
      Among(afes) ==
        IF Within(afes, want.afe) THEN Closest({a \in afes \ {want.afe} : GridCoversRange(At(a), lo, hi)}) ELSE {}
  IN Among(FindAfeValues(file, want))

\* What the constructor may end with; {} if it throws.
NoWindGrids(file, want, lo, hi) ==
  LET Exactly(groups) ==
        IF groups # {} THEN {BuildExactMatchGrid(groups)} ELSE BuildInterpolatedGrid(file, want, lo, hi)
      OrNudged(first, nudged) ==
        IF nudged = {} \/ (\E g \in first : GridCoversRange(g, lo, hi)) THEN first ELSE nudged
  IN OrNudged(Exactly(FindMatchingSpectra(file, want, lo, hi)), TryNudgeAfe(file, want, lo, hi))

-----------------------------------------------------------------------------
(* The wavelengths of several grids as one (makeCommonWlGrid): between any *)
(* two ends of grids, the points of the grid that has most of them.        *)

InWindow(grid, lo, hi, last) == SelectSeq(grid, LAMBDA x : lo <= x /\ (x < hi \/ (last /\ x = hi)))

\* The first of those with most points, of the grids that span the window or else of all.
FindBestGrid(grids, lo, hi, last) ==
  LET Count(i) == Len(InWindow(grids[i], lo, hi, last))
      some == {i \in DOMAIN grids : Count(i) > 0}
      spanning == {i \in some : grids[i][1] <= lo /\ Last(grids[i]) >= hi}
      from == IF spanning # {} THEN spanning ELSE some
  IN {i \in from : \A j \in from : Count(j) < Count(i) \/ (Count(j) = Count(i) /\ i <= j)}

MakeCommonWlGrid(grids) ==
  LET edges == Sorted(UNION {{grids[i][1], Last(grids[i])} : i \in DOMAIN grids})
      Points(k) ==
        LET last == k + 1 = Len(edges)
            best == FindBestGrid(grids, edges[k], edges[k + 1], last)
        IN IF best = {} THEN << >> ELSE InWindow(grids[Max(best)], edges[k], edges[k + 1], last)
  IN FlattenSeq([k \in 1 .. Len(edges) - 1 |-> Points(k)])

-----------------------------------------------------------------------------
(* The constructors                                                        *)

WNLTypes == {"WNLH20", "WNLH40", "WNLH60"}
WRTypes == WNLTypes \cup {"WNE", "WC"}
OwnRanges(kind, grid) == [b \in WNLTypes |-> IF b = kind THEN ToSet(grid.axes[3]) ELSE {}]

LibraryOf(kind, grid, wl) ==
  [kind |-> kind, axes |-> grid.axes, points |-> grid.points, wl |-> wl, places |-> <<0, 0, 0>>,
   ranges |-> OwnRanges(kind, grid), top |-> {}]

\* The libraries a constructor may make of a file; {} if it throws.  A library of white
\* dwarfs has one row; one of Wolf-Rayet stars knows neither [alpha/Fe] nor its like.
Libraries(file, want, lo, hi) ==
  LET wr == FindMatchingSpectra(file, Defaults, lo, hi)
      byFeh == SetToSortSeq(wr, LAMBDA g, k : g.feh < k.feh)
      wl == (CHOOSE g \in file.groups : TRUE).wl
  IN CASE file.kind = "normal" -> {LibraryOf("normal", g, wl) : g \in NoWindGrids(file, want, lo, hi)}
       [] file.kind = "wd" -> {LibraryOf("wd", BuildExactMatchGrid(file.groups), wl)}
       [] OTHER -> IF wr = {} THEN {}
                   ELSE {LibraryOf(file.kind, BuildExactMatchGrid(wr), MakeCommonWlGrid([i \in DOMAIN byFeh |-> byFeh[i].wl]))}

-----------------------------------------------------------------------------
(* Stars                                                                   *)

Logg(s) == s.m - s.l + 4 * s.t

GetWRType(s, ranges, top) ==
  LET rich == s.h > 6
      bucket == IF s.h < 3 THEN "WNLH20" ELSE IF s.h <= 5 THEN "WNLH40" ELSE "WNLH60"
  IN IF s.m < LogMassMin \/ (rich /\ s.t <= Max({LogTeffHotMin} \cup top)) THEN "None"
     ELSE IF rich /\ Within(ranges["WNLH60"], s.t) THEN "WNLH60"
     ELSE IF 4 <= s.he /\ s.he <= 9 /\ Within(ranges[bucket], s.t) THEN bucket
     ELSE IF s.t > LogTeffHotMin THEN IF s.nitrogen THEN "WNE" ELSE "WC"
     ELSE "None"

-----------------------------------------------------------------------------
(* spec() under OOBPolicy::coerce                                          *)

\* The two points of an axis around v, one if v is on it, with their weights.
WeightsIn(axis, v, b) ==
  {w \in {<<axis[b.lo + 1], Width(axis, b) - Part(axis, v, b)>>, <<axis[b.hi + 1], Part(axis, v, b)>>} : w[2] > 0}
Weights(axis, v, place) == WeightsIn(axis, v, FindBracket(axis, v, place))
Firsts(pairs) == {p[1] : p \in pairs}

\* SpecsynLib::spec: corners without a spectrum count for nothing.
Corners(lib, d) ==
  LET W(i) == Weights(lib.axes[i], d[i], lib.places[i])
      corners == {<<<<a[1], b[1], c[1]>>, a[2] * b[2] * c[2]>> : a \in W(1), b \in W(2), c \in W(3)}
  IN {c \in corners : c[1] \in lib.points}
Searched(lib, d) ==
  LET At(i) == FindBracket(lib.axes[i], d[i], lib.places[i]).cache IN [lib EXCEPT !.places = <<At(1), At(2), At(3)>>]

\* computeRawLogRt
RawLogRt(lib, s) == IF s.wind = "calm" THEN lib.axes[2][1] ELSE s.rt

\* The log R_t nearest to the star's that every corner has, or any of them.
PickRt(lib, raw, everywhere, somewhere) ==
  IF everywhere # {} THEN Nearest(everywhere, raw)
  ELSE Clamped(IF somewhere # {} THEN somewhere ELSE ToSet(lib.axes[2]), raw)
LogRt(lib, s, feh) ==
  LET Ends(axis, b) == {axis[b.lo + 1], axis[b.hi + 1]}
      Common(fehs, teffs) == {r \in ToSet(lib.axes[2]) : \A f \in fehs, t \in teffs : <<f, r, t>> \in lib.points}
      Populated(fehs, teffs) == {p[2] : p \in {p \in lib.points : p[1] \in fehs /\ p[3] \in teffs}}
  IN PickRt(lib, RawLogRt(lib, s),
       Common(Firsts(Weights(lib.axes[1], feh, 0)), Firsts(Weights(lib.axes[3], s.t, 0))),
       Populated(Ends(lib.axes[1], FindBracket(lib.axes[1], feh, 0)), Ends(lib.axes[3], FindBracket(lib.axes[3], s.t, 0))))

IsWR(lib) == lib.kind \in WRTypes
OnAxis(lib, i, v) == Within(ToSet(lib.axes[i]), v)
FehOf(lib, feh) == IF lib.kind = "wd" THEN lib.axes[1][1] ELSE feh
Place(lib, s, feh) == <<FehOf(lib, feh), IF IsWR(lib) THEN LogRt(lib, s, feh) ELSE Logg(s), s.t>>

Throws(lib) == [throws |-> TRUE, cells |-> {}, lib |-> lib]
OutOfBounds(lib) == [throws |-> FALSE, cells |-> {}, lib |-> lib]
Interpolated(lib, d) == [throws |-> FALSE, cells |-> Corners(lib, d), lib |-> Searched(lib, d)]

SpecOf(lib, s, feh) ==
  IF IsWR(lib) /\ GetWRType(s, lib.ranges, lib.top) # lib.kind THEN OutOfBounds(lib)
  ELSE IF IsWR(lib) /\ s.wind = "invalid" THEN Throws(lib)
  ELSE IF ~OnAxis(lib, 1, FehOf(lib, feh)) \/ ~OnAxis(lib, 3, s.t) \/ (~IsWR(lib) /\ ~OnAxis(lib, 2, Logg(s)))
  THEN OutOfBounds(lib)
  ELSE Interpolated(lib, Place(lib, s, feh))

-----------------------------------------------------------------------------
(* specForce(): the nearest cell of each row, or of each row and column    *)

NearestCell(lib, s, feh) ==
  LET row == {p \in lib.points : p[1] = feh}
      Off(p) == (p[2] - RawLogRt(lib, s)) * (p[2] - RawLogRt(lib, s)) + (p[3] - s.t) * (p[3] - s.t)
      Before(p, q) == p[2] < q[2] \/ (p[2] = q[2] /\ p[3] <= q[3])
  IN {p \in row : \A q \in row : Off(p) < Off(q) \/ (Off(p) = Off(q) /\ Before(p, q))}

NearestLogg(lib, s, feh, teff) ==
  LET column == {p[2] : p \in {p \in lib.points : p[1] = feh /\ p[3] = teff}}
  IN IF column = {} THEN {} ELSE {<<feh, Nearest(column, Logg(s)), teff>>}

NearestCells(lib, s, feh) ==
  LET fehs == Weights(lib.axes[1], FehOf(lib, feh), 0)
      teffs == Weights(lib.axes[3], s.t, 0)
  IN IF IsWR(lib) THEN UNION {{<<p, f[2]>> : p \in NearestCell(lib, s, f[1])} : f \in fehs}
     ELSE UNION {{<<p, f[2] * t[2]>> : p \in NearestLogg(lib, s, f[1], t[1])} : f \in fehs, t \in teffs}

SpecForce(lib, s, feh) ==
  IF \/ ~OnAxis(lib, 1, FehOf(lib, feh))
     \/ IF IsWR(lib) THEN s.wind = "invalid" ELSE ~OnAxis(lib, 3, s.t)
     \/ NearestCells(lib, s, feh) = {}
  THEN Throws(lib) ELSE [throws |-> FALSE, cells |-> NearestCells(lib, s, feh), lib |-> lib]
=============================================================================
