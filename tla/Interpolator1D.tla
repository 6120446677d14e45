--------------------------- MODULE Interpolator1D ---------------------------
(***************************************************************************)
(* Interpolation in a table (interp::Interpolator1D).                       *)
(* An interpolator is [x, f, type], or [error |-> why] when none is built. *)
(* The curves are the GNU library's: what is computed here is the straight *)
(* line between two points, which all of them follow where the table is    *)
(* straight, and which points of the table a value depends on.             *)
(***************************************************************************)
EXTENDS Integers, FiniteSetsExt, SequencesExt

Types == {"linear", "steffen", "akima"}

\* gsl_interp_type_min_size, and the points beyond the ends of its cell that a value
\* depends on.
TypeMinSize == [linear |-> 2, steffen |-> 3, akima |-> 5]
Reach == [linear |-> 0, steffen |-> 1, akima |-> 2]

\* checkSorted
NonDecreasing(x) == \A k \in 1 .. Len(x) - 1 : x[k] <= x[k + 1]

\* cleanDuplicates: the first point of each run of equal x, and as many values as points;
\* a table of one point is left as it is.
FirstOfRuns(x) == SetToSortSeq({k \in DOMAIN x : k = 1 \/ x[k - 1] # x[k]}, <)
CleanDuplicates(x, f) ==
  LET first == FirstOfRuns(x)
  IN IF Len(x) < 2 THEN [x |-> x, f |-> f]
     ELSE [x |-> [k \in DOMAIN first |-> x[first[k]]], f |-> [k \in DOMAIN first |-> f[first[k]]]]

\* interpInit: a table of just the minimum size is interpolated linearly.
TypeFor(n, type) == IF n > TypeMinSize[type] THEN type ELSE "linear"

\* The constructor.
Interpolator(x, f, type) ==
  LET t == CleanDuplicates(x, f)
      n == Len(t.x)
  IN IF ~NonDecreasing(x) THEN [error |-> "x must be strictly increasing"]
     ELSE IF n < TypeMinSize[type] THEN [error |-> "minimum size"]
     ELSE [x |-> t.x, f |-> t.f, type |-> TypeFor(n, type)]

Built(p) == "error" \notin DOMAIN p
Covers(p, q) == p.x[1] <= q /\ q <= Last(p.x)

\* The cell of q, and the value of the straight line in it.
CellOf(x, q) == Min({Len(x) - 1} \cup {k \in 1 .. Len(x) - 1 : q < x[k + 1]})
Eval(p, q) ==
  LET k == CellOf(p.x, q)
  IN p.f[k] + ((q - p.x[k]) * (p.f[k + 1] - p.f[k])) \div (p.x[k + 1] - p.x[k])

\* The points the value at q depends on: of a point itself, on that point.
DependsOn(p, q) ==
  LET k == CellOf(p.x, q)
      r == Reach[p.type]
  IN IF q \in ToSet(p.x) THEN {q}
     ELSE {p.x[n] : n \in (k - r) .. (k + 1 + r) \cap DOMAIN p.x}

\* integ of a product, twice over: the two are multiplied on the points of both tables
\* and the product is taken as straight between them.
ProductGrid(p, g, lo, hi) ==
  SetToSortSeq({lo, hi} \cup {v \in ToSet(p.x) \cup ToSet(g.x) : lo < v /\ v < hi}, <)
TwiceIntegral(x, f) ==
  FoldLeft(LAMBDA sum, k : sum + (x[k + 1] - x[k]) * (f[k] + f[k + 1]), 0, [k \in 1 .. Len(x) - 1 |-> k])
TwiceProductIntegral(p, g, x0, x1) ==
  LET lo == Max({p.x[1], g.x[1], x0})
      hi == Min({Last(p.x), Last(g.x), x1})
      grid == ProductGrid(p, g, lo, hi)
  IN IF lo >= hi THEN 0
     ELSE TwiceIntegral(grid, [k \in DOMAIN grid |-> Eval(p, grid[k]) * Eval(g, grid[k])])

=============================================================================
