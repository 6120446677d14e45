----------------------------- MODULE Mesh2DGrid -----------------------------
(***************************************************************************)
(* Where a line of constant x meets a semi-tensor mesh (interp::Mesh2DGrid,*)
(* under the stellar tracks).  Point (i, j) of the mesh is at (X(i,j),     *)
(* Y(j)), counted from 0; a rib joins the points of one j, a spine those   *)
(* of one i.  A query walks from cell to cell, remembering which side it   *)
(* came through; the cell a query ends in, iSave_ and jSave_ of the        *)
(* calling thread, is where the next one starts to search.                 *)
(*                                                                         *)
(* Coordinates are integers: the meshes that are checked have rows so far  *)
(* apart that every crossing of a spine falls on one.  The length along a  *)
(* spine grows with y, and stands here as y itself; rows are at different  *)
(* y, as the masses of the tracks are.                                     *)
(***************************************************************************)
EXTENDS Integers, FiniteSetsExt, SequencesExt

VARIABLES
  mesh,     \* [x |-> rows of the mesh, [j][i]; y |-> the rows' y; lazy |-> the slopes, and x, are
            \* made when they are asked for]
  save      \* [i, j]: iSave_ and jSave_

X(i, j) == mesh.x[j + 1][i + 1]
Y(j) == mesh.y[j + 1]
NX == Len(mesh.x[1])
NY == Len(mesh.y)
Columns == 0 .. NX - 1
Rows == 0 .. NY - 1
BigNum == 10 ^ 6

XMin == Min({X(0, j) : j \in Rows})
XMax == Max({X(NX - 1, j) : j \in Rows})
YMin == Y(0)
YMax == Y(NY - 1)

\* The slope of spine (i, j) .. (i, j+1): infinite, positive or negative.
Vertical(i, j) == X(i, j + 1) = X(i, j)
Rising(i, j) == X(i, j + 1) > X(i, j)
Falling(i, j) == X(i, j + 1) < X(i, j)

\* y of the spine, or of the line it is part of, at x; an upright one has only its foot
YAt(i, j, x) ==
  IF Vertical(i, j) THEN Y(j)
  ELSE Y(j) + ((Y(j + 1) - Y(j)) * (x - X(i, j))) \div (X(i, j + 1) - X(i, j))

\* Where x is from the spine at height y of its cell: negative on its left.
Beside(x, i, j, y) == (x - X(i, j)) * (Y(j + 1) - Y(j)) - (y - Y(j)) * (X(i, j + 1) - X(i, j))

\* safetyCheckInputs
Accepted(m) ==
  LET rows == DOMAIN m.x
      width == Len(m.x[1])
  IN /\ Len(m.y) = Len(m.x) /\ Len(m.y) >= 2 /\ width >= 2
     /\ \A j \in rows : \A i \in 1 .. width - 1 : m.x[j][i] <= m.x[j][i + 1]
     /\ \A j \in 1 .. Len(m.y) - 1 : m.y[j] <= m.y[j + 1]
     /\ \A j \in rows : m.x[j][1] # m.x[j][width]
     /\ m.y[1] # Last(m.y)

\* convex_
Convex ==
  /\ ~\E j, k \in 0 .. NY - 2 : j < k /\ Rising(0, j) /\ Falling(0, k)
  /\ ~\E j, k \in 0 .. NY - 2 : j < k /\ Falling(NX - 1, j) /\ Rising(NX - 1, k)

-----------------------------------------------------------------------------
(* The cell of a point.                                                    *)

\* xSearch and ySearch: the search halves lo .. hi; notBefore are the places at which the
\* point is not beyond, at those where it is exactly.
Search(lo, hi, notBefore, at) ==
  LET top == Min({hi} \cup {k \in lo + 1 .. hi : k \in notBefore})
  IN IF top \in at THEN top ELSE Max({lo, top - 1})

LastCell(k, n) == IF k = n - 1 THEN n - 2 ELSE k

YIdx(y) ==
  LET j == save.j
      notBefore == {k \in Rows : y <= Y(k)}
      at == {k \in Rows : y = Y(k)}
  IN LastCell(IF y < Y(j) THEN Search(0, j, notBefore, at)
              ELSE IF j = NY - 1 THEN j
              ELSE IF y >= Y(j + 1) THEN Search(j, NY - 1, notBefore, at)
              ELSE j, NY)

\* Seeded fault: the search never goes back from the saved column.
OnwardsFrom(x, y, j) ==
  LET notBefore == {k \in Columns : Beside(x, k, j, y) <= 0}
      at == {k \in Columns : Beside(x, k, j, y) = 0}
  IN IF save.i < NX - 1 /\ Beside(x, save.i + 1, j, y) >= 0 THEN Search(save.i, NX - 1, notBefore, at) ELSE save.i

\* The column of x at height y of the cells of row j, from saved column i; before the
\* last column is taken back into the last cell.  A row or an edge that was read to its
\* end has left the last column or row saved: the comparison with the one after it, which
\* is not there, comes out either way, with the same cell.
ColumnOf(x, y, j) ==
  LET i == save.i
      notBefore == {k \in Columns : Beside(x, k, j, y) <= 0}
      at == {k \in Columns : Beside(x, k, j, y) = 0}
  IN IF Beside(x, i, j, y) < 0 THEN Search(0, i, notBefore, at)
     ELSE IF i = NX - 1 THEN i
     ELSE IF Beside(x, i + 1, j, y) >= 0 THEN Search(i, NX - 1, notBefore, at)
     ELSE i

XIdx(x, j) == LastCell(ColumnOf(x, Y(j), j), NX)

ContainsPoint(x, y) ==
  /\ y \in YMin .. YMax
  /\ LET j == YIdx(y) IN Beside(x, 0, j, y) >= 0 /\ Beside(x, NX - 1, j, y) <= 0

-----------------------------------------------------------------------------
(* Crossings, and whether a point is on a rib or a spine.                  *)

Hit(y, t, idx) == [y |-> y, t |-> t, idx |-> idx, exit |-> FALSE]
NoHit == Hit(0, "none", 0)
Leaving(h) == [h EXCEPT !.exit = TRUE]

\* onMesh: the crossing the point is on, if any, and the cell it leaves saved.
OnMesh(x, y) ==
  LET j == YIdx(y)
      i == ColumnOf(x, y, j)
      saved == [i |-> LastCell(i, NX), j |-> j]
      hit == IF ~ContainsPoint(x, y) THEN NoHit
             ELSE IF y = Y(j) THEN Hit(y, "rib", j)
             ELSE IF y = YMax THEN Leaving(Hit(y, "rib", NY - 1))
             ELSE IF Beside(x, i, j, y) = 0 THEN Hit(y, "spine", i)
             ELSE IF i = NX - 2 /\ Beside(x, i + 1, j, y) = 0 THEN Leaving(Hit(y, "spine", i + 1))
             ELSE NoHit
  IN [hit |-> hit, save |-> IF ContainsPoint(x, y) THEN saved ELSE [save EXCEPT !.j = j]]

-----------------------------------------------------------------------------
(* The stretches of y over which the line is inside the mesh.              *)

\* Where the edge of the mesh, column i, turns at row j: out of it for a line inside, or
\* into it for one outside.
Outward(i, j) == IF i = 0 THEN Rising(i, j) ELSE Falling(i, j)
Inward(i, j) == IF i = 0 THEN Falling(i, j) ELSE Rising(i, j)

\* The line meets the edge in row j: it crosses it, or touches a corner where, as the
\* number of limits so far tells, it goes in or comes out.
MeetsEdge(yL, i, j, x) ==
  LET a == X(i, j) - x
      b == X(i, j + 1) - x
      isIn == Len(yL) % 2 = 1
  IN \/ a * b < 0
     \/ b = 0 /\ j < NY - 2 /\ ((isIn /\ Outward(i, j + 1)) \/ (~isIn /\ Inward(i, j + 1)))

SideLimits(yL, i, j, x) == IF MeetsEdge(yL, i, j, x) THEN Append(yL, YAt(i, j, x)) ELSE yL

InOrder(yL) ==
  LET n == Len(yL)
  IN IF n >= 2 /\ yL[n - 1] > yL[n] THEN [yL EXCEPT ![n - 1] = yL[n], ![n] = yL[n - 1]] ELSE yL

YLimTraverse(yL, j, x) == InOrder(SideLimits(SideLimits(yL, 0, j, x), NX - 1, j, x))

\* The row at which a line that misses the lowest rib comes in, through the left edge or
\* the right one.
Entry(x) ==
  LET i == IF x < X(0, 0) THEN 0 ELSE NX - 1
  IN [i |-> i, j |-> Min({j \in 0 .. NY - 2 : (X(i, j) - x) * (X(i, j + 1) - x) <= 0})]

OverLowestRib(x) == X(0, 0) <= x /\ x <= X(NX - 1, 0)

\* The rows are climbed until the last, or until a convex mesh is left; the limits are
\* then paired up, the top being the last of them if the line is inside there.
Climb(x, yL, from) ==
  FoldLeft(LAMBDA c, j : IF Convex /\ Len(c.yL) = 2 THEN c ELSE [yL |-> YLimTraverse(c.yL, j, x), j |-> j],
           [yL |-> yL, j |-> from], [k \in 1 .. NY - 1 - from |-> from + k - 1])
InPairs(yL) ==
  LET closed == IF Len(yL) % 2 = 1 THEN Append(yL, YMax) ELSE yL
  IN [k \in 1 .. Len(closed) \div 2 |-> <<closed[2 * k - 1], closed[2 * k]>>]

YLim(x) ==
  LET e == Entry(x)
      c == IF OverLowestRib(x) THEN Climb(x, <<YMin>>, 0) ELSE Climb(x, <<YAt(e.i, e.j, x)>>, e.j + 1)
  IN IF x < XMin \/ x > XMax THEN [limits |-> << >>, save |-> save]
     ELSE [limits |-> InPairs(c.yL),
           save |-> [i |-> IF OverLowestRib(x) THEN save.i ELSE LastCell(e.i, NX), j |-> c.j]]

\* The line comes in through a side in the last row of cells.
EntersLate(x) == XMin < x /\ x < XMax /\ ~OverLowestRib(x) /\ Entry(x).j = NY - 2

\* The climb then starts above the last row, all the same.  The points being stored column
\* after column, what it takes for the left edge is a segment from the top of column 0 to
\* the foot of column 1, with the slope column 1 has there (a mesh with slopes made when
\* they are asked for makes it from a y that is not there); for the right edge, whatever
\* lies behind the arrays.  Bound: heights that come from there are one of some.
Anywhere(x) == ToSet(mesh.y) \cup {YAt(Entry(x).i, Entry(x).j, x)}
BehindLeft(x) ==
  LET dx == x - X(0, NY - 1)
  IN IF dx * (x - X(1, 0)) >= 0 THEN {<< >>}
     ELSE IF mesh.lazy THEN {<<y>> : y \in Anywhere(x)}
     ELSE IF Vertical(1, 0) THEN {<<IF dx < 0 THEN -BigNum ELSE BigNum>>}
     ELSE {<<YMax + ((Y(1) - Y(0)) * dx) \div (X(1, 1) - X(1, 0))>>}
BehindRight(x) == {<< >>} \cup {<<y>> : y \in Anywhere(x)}

\* What it may make of that: with one more limit a convex mesh is taken to have both.
\* Otherwise it reads on, further and further behind the arrays.
LateYLims(x) ==
  LET e == Entry(x)
      limits == {InOrder(<<YAt(e.i, e.j, x)>> \o l \o r) : l \in BehindLeft(x), r \in BehindRight(x)}
  IN {[limits |-> InPairs(yL), save |-> [i |-> LastCell(e.i, NX), j |-> NY - 1]] :
        yL \in {both \in limits : Convex /\ Len(both) = 2}}

-----------------------------------------------------------------------------
(* A line of constant y, and the slopes of an edge.                        *)

\* The cells on either side with a different spine, or else the last.
Differs(i, j) == X(i, j) # X(i + 1, j) \/ X(i, j + 1) # X(i + 1, j + 1)

XOn(i, j, y) == X(i, j) + ((y - Y(j)) * (X(i, j + 1) - X(i, j))) \div (Y(j + 1) - Y(j))

\* yIntersectBoundaryColumn: on the lowest or the highest rib, all of its points.
OnBoundaryRib(y) ==
  LET j == IF y = YMin THEN 0 ELSE NY - 1
  IN [found |-> [k \in 1 .. NX |-> [x |-> X(k - 1, j), idx |-> k - 1]], save |-> save]

\* yIntersect of a whole line: every spine from left to right, but of spines that coincide
\* one, and the last column is left saved.
RowCrossings(y) ==
  LET j == YIdx(y)
      cols == SetToSortSeq({0, 1} \cup {k \in 2 .. NX - 1 : Differs(k - 1, j)}, <)
  IN IF y \in {YMin, YMax} THEN OnBoundaryRib(y)
     ELSE [found |-> [k \in DOMAIN cols |-> [x |-> XOn(cols[k], j, y), idx |-> cols[k]]],
           save |-> [i |-> NX - 1, j |-> j]]

Vertex(y, j) == <<[y |-> y, row |-> j]>>
EdgeAt(list, here, y, j) == IF here /\ (list = << >> \/ Last(list).y # y) THEN list \o Vertex(y, j) ELSE list

\* yEdgeSlopeTraverse: as yLimTraverse, and on the edge asked about, column e, where and
\* with which segment the line meets it.
EdgeSlopeTraverse(c, j, x, e) ==
  LET left == SideLimits(c.yL, 0, j, x)
      both == SideLimits(left, NX - 1, j, x)
      met == IF e = 0 THEN left # c.yL ELSE both # left
  IN IF Convex /\ Len(c.yL) = 2 THEN c
     ELSE [yL |-> InOrder(both), j |-> j, list |-> c.list \o (IF met THEN Vertex(YAt(e, j, x), j) ELSE << >>)]

\* yEdgeSlope: the segments of one edge that the line meets; an entry in the last row
\* leaves the row after it saved.
EdgeSlopes(x, e) ==
  LET entry == Entry(x)
      start == IF OverLowestRib(x)
               THEN [yL |-> <<YMin>>, j |-> 0, list |-> EdgeAt(<< >>, x = X(e, 0), YMin, 0)]
               ELSE LET y == YAt(entry.i, entry.j, x)
                    IN [yL |-> <<y>>, j |-> entry.j + 1, list |-> EdgeAt(<< >>, entry.i = e, y, entry.j)]
      c == FoldLeft(LAMBDA a, j : EdgeSlopeTraverse(a, j, x, e), start,
                    [k \in 1 .. NY - 1 - start.j |-> start.j + k - 1])
  IN IF x < XMin \/ x > XMax THEN [found |-> << >>, save |-> save]
     ELSE [found |-> EdgeAt(c.list, x = X(e, NY - 1), YMax, NY - 2),
           save |-> [i |-> IF OverLowestRib(x) THEN save.i ELSE entry.i, j |-> c.j]]

-----------------------------------------------------------------------------
(* The walk: w is the cell, the height reached, and the side of the cell   *)
(* the line has just come through.                                         *)

Walker(i, j, y, side) == [i |-> i, j |-> j, y |-> y, side |-> side]
Steps(on, hit, w) == [on |-> on, hit |-> hit, w |-> w]

\* findIntersectDistance
Distance(w, i, x, up, cameThrough) ==
  LET d == IF up THEN YAt(i, w.j, x) - w.y ELSE w.y - YAt(i, w.j, x)
  IN IF Vertical(i, w.j) \/ w.side = cameThrough \/ d < 0 THEN BigNum ELSE d

\* The line runs through point k of row j: it goes on in a cell left of the point, in one
\* right of it, or out of the mesh.
ToTheLeft(w, j, x) ==
  LET k == Max({0} \cup {n \in 0 .. w.i - 1 : X(n, j) # x})
  IN [exit |-> w.i = 0 \/ X(k, j) = x, w |-> Walker(k, w.j, w.y, "left")]
ToTheRight(w, j, x) ==
  LET free == {n \in w.i .. NX - 2 : X(n + 1, j) # x}
  IN [exit |-> w.i = NX - 2 \/ free = {}, w |-> Walker(Min({NX - 2} \cup free), w.j, w.y, "right")]
Stays(w, side) == [exit |-> FALSE, w |-> [w EXCEPT !.side = side]]

\* handleTopRibCornerCases
TopCorner(w, x) ==
  IF x = X(w.i, w.j) THEN IF Rising(w.i, w.j) THEN ToTheLeft(w, w.j, x) ELSE Stays(w, "right")
  ELSE IF x = X(w.i + 1, w.j)
       THEN IF Falling(w.i + 1, w.j) THEN ToTheRight(w, w.j, x) ELSE Stays(w, "left")
  ELSE Stays(w, "none")

\* handleBottomRibCornerCases
BottomCorner(w, x) ==
  IF x = X(w.i, w.j + 1) THEN IF Falling(w.i, w.j) THEN ToTheLeft(w, w.j + 1, x) ELSE Stays(w, "right")
  ELSE IF x = X(w.i + 1, w.j + 1)
       THEN IF Rising(w.i + 1, w.j) THEN ToTheRight(w, w.j + 1, x) ELSE Stays(w, "left")
  ELSE Stays(w, "none")

\* A rib is reached; past the stop the walk ends before it.
TopRib(w, x) ==
  LET hit == Hit(Y(w.j + 1), "rib", w.j + 1)
      at == Walker(w.i, w.j + 1, hit.y, "none")
      corner == TopCorner(at, x)
  IN IF w.j + 1 = NY - 1 THEN Steps(FALSE, Leaving(hit), [at EXCEPT !.j = w.j])
     ELSE Steps(~corner.exit, [hit EXCEPT !.exit = corner.exit], corner.w)

BottomRib(w, x) ==
  LET hit == Hit(Y(w.j), "rib", w.j)
      corner == BottomCorner(Walker(w.i, w.j - 1, hit.y, "none"), x)
  IN IF w.j = 0 THEN Steps(FALSE, Leaving(hit), [w EXCEPT !.y = hit.y])
     ELSE Steps(~corner.exit, [hit EXCEPT !.exit = corner.exit], corner.w)

LeftSpine(w, x) ==
  LET hit == Hit(YAt(w.i, w.j, x), "spine", w.i)
      k == Max({0} \cup {n \in 0 .. w.i - 1 : Differs(n, w.j)})
      out == w.i = 0 \/ ~Differs(k, w.j)
  IN Steps(~out, [hit EXCEPT !.exit = out], Walker(k, w.j, hit.y, "left"))

RightSpine(w, x) ==
  LET hit == Hit(YAt(w.i + 1, w.j, x), "spine", w.i + 1)
      k == Min({NX - 1} \cup {n \in w.i + 1 .. NX - 2 : Differs(n, w.j)})
  IN Steps(k < NX - 1, [hit EXCEPT !.exit = k = NX - 1], Walker(LastCell(k, NX), w.j, hit.y, "right"))

\* findNextIntersect: whichever of the rib ahead and the two spines is nearest, the rib
\* before a spine and the right spine before the left. Towards a stop inside the mesh
\* the walk ends at a crossing beyond it, and the crossing is not taken.
FindNextIntersect(w, x, stop, endInterior) ==
  LET up == stop > w.y
      dyY == IF up THEN Y(w.j + 1) - w.y ELSE w.y - Y(w.j)
      dyL == Distance(w, w.i, x, up, "right")
      dyR == Distance(w, w.i + 1, x, up, "left")
      next == IF dyY <= dyL /\ dyY <= dyR THEN IF up THEN TopRib(w, x) ELSE BottomRib(w, x)
              ELSE IF dyL < dyR THEN LeftSpine(w, x) ELSE RightSpine(w, x)
      beyond == IF up THEN next.hit.y > stop ELSE next.hit.y < stop
  IN IF endInterior /\ beyond THEN Steps(FALSE, NoHit, [w EXCEPT !.y = next.hit.y]) ELSE next
=============================================================================
