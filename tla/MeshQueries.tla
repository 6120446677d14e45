----------------------------- MODULE MeshQueries ----------------------------
(***************************************************************************)
(* The queries a thread makes of a mesh, one after another: xIntersect,    *)
(* all the crossings of a line with y in lo .. hi, and xIntersectN, the n  *)
(* of them around a point.  Each is a walk, one crossing a step; what the  *)
(* thread keeps from one query to the next is the cell it ended in.        *)
(***************************************************************************)
EXTENDS Mesh2DGrid

CONSTANTS
  Meshes,       \* the meshes a behaviour may be about
  Questions     \* the queries: [kind, x, lo, hi] or [kind, x, y, n]

VARIABLES
  pc,           \* "idle", "interval", "walk", "down", "up", "answer" or "lost"
  ask,          \* the query being answered
  todo,         \* xIntersect: the intervals still to be walked through
  seg,          \* xIntersect: where the walk stops, whether inside the mesh, and for an
                \* interval that is one point, that point
  w,            \* the walker; for xIntersectN [up, down]
  going,        \* continueUp, continueDown
  found         \* the crossings found: a sequence; for xIntersectN [up, down]

meshVars == <<mesh, save>>
queryVars == <<ask, todo, seg, w, going, found>>
vars == <<meshVars, pc, queryVars>>

NoQuestion == [kind |-> "none"]
NoSeg == [stop |-> 0, endInterior |-> FALSE, only |-> {}, since |-> 0]

\* Bounds: the lines asked about cross the mesh at whole numbers, and none only touches it
\* at an end of the lowest rib (yLim takes it to be inside from there).
Whole(k, n) == k % Max({n, -n}) = 0
WholeLine(x) ==
  \A i \in Columns, j \in 0 .. NY - 2 :
    ~Vertical(i, j) => Whole((Y(j + 1) - Y(j)) * (x - X(i, j)), X(i, j + 1) - X(i, j))
TouchesBelow(x) == (x = X(0, 0) /\ Rising(0, 0)) \/ (x = X(NX - 1, 0) /\ Falling(NX - 1, 0))
WholeBehind(x) ==
  EntersLate(x) /\ ~Vertical(1, 0) => Whole((Y(1) - Y(0)) * (x - X(0, NY - 1)), X(1, 1) - X(1, 0))
Askable(x) == WholeLine(x) /\ ~TouchesBelow(x) /\ WholeBehind(x)
WholeRow(y) ==
  \A i \in Columns : LET j == Max({k \in 0 .. NY - 2 : Y(k) <= y})
                     IN Whole((y - Y(j)) * (X(i, j + 1) - X(i, j)), Y(j + 1) - Y(j))

Reset ==
  /\ ask = NoQuestion /\ todo = << >> /\ seg = NoSeg
  /\ w = << >> /\ going = [up |-> FALSE, down |-> FALSE] /\ found = << >>

\* A new grid; iSave_ and jSave_ are 0.
Init ==
  /\ mesh \in {m \in Meshes : Accepted(m)} /\ save = [i |-> 0, j |-> 0]
  /\ pc = "idle" /\ Reset

-----------------------------------------------------------------------------
(* xIntersect                                                              *)

\* xIntersectBoundaryRow: on the mesh's own left or right extreme, the points of that
\* edge; the mesh is left wherever the edge turns away.
BoundaryRow(x, lo, hi) ==
  LET i == IF x = XMin THEN 0 ELSE NX - 1
      rows == {j \in Rows : X(i, j) = x /\ Y(j) \in lo .. hi}
      point(j) == [Hit(Y(j), "rib", j) EXCEPT !.exit = ~(j + 1 \in Rows /\ X(i, j + 1) = x)]
      order == SetToSortSeq(rows, <)
  IN [k \in DOMAIN order |-> point(order[k])]

AskLine(q) ==
  /\ pc = "idle" /\ q.kind = "xIntersect" /\ Askable(q.x)
  /\ ask' = q
  /\ IF q.x \in {XMin, XMax}
     THEN /\ found' = BoundaryRow(q.x, q.lo, q.hi) /\ pc' = "answer"
          /\ UNCHANGED <<mesh, save, todo, seg, w, going>>
     ELSE /\ \E lim \in IF EntersLate(q.x) THEN LateYLims(q.x) ELSE {YLim(q.x)} :
               todo' = lim.limits /\ save' = lim.save
          /\ pc' = "interval"
          /\ UNCHANGED <<mesh, seg, w, going, found>>

\* yLim reads on behind the arrays.  What it comes upon there, if it ever ends, is not
\* followed.
ReadsOn(q) ==
  /\ pc = "idle" /\ q.kind = "xIntersect" /\ Askable(q.x) /\ EntersLate(q.x)
  /\ ask' = q /\ pc' = "lost"
  /\ UNCHANGED <<mesh, save, todo, seg, w, going, found>>
Lost == pc = "lost" /\ UNCHANGED vars

\* xIntersectSegStartInterior: from a point inside the mesh, om being whether it is on it;
\* [hits, w, tangent]
StartInterior(x, y, om) ==
  LET at(side) == Walker(om.save.i, om.save.j, y, side)
      leftOf == [at("left") EXCEPT !.i = Max({0, @ - 1})]
      turnsLeft == /\ Rising(om.save.i, om.save.j)
                   /\ om.hit.t = "rib" => x = X(om.save.i, om.save.j)
      turnsRight == om.hit.t = "spine" \/ x = X(om.save.i, om.save.j)
  IN IF om.hit.t = "none" THEN [hits |-> << >>, w |-> at("none"), tangent |-> FALSE]
     ELSE [hits |-> <<om.hit>>,
           tangent |-> turnsLeft /\ om.save.i = 0,
           w |-> IF turnsLeft THEN leftOf ELSE IF turnsRight THEN at("right") ELSE at("none")]

\* xIntersectSegStartEdge: from the lowest rib, or from a side of the mesh.
FromLowestRib(x) ==
  LET i == XIdx(x, 0)
      onPoint == x = X(i, 0)
  IN [hits |-> <<Hit(YMin, "rib", 0)>>,
      tangent |-> onPoint /\ Rising(i, 0) /\ i = 0,
      w |-> IF ~onPoint THEN Walker(i, 0, YMin, "none")
            ELSE IF Rising(i, 0) THEN Walker(Max({0, i - 1}), 0, YMin, "left")
            ELSE Walker(i, 0, YMin, "right")]
FromTheSide(x, y) ==
  LET j == Search(0, NY - 1, {k \in Rows : y <= Y(k)}, {k \in Rows : y = Y(k)})
      i == IF x <= X(0, j) THEN 0 ELSE NX - 1
      fromLeft == Min({NX - 1} \cup {k \in 0 .. NX - 2 : Differs(k, j) \/ ~Falling(k, j)})
      fromRight == Max({-1} \cup {k \in 0 .. NX - 2 : Differs(k, j) \/ Falling(k, j)})
  IN [hits |-> <<Hit(y, "spine", i)>>, tangent |-> FALSE,
      w |-> IF i = 0 THEN Walker(fromLeft, j, y, "right") ELSE Walker(fromRight, j, y, "left")]
StartEdge(x, y) == IF OverLowestRib(x) /\ y <= YMin THEN FromLowestRib(x) ELSE FromTheSide(x, y)

\* Of an interval, the part that is asked for.  One that is a single point is walked from
\* end to end, and what is found at that point kept.
StartSegment ==
  /\ pc = "interval" /\ todo # << >>
  /\ LET bottom == Head(todo)[1]
         top == Head(todo)[2]
         lo == Max({bottom, ask.lo})
         hi == Min({top, ask.hi})
         inside == lo < hi /\ ask.lo > bottom
     IN IF lo > hi
        THEN pc' = "interval" /\ UNCHANGED <<save, seg, w, going, found>>
        ELSE \E s \in {IF inside THEN StartInterior(ask.x, lo, OnMesh(ask.x, lo))
                       ELSE StartEdge(ask.x, IF lo = hi THEN bottom ELSE lo)} :
             /\ seg' = [stop |-> IF lo = hi THEN top ELSE hi, endInterior |-> lo < hi /\ ask.hi < top,
                        only |-> IF lo = hi THEN {lo} ELSE {}, since |-> Len(found)]
             /\ w' = s.w /\ save' = [i |-> s.w.i, j |-> s.w.j]
             /\ going' = [going EXCEPT !.up = ~s.tangent]
             /\ found' = found \o (IF lo = hi THEN SelectSeq(s.hits, LAMBDA h : h.y = lo) ELSE s.hits)
             /\ pc' = "walk"
  /\ todo' = Tail(todo)
  /\ UNCHANGED <<mesh, ask>>

\* One crossing on.  The same height is not noted twice running.
Advance ==
  /\ pc = "walk" /\ going.up
  /\ \E n \in {FindNextIntersect(w, ask.x, seg.stop, seg.endInterior)} :
     LET again == found # << >> /\ Last(found).y = n.hit.y
         kept == n.hit.t # "none" /\ ~again /\ (seg.only # {} => n.hit.y \in seg.only)
     IN /\ w' = n.w /\ save' = [i |-> n.w.i, j |-> n.w.j]
        /\ going' = [going EXCEPT !.up = n.on]
        /\ found' = IF kept THEN Append(found, n.hit) ELSE found
  /\ UNCHANGED <<mesh, pc, ask, todo, seg>>

\* The end of an interval; for a point at which no walk stopped, whether it is on the mesh.
EndSegment ==
  /\ pc = "walk" /\ ~going.up
  /\ pc' = "interval"
  /\ LET y == CHOOSE y \in seg.only : TRUE
         missed == seg.only # {} /\ Len(found) = seg.since
     IN IF missed
        THEN \E om \in {OnMesh(ask.x, y)} :
             save' = om.save /\ found' = IF om.hit.t = "none" THEN found ELSE Append(found, om.hit)
        ELSE UNCHANGED <<save, found>>
  /\ UNCHANGED <<mesh, ask, todo, seg, w, going>>

LineDone ==
  /\ pc = "interval" /\ todo = << >>
  /\ pc' = "answer"
  /\ UNCHANGED <<meshVars, queryVars>>

-----------------------------------------------------------------------------
(* xIntersectN                                                             *)

Both(u, d) == [up |-> u, down |-> d]

\* From a point on a rib, of which (i, j) is the cell above: up, and down.
UpFromRib(x, y, i, j) ==
  LET stays == Max({-1} \cup {k \in 0 .. i : ~(x = X(k, j) /\ Rising(k, j))})
  IN [on |-> y # YMax /\ stays >= 0,
      w |-> Walker(Max({0, stays}), j, y, IF x = X(Max({0, stays}), j) THEN "right" ELSE IF stays < i THEN "left" ELSE "none")]
DownFromRib(x, y, i, j) ==
  LET stays == Max({-1} \cup {k \in 0 .. i : ~(x = X(k, j + 1) /\ Falling(k, j))})
  IN [on |-> stays >= 0,
      w |-> Walker(Max({0, stays}), j, y, IF x = X(Max({0, stays}), j + 1) THEN "right" ELSE IF stays < i THEN "left" ELSE "none")]

\* From a point on a spine, into the cell on its left or on its right.
IntoLeft(y, i, j) ==
  LET k == Max({0} \cup {n \in 1 .. i - 1 : Differs(n - 1, j)})
  IN [on |-> i > 0 /\ ~(k = 0 /\ ~Differs(0, j)), w |-> Walker(k, j, y, "left")]
IntoRight(y, i, j) ==
  LET k == Min({NX - 2} \cup {n \in i .. NX - 3 : Differs(n, j)})
  IN [on |-> ~(k = NX - 2 /\ ~Differs(k, j)), w |-> Walker(k, j, y, "right")]

\* Where the two walks start, the point itself being found if it is on the mesh.
BothWays(x, y, om) ==
  LET i == om.save.i
      j == om.save.j
      below == IF y = YMax THEN NY - 2 ELSE j - 1
      still == [on |-> FALSE, w |-> Walker(i, j, y, "none")]
      inCell(side) == [on |-> TRUE, w |-> Walker(i, j, y, side)]
  IN CASE om.hit.t = "none" -> Both(inCell("none"), inCell("none"))
       [] om.hit.t = "rib" -> Both(UpFromRib(x, y, i, j), IF y = YMin THEN still ELSE DownFromRib(x, y, i, below))
       [] om.hit.t = "spine" /\ Beside(x, i + 1, j, y) = 0 ->
            IF Vertical(i + 1, j) THEN Both(inCell("left"), inCell("left"))
            ELSE IF Rising(i + 1, j) THEN Both(inCell("left"), still) ELSE Both(still, inCell("left"))
       [] OTHER -> IF Falling(i, j) THEN Both(IntoRight(y, i, j), IntoLeft(y, i, j))
                   ELSE Both(IntoLeft(y, i, j), IntoRight(y, i, j))

AskPoint(q) ==
  /\ pc = "idle" /\ q.kind = "xIntersectN" /\ Askable(q.x)
  /\ q.y \in YMin .. YMax /\ ContainsPoint(q.x, q.y)
  /\ \E om \in {OnMesh(q.x, q.y)} : \E b \in {BothWays(q.x, q.y, om)} :
        /\ w' = Both(b.up.w, b.down.w) /\ going' = Both(b.up.on, b.down.on)
        /\ found' = Both(IF om.hit.t = "none" THEN << >> ELSE <<[om.hit EXCEPT !.exit = ~b.up.on]>>, << >>)
        /\ save' = om.save
  /\ ask' = q /\ pc' = "down"
  /\ UNCHANGED <<mesh, todo, seg>>

Enough == Len(found.up) + Len(found.down) = ask.n
More == going.up \/ going.down

\* A crossing at the height of the one before it in this direction, or of the point the
\* walks started from, is dropped.
Noted(list, hit, other) ==
  IF hit.t = "none" \/ (list # << >> /\ Last(list).y = hit.y) \/ (list = << >> /\ other # << >> /\ Head(other).y = hit.y)
  THEN list ELSE Append(list, hit)

Down ==
  /\ pc = "down" /\ More /\ ~Enough
  /\ IF going.down
     THEN \E n \in {FindNextIntersect(w.down, ask.x, -BigNum, FALSE)} :
             /\ w' = [w EXCEPT !.down = n.w] /\ save' = [i |-> n.w.i, j |-> n.w.j]
             /\ going' = [going EXCEPT !.down = n.on]
             /\ found' = [found EXCEPT !.down = Noted(@, n.hit, found.up)]
     ELSE UNCHANGED <<save, w, going, found>>
  /\ pc' = "up"
  /\ UNCHANGED <<mesh, ask, todo, seg>>

Up ==
  /\ pc = "up" /\ ~Enough
  /\ IF going.up
     THEN \E n \in {FindNextIntersect(w.up, ask.x, BigNum, FALSE)} :
             /\ w' = [w EXCEPT !.up = n.w] /\ save' = [i |-> n.w.i, j |-> n.w.j]
             /\ going' = [going EXCEPT !.up = n.on]
             /\ found' = [found EXCEPT !.up = Noted(@, n.hit, << >>)]
     ELSE UNCHANGED <<save, w, going, found>>
  /\ pc' = "down"
  /\ UNCHANGED <<mesh, ask, todo, seg>>

PointDone ==
  /\ (pc = "down" /\ (~More \/ Enough)) \/ (pc = "up" /\ Enough)
  /\ found' = Reverse(found.down) \o found.up
  /\ pc' = "answer"
  /\ UNCHANGED <<meshVars, ask, todo, seg, w, going>>

-----------------------------------------------------------------------------
(* The other queries, and a grid that is copied.                           *)

AskRow(q) ==
  /\ pc = "idle" /\ q.kind = "yIntersect" /\ q.y \in YMin .. YMax /\ WholeRow(q.y)
  /\ \E row \in {RowCrossings(q.y)} : found' = row.found /\ save' = row.save
  /\ ask' = q /\ pc' = "answer"
  /\ UNCHANGED <<mesh, todo, seg, w, going>>

AskEdge(q) ==
  /\ pc = "idle" /\ q.kind = "yEdgeSlope" /\ Askable(q.x)
  /\ LET e == IF q.left THEN 0 ELSE NX - 1
     IN \E edge \in {EdgeSlopes(q.x, e)} : found' = edge.found /\ save' = edge.save
  /\ ask' = q /\ pc' = "answer"
  /\ UNCHANGED <<mesh, todo, seg, w, going>>

\* The copy and the move constructor: same points, a fresh cell saved.
Copied ==
  /\ pc = "idle"
  /\ save' = [i |-> 0, j |-> 0]
  /\ UNCHANGED <<mesh, pc, queryVars>>

-----------------------------------------------------------------------------
Return ==
  /\ pc = "answer"
  /\ pc' = "idle" /\ ask' = NoQuestion /\ todo' = << >> /\ seg' = NoSeg
  /\ w' = << >> /\ going' = Both(FALSE, FALSE) /\ found' = << >>
  /\ UNCHANGED meshVars

Next ==
  \/ \E q \in Questions : AskLine(q) \/ ReadsOn(q) \/ AskPoint(q) \/ AskRow(q) \/ AskEdge(q)
  \/ StartSegment \/ Advance \/ EndSegment \/ LineDone
  \/ Down \/ Up \/ PointDone
  \/ Copied \/ Return \/ Lost

Spec == Init /\ [][Next]_vars
=============================================================================
