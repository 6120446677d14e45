-------------------------- MODULE TracksProperties ---------------------------
(***************************************************************************)
(* What a mesh's answers must be: where its lines cross it, and what is    *)
(* interpolated from the crossings; the meshes that stellar tracks are     *)
(* read into, and what the queries of them then say of a star.             *)
(***************************************************************************)
EXTENDS Mesh2DInterpolator, StellarTracks

CONSTANTS
  Files,        \* the track files, by name
  Requests      \* [file, r]: what is asked of Tracks3D, r being [fehMin, fehMax, vvcrit, afe]

-----------------------------------------------------------------------------
(* The mesh as a set of points, and all the crossings of the line at x.    *)

Within(x, y) == \E j \in 0 .. NY - 2 : /\ y \in Y(j) .. Y(j + 1)
                                       /\ Beside(x, 0, j, y) >= 0 /\ Beside(x, NX - 1, j, y) <= 0
OverRib(x, j) == X(0, j) <= x /\ x <= X(NX - 1, j)
CrossesSpine(x, i, j) == ~Vertical(i, j) /\ (x - X(i, j)) * (x - X(i, j + 1)) <= 0
Crossings(x) ==
  {Y(j) : j \in {k \in Rows : OverRib(x, k)}} \cup
  {YAt(c[1], c[2], x) : c \in {k \in Columns \X (0 .. NY - 2) : CrossesSpine(x, k[1], k[2])}}

\* The line touches the mesh there and is in it neither above nor below.
Isolated(x, y) == Within(x, y) /\ ~Within(x, y + 1) /\ ~Within(x, y - 1)

\* No point of the mesh is on the line: what a query does where the line runs along a
\* spine or through a point is then not a matter of convention.
Generic(x) == \A i \in Columns, j \in Rows : X(i, j) # x

Answers(kind) == pc = "answer" /\ ask.kind = kind
Heights == {found[k].y : k \in DOMAIN found}
Ascending == \A k \in 1 .. Len(found) - 1 : found[k].y < found[k + 1].y

-----------------------------------------------------------------------------
OnWhatItNames(h, x) ==
  IF h.t = "rib" THEN h.y = Y(h.idx) /\ OverRib(x, h.idx)
  ELSE \E j \in 0 .. NY - 2 : h.y \in Y(j) .. Y(j + 1) /\ Beside(x, h.idx, j, h.y) = 0

LineRight ==
  /\ Ascending /\ \A k \in DOMAIN found : OnWhatItNames(found[k], ask.x)
  /\ Generic(ask.x) =>
       /\ Heights = {c \in Crossings(ask.x) \cap ask.lo .. ask.hi : ~Isolated(ask.x, c)}
       /\ \A k \in DOMAIN found : found[k].exit <=> ~Within(ask.x, found[k].y + 1)
LineComplete == Answers("xIntersect") /\ ~EntersLate(ask.x) => LineRight

Surrounded ==
  Answers("xIntersectN") =>
    /\ Ascending
    /\ ask.y \in Heights \/ \E a, b \in Heights : a < ask.y /\ ask.y < b
    /\ Generic(ask.x) => \A k \in 1 .. Len(found) - 1 :
                            ~\E c \in Crossings(ask.x) : found[k].y < c /\ c < found[k + 1].y

RowComplete ==
  Answers("yIntersect") =>
    LET j == Max({k \in 0 .. NY - 2 : Y(k) <= ask.y})
    IN /\ {found[k].x : k \in DOMAIN found} = {XOn(i, j, ask.y) : i \in Columns}
       /\ \A k \in DOMAIN found : found[k].x = XOn(found[k].idx, j, ask.y)
       /\ \A k \in 1 .. Len(found) - 1 : found[k].x <= found[k + 1].x

EdgeComplete ==
  Answers("yEdgeSlope") /\ Generic(ask.x) =>
    LET e == IF ask.left THEN 0 ELSE NX - 1
    IN /\ Ascending
       /\ {<<found[k].y, found[k].row>> : k \in DOMAIN found} =
            {<<YAt(e, j, ask.x), j>> : j \in {k \in 0 .. NY - 2 : CrossesSpine(ask.x, e, k)}}

\* The cell saved between queries and during a walk is one of the mesh's.
SavedCellExists == pc = "walk" => save.i \in 0 .. NX - 2 /\ save.j \in 0 .. NY - 2

(* Whatever a thread has asked before, a query of the mesh finds every     *)
(* crossing of the line it is about, once, in order, on the rib or the     *)
(* spine it says, and marks just those at which the mesh is left; the      *)
(* crossings around a point are on either side of it with none between     *)
(* (Mesh2DGrid::xIntersect, xIntersectN, yIntersect and yEdgeSlope, which  *)
(* start from the cell the last query saved).  Nothing is said of the      *)
(* crossings of a line that enters in the last row, of which more below.   *)
CrossingsComplete == LineComplete /\ Surrounded /\ RowComplete /\ EdgeComplete /\ SavedCellExists

(* The comment on yEdgeSlope: where the line enters in the last row, what  *)
(* yLim reads behind the arrays does not corrupt its result in practice.   *)
LateEntriesRight == Answers("xIntersect") /\ EntersLate(ask.x) => LineRight

-----------------------------------------------------------------------------
(* Interpolation of a field that is linear in x and y: every straight line *)
(* through its values has the field's value.                               *)

FieldAt(x, y) == mesh.f[1][1] + 2 * (x - X(0, 0)) + 3 * (y - YMin)
IsLinearField == \A i \in Columns, j \in Rows : mesh.f[j + 1][i + 1] = FieldAt(X(i, j), Y(j))

\* The points of a curve are the field's, as many as are asked for or all there are.
IsochroneRight ==
  Answers("xIntersect") /\ ~EntersLate(ask.x) /\ Generic(ask.x) /\ ask.lo < YMin /\ ask.hi > YMax =>
    LET curves == InterpConstX(found, ask.x)
        covers(y) == \E n \in DOMAIN curves : Covers(curves[n], y)
    IN /\ \A n \in DOMAIN curves : Built(curves[n])
       /\ \A y \in YMin .. YMax : covers(y) <=> Within(ask.x, y) /\ ~Isolated(ask.x, y)
       /\ \A n \in DOMAIN curves : \A k \in DOMAIN curves[n].x : curves[n].f[k] = FieldAt(ask.x, curves[n].x[k])

PointRight ==
  Answers("xIntersectN") =>
    /\ At(found, ask.x, ask.y, FALSE) = FieldAt(ask.x, ask.y)
    /\ At(found, ask.x, ask.y, TRUE) = FieldAt(ask.x, ask.y)

TrackRight ==
  Answers("yIntersect") =>
    LET curve == InterpConstY(found, ask.y)
    IN /\ Built(curve)
       /\ \A k \in DOMAIN curve.x : curve.f[k] = FieldAt(curve.x[k], ask.y)

(* Interpolating at constant x, at constant y and at a point gives the     *)
(* same field, where each is defined, from a mesh whose rib and spine      *)
(* interpolators are made beforehand and from one that makes them when it  *)
(* is asked; and a line has a curve wherever it is inside the mesh, unless *)
(* it enters it in the last row                                            *)
(* (Mesh2DInterpolator::interpConstX, interpConstY, operator() and         *)
(* evalLocal).                                                             *)
FieldReproduced == IsLinearField /\ mesh.type = "linear" => IsochroneRight /\ PointRight /\ TrackRight

-----------------------------------------------------------------------------
(* Meshes of stellar tracks.                                               *)

\* The slices taken of what is loaded, each with what it was made from.
SlicesOf(q, lazy) ==
  LET s == Tracks3D(Files[q.file], q.r)
      slice(feh) == [from |-> [file |-> q.file, r |-> q.r, feh |-> feh]] @@ ConstZ(s, feh, lazy)
  IN {slice(feh) : feh \in q.r.fehMin .. q.r.fehMax}
TrackMeshes == UNION {SlicesOf(q, lazy) : q \in Requests, lazy \in BOOLEAN}

GroupsOf(m) == Available(Files[m.from.file], m.from.r.vvcrit, m.from.r.afe)
PlanesOf(groups) == [k \in DOMAIN groups |-> groups[k].feh]

\* A star of a recorded mass and metallicity has what the file says at every age of its
\* track, before it what it starts with, and after it is not alive.
StarAsRecorded(j, tr) ==
  LET last == Last(tr.rows).t
  IN /\ \A n \in DOMAIN tr.rows : ContainsPoint(tr.rows[n].t, tr.m) /\ EvalRib(j, tr.rows[n].t) = tr.rows[n].q
     /\ \A t \in Earliest .. tr.rows[1].t : ContainsPoint(t, tr.m) /\ EvalRib(j, t) = tr.rows[1].q
     /\ ~ContainsPoint(last + 1, tr.m)
     /\ X(NX - 1, j) = last

\* What is loaded reaches as far as was asked, and at a metallicity in between depends on
\* the planes it would depend on if all of them had been.
PlanesSuffice(loaded, all, lo, hi) ==
  /\ loaded[1] <= lo /\ hi <= Last(loaded)
  /\ Len(loaded) > TypeMinSize[Default] =>
       \A feh \in lo .. hi : DependsOn([x |-> loaded, type |-> Default], feh) = DependsOn([x |-> all, type |-> Default], feh)

Loads(file, r) == "error" \notin DOMAIN Tracks3D(file, r)

JustRead == "from" \in DOMAIN mesh /\ pc = "idle" /\ save = [i |-> 0, j |-> 0]

(* Any range of metallicities for which the file has three sets of tracks  *)
(* or more can be loaded, with enough planes about it to interpolate       *)
(* there; and a star of a recorded mass and metallicity lives as long, and *)
(* has the properties at every age, that the file has for it, padding and  *)
(* the synthetic first point included (Tracks3D::Tracks3D,                 *)
(* findMatchingTracks, readAllTrackData, isAlive, starLifetime, getStar).  *)
TracksAsRecorded ==
  JustRead =>
    LET groups == GroupsOf(mesh)
        planes == PlanesOf(groups)
        here == {k \in DOMAIN groups : planes[k] = mesh.from.feh}
    IN /\ \A lo \in planes[1] .. Last(planes) : \A hi \in lo .. Last(planes) :
            LET r == [mesh.from.r EXCEPT !.fehMin = lo, !.fehMax = hi]
            IN Len(planes) >= 3 =>
                 /\ Loads(Files[mesh.from.file], r)
                 /\ lo < hi => PlanesSuffice(Tracks3D(Files[mesh.from.file], r).z, planes, lo, hi)
       /\ \A k \in here : \A j \in Rows : StarAsRecorded(j, ByMass(groups[k])[j + 1])
=============================================================================
