------------------------- MODULE Mesh2DInterpolator -------------------------
(***************************************************************************)
(* Interpolation on a mesh (interp::Mesh2DInterpolator), from what the     *)
(* queries find.  mesh has, besides x and y, the values f at its points,   *)
(* [j][i]; type; and lazy: an interpolator of a rib or a spine is then     *)
(* made from the points around a value when it is asked for (evalLocal),   *)
(* where else there is one of the whole rib or spine.                      *)
(***************************************************************************)
EXTENDS MeshQueries, Interpolator1D

RibTable(j) == [x |-> mesh.x[j + 1], f |-> mesh.f[j + 1]]
SpineTable(i) == [x |-> mesh.y, f |-> [j \in 1 .. NY |-> mesh.f[j][i + 1]]]

\* evalLocal: the stretch of a table around q that holds at least Half distinct points on
\* either side of it, or all there are.
Half == 3
LocalTable(t, q) ==
  LET x == t.x
      n == Len(x)
      lo == Max({1} \cup {k \in 1 .. n - 1 : x[k] <= q})
      below == {x[k] : k \in 1 .. lo}
      above == {x[k] : k \in lo + 1 .. n} \ {x[lo]}
      least == Min(below \ {v \in below : Cardinality({u \in below : u > v}) >= Half})
      most == Max({x[lo]} \cup (above \ {v \in above : Cardinality({u \in above : u < v}) >= Half}))
      first == Min({k \in 1 .. n : x[k] = least})
      last == IF Cardinality(above) < Half THEN n ELSE Min({k \in lo .. n : x[k] = most})
  IN [x |-> SubSeq(x, first, last), f |-> SubSeq(t.f, first, last)]

\* The interpolator that answers for q, and its value.
Answering(t, q) ==
  LET of == IF mesh.lazy THEN LocalTable(t, q) ELSE t IN Interpolator(of.x, of.f, mesh.type)
EvalRib(j, x) == Eval(Answering(RibTable(j), x), x)
EvalSpine(i, y) == Eval(Answering(SpineTable(i), y), y)

\* The value at a crossing of the line at x.
ValueAt(h, x) == IF h.t = "rib" THEN EvalRib(h.idx, x) ELSE EvalSpine(h.idx, h.y)

\* Seeded fault: one stretch, whether the mesh is left in between or not.
OneStretch(hits) == IF Len(hits) >= 2 THEN <<hits>> ELSE << >>

\* interpConstX: one interpolator for every stretch up to a crossing at which the mesh is
\* left, of those with two crossings or more.
Stretches(hits) ==
  LET ends == SetToSortSeq({k \in DOMAIN hits : hits[k].exit \/ k = Len(hits)}, <)
      from(n) == IF n = 1 THEN 1 ELSE ends[n - 1] + 1
  IN SelectSeq([n \in DOMAIN ends |-> SubSeq(hits, from(n), ends[n])], LAMBDA s : Len(s) >= 2)
InterpConstX(hits, x) ==
  LET s == Stretches(hits)
  IN [n \in DOMAIN s |-> Interpolator([k \in DOMAIN s[n] |-> s[n][k].y],
                                      [k \in DOMAIN s[n] |-> ValueAt(s[n][k], x)], mesh.type)]

\* interpConstY
InterpConstY(row, y) ==
  Interpolator([k \in DOMAIN row |-> row[k].x], [k \in DOMAIN row |-> EvalSpine(row[k].idx, y)], mesh.type)

\* operator() of the point asked for: from the crossings around it, or from one if there
\* is no other; too few for the type of curve, and it is a straight line.
PointType(hits, linear) ==
  IF linear \/ Len(hits) < TypeMinSize[mesh.type] THEN "linear" ELSE mesh.type
At(hits, x, y, linear) ==
  IF Len(hits) = 1 THEN ValueAt(hits[1], x)
  ELSE Eval(Interpolator([k \in DOMAIN hits |-> hits[k].y], [k \in DOMAIN hits |-> ValueAt(hits[k], x)],
                         PointType(hits, linear)), y)
=============================================================================
