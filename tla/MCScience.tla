------------------------------ MODULE MCScience ------------------------------
(***************************************************************************)
(* The instance of the science run: the libraries that trials consult.  A  *)
(* behaviour is about one of them, its job, and leaves the others alone:   *)
(* a thread's queries of a mesh, made by a caller, cut from a solid or     *)
(* read from track files; the yields, as channels come and go; a tree of   *)
(* points, built, reweighted and asked; one draw towards a target; or the  *)
(* libraries of spectra, chained and asked for stars.                      *)
(***************************************************************************)
EXTENDS Integers, FiniteSetsExt, SequencesExt

VARIABLES
  job,
  mesh, save, pc, ask, todo, seg, w, going, found,
  channels, isotopes, skipped, requested, chain, minLifetime, grid,
  tree, pts, nodes, split, phase, query, stack, best, scale, nodeW, list, leaf, candidates,
  method, target, values, draws, samples, result,
  made, synth, asked, answer, asks

-----------------------------------------------------------------------------
(* Meshes of three rows and three columns, whose rows span 0 .. 4 in part. *)

Field(x, y, z) == 1 + 2 * x + 3 * y + 5 * z
OverMesh(x, y, z) == [j \in DOMAIN x |-> [i \in DOMAIN x[j] |-> Field(x[j][i], y[j], z)]]

Row == {r \in [1 .. 3 -> {0, 2, 4}] : r[1] <= r[2] /\ r[2] <= r[3] /\ r[1] # r[3]}
EndRow == {<<0, 2, 4>>, <<0, 0, 4>>, <<2, 4, 4>>, <<0, 2, 2>>}
Made(x, lazy) ==
  LET y == <<0, 4, 8>>
  IN [x |-> x, y |-> y, f |-> OverMesh(x, y, 0), type |-> "linear", lazy |-> lazy]
MadeMeshes ==
  {Made(<<a, b, c>>, FALSE) : a, c \in EndRow, b \in Row} \cup {Made(<<a, b, a>>, TRUE) : a \in EndRow, b \in Row}

Solid(p, q) ==
  LET y == <<0, 12, 24>> z == <<0, 2>> x == <<<<p, q, p>>, <<p, p, q>>>>
  IN [x |-> x, y |-> y, z |-> z, f |-> [k \in {1, 2} |-> OverMesh(x[k], y, z[k])], type |-> "linear"]

(* Track files: masses in no order, tracks of unequal length, planes in no *)
(* order and one of another rotation.                                      *)
Earliest == -4
Row2(t, q) == [t |-> t, q |-> q]
Group(feh, vvcrit, d) ==
  [feh |-> feh, vvcrit |-> {vvcrit}, afe |-> {},
   tracks |-> <<[m |-> 12, rows |-> <<Row2(d, 8), Row2(2 + d, 4)>>],
                [m |-> 0, rows |-> <<Row2(0, 2), Row2(2 + d, 6), Row2(6, 10)>>],
                [m |-> 24, rows |-> <<Row2(-2, 12), Row2(0, 8 + 2 * d), Row2(2, 4)>>]>>]
Files == [a |-> <<Group(4, 0, 0), Group(-2, 0, 2), Group(0, 4, 0), Group(0, 0, 0), Group(2, 0, 2)>>]
Asking(lo, hi) == [file |-> "a", r |-> [fehMin |-> lo, fehMax |-> hi, vvcrit |-> 0, afe |-> 0]]
Requests == {Asking(0, 0), Asking(-2, 0), Asking(1, 2), Asking(-1, -1), Asking(-2, 4)}

Xs == -1 .. 5
Questions ==
  {[kind |-> "xIntersect", x |-> x, lo |-> l[1], hi |-> l[2]] : x \in Xs, l \in {<<-100, 100>>, <<3, 6>>, <<4, 4>>}}
  \cup {[kind |-> "yIntersect", y |-> y] : y \in {0, 2, 4, 6, 8}}
  \cup {[kind |-> "yEdgeSlope", x |-> x, left |-> l] : x \in Xs, l \in BOOLEAN}
  \cup {[kind |-> "xIntersectN", x |-> x, y |-> y, n |-> 2] : x \in Xs, y \in {0, 3, 4, 8}}

Tracks == INSTANCE TracksProperties WITH Meshes <- {}
Meshes ==
  MadeMeshes \cup Tracks!TrackMeshes
  \cup {Tracks!ConstZ(Solid(p, q), z, lazy) : p, q \in EndRow, z \in 0 .. 2, lazy \in BOOLEAN}
Mesh == INSTANCE TracksProperties

-----------------------------------------------------------------------------
(* Decays: U to R and an alpha particle; R, short-lived, half to S and     *)
(* half to V and an alpha particle; W to S.  X is tabulated and is nil.    *)
MassNumber == [U |-> 12, R |-> 8, W |-> 8, S |-> 8, V |-> 4, He4 |-> 4, X |-> 16]
Lifetime == [U |-> 9, R |-> 1, W |-> 9]
Whole == 4
To(i, share) == [to |-> i, share |-> share]
Daughters ==
  [U |-> <<To("R", 4), To("He4", 4)>>, R |-> <<To("S", 2), To("V", 2), To("He4", 2)>>, W |-> <<To("S", 4)>>]
Particles == {"He4"}
Lifetimes == {5, 10}

\* Yields are multiples of what makes every share and every interpolation whole.
Table(its, masses, feh, times) ==
  [masses |-> masses, feh |-> feh, isotopes |-> its,
   value |-> [f \in DOMAIN feh |-> [m \in DOMAIN masses |->
                [i \in its |-> 1536 * times[f][m] * (IF i = "R" THEN 3 ELSE IF i = "X" THEN 0 ELSE 1)]]]]
Tables ==
  [a |-> Table({"U", "R", "X"}, <<2, 4, 8>>, <<0, 2, 4>>, <<<<1, 2, 5>>, <<0, 0, 3>>, <<4, 1, 0>>>>),
   b |-> Table({"W", "R", "V"}, <<4, 6>>, <<0, 2>>, <<<<1, 2>>, <<0, 7>>>>)]
Of(t, lo, hi, feh) == [table |-> t, mMin |-> lo, mMax |-> hi, lo |-> feh[1], hi |-> feh[2]]
Descriptors == {Of("a", {1}, {}, <<0, 4>>), Of("b", {}, {16}, <<0, 2>>), Of("b", {20}, {}, <<0, 1>>)}
Lists == {{}, {"S"}, {"U"}, {"He4", "X"}}
FehRange == [lo |-> 1, hi |-> 2]
Installed == TRUE
Bounds == {{3}, {5}}
Threads == {1}
AskedMasses == {1, 7}
AskedFeh == {1, 3}
ProbedMasses == {1, 3, 5, 10}
ProbedFeh == {0, 1, 3}
MaxChannels == 2
Yield == INSTANCE YieldsProperties

-----------------------------------------------------------------------------
(* Trees over five weighted points of a grid of four columns and three     *)
(* rows, some in the same place; and what the constructor refuses.         *)

Dims == {1, 2}
PointsAt(xs, ys, ws) == [i \in DOMAIN xs |-> [x |-> <<xs[i], ys[i]>>, w |-> ws[i], tag |-> i]]
Even == <<<<1, 0>>, <<0, 1>>>>
Skew == <<<<4, 2>>, <<2, 2>>>>
Flat == <<<<0, 0>>, <<0, 1>>>>
Factors == Skew :> <<<<2, 1>>, <<0, 1>>>>
TreeOver(d, n, b, no) == [data |-> d, leafSize |-> n, b |-> b, noSplit |-> no]
Trees ==
  {TreeOver(PointsAt(xs, ys, <<1, 2, 0, 3, 1>>), n, b, no) :
     xs \in {<<2, 0, 1, 3, 1>>, <<1, 1, 1, 1, 1>>, <<2, 3, 0, 2, 1>>, <<2, 1, 3, 0, 2>>},
     ys \in {<<0, 2, 1, 0, 2>>, <<1, 1, 0, 2, 2>>}, n \in {1, 2}, b \in {Even, Skew}, no \in {{}, {2}}}
  \cup {TreeOver(PointsAt(<<1, 0>>, <<1, 2>>, ws), 1, Even, {}) : ws \in {<<0, 0>>, <<1, -1>>, <<2, 1>>}}
  \cup {TreeOver(PointsAt(<<1, 0>>, <<1, 2>>, <<2, 1>>), n, Even, no) : n \in {0, 1}, no \in {{1, 2}}}
  \cup {TreeOver(<< >>, 1, Even, {})}
BlockedMinCount == 4
BlockSize == 2
SampleSize == 3
Gap == 1
OmpThreads == 2
Kernel(q) == IF q >= 40 THEN 0 ELSE 2^((40 - q) \div 4)
Weights == {<<0, 0, 0, 0, 0>>, <<2, 0, 1, 1, 0>>}
Partly == {[d \in {1} |-> 2], [d \in {2} |-> 0]}
Queries ==
  {[kind |-> "neighbors", x |-> x, k |-> k, b |-> b] : x \in {<<1, 1>>, <<3, 0>>} \cup Partly, k \in {0, 2}, b \in {Even, Skew, Flat}}
  \cup {[kind |-> "pdf", x |-> x, b |-> b, relTol |-> rel, absTol |-> abs, metric |-> 0] :
          x \in {<<1, 1>>} \cup Partly, b \in {Even, Skew, Flat}, rel \in {0, 4}, abs \in {0, 20}}
  \cup {[kind |-> "conditional", x |-> 0, x0 |-> x0, G |-> g, b |-> b, massTol |-> tol, metric |-> 0] :
          x0 \in Partly, b \in {Even, Skew, Flat}, g \in {{}, {1}}, tol \in {0, 3}}
Density == INSTANCE KernelDensity

-----------------------------------------------------------------------------
(* Draws of values of mean 7/3, or from a range with none, towards targets *)
(* within a few of them.                                                   *)
Methods == {"stopNearest", "stopBefore", "stopAfter", "stop50", "number", "poisson", "sorted", "none"}
Ranges == {{1, 2, 4}, {}}
Targets == {3, 6, 8}
MostPoisson == 3
Draw == INSTANCE Sampling

-----------------------------------------------------------------------------
(* Files of spectra with gaps; of the cool stars', one [alpha/Fe] has more *)
(* metallicities than another.  50000 K is a log Teff of 36.               *)

Attr(a) == [afe |-> a, micro |-> 2]
SpectraGroup(feh, attr, points) == [feh |-> feh, attr |-> attr, wl |-> <<4, 8, 12, 16>>, points |-> points]
WindGroup(feh, wl, points) == [feh |-> feh, attr |-> << >>, wl |-> wl, points |-> points]
Spectra ==
  [hot |-> [kind |-> "normal", micro |-> 2, groups |->
     {SpectraGroup(0, Attr(0), ({8, 16} \X {32, 40}) \ {<<8, 40>>}), SpectraGroup(8, Attr(0), {8, 16} \X {32, 40})}],
   cool |-> [kind |-> "normal", micro |-> 0, groups |->
     {SpectraGroup(0, [afe |-> 0], {0, 8, 16} \X {16, 24, 32}),
      SpectraGroup(8, [afe |-> 0], ({0, 8, 16} \X {16, 24, 32}) \ {<<0, 24>>, <<0, 32>>, <<8, 32>>, <<16, 16>>}),
      SpectraGroup(0, [afe |-> 4], {0, 8} \X {16, 24}), SpectraGroup(8, [afe |-> 4], {0, 8} \X {16, 24, 32}),
      SpectraGroup(16, [afe |-> 4], {0, 8} \X {16, 24}), SpectraGroup(16, [afe |-> 9], {0, 8} \X {24, 32})}],
   dwarf |-> [kind |-> "wd", micro |-> 0,
     groups |-> {WindGroup(0, <<2, 3, 6, 9>>, ({32, 40} \X {24, 40}) \cup {<<40, 48>>})}],
   wc |-> [kind |-> "WC", micro |-> 0, groups |->
     {WindGroup(0, <<6, 14, 20>>, {<<0, 40>>, <<8, 40>>, <<8, 48>>}), WindGroup(8, <<4, 10, 14>>, {<<0, 40>>, <<16, 48>>})}],
   h60 |-> [kind |-> "WNLH60", micro |-> 0, groups |->
     {WindGroup(0, <<6, 14, 20>>, {0, 8} \X {32, 40}), WindGroup(8, <<6, 10>>, {<<0, 32>>, <<8, 32>>, <<8, 40>>})}],
   h20 |-> [kind |-> "WNLH20", micro |-> 0, groups |->
     {WindGroup(0, <<6, 14, 20>>, {<<0, 32>>, <<8, 32>>, <<0, 40>>}), WindGroup(16, <<6, 10>>, {<<8, 32>>, <<8, 40>>})}]]

ChainOf(names, lo, hi, afe, clamp) ==
  [names |-> names, fehMin |-> lo, fehMax |-> hi, afe |-> afe, micro |-> << >>, range |-> << >>, nWl |-> 0, tClamp |-> clamp]
Chains ==
  {ChainOf(<<"hot", "cool", "h60", "dwarf", "wc", "h20">>, 0, 8, 0, clamp) : clamp \in BOOLEAN}
  \cup {ChainOf(<<"cool">>, lo, 16, afe, TRUE) : lo \in {0, 16}, afe \in {0, 2, 4}}
  \cup {ChainOf(<<"cool", "hot">>, 4, 4, 0, FALSE), ChainOf(<<"dwarf", "wc">>, 0, 0, 0, TRUE), ChainOf(<<"h20", "h60">>, 0, 8, 0, TRUE)}
  \cup {ChainOf(<< >>, 0, 0, 0, TRUE), ChainOf(<<"hot">>, 0, 0, 4, TRUE)}
  \cup {[ChainOf(<<"hot", "cool">>, 0, 8, 0, TRUE) EXCEPT !.micro = micro] : micro \in {<<2>>, <<2, 0>>, <<1, 0>>}}
  \cup {[ChainOf(<<"cool", "dwarf">>, 0, 8, 0, TRUE) EXCEPT !.range = range, !.nWl = 4] : range \in {<< >>, <<1, 13>>}}

Star(logg, t) == [m |-> 0, l |-> 4 * t - logg, t |-> t, h |-> 7, he |-> 2, nitrogen |-> FALSE, wind |-> "calm", rt |-> 0]
Stripped(t, h, he, wind) ==
  [m |-> 12, l |-> 4 * t, t |-> t, h |-> h, he |-> he, nitrogen |-> h = 3, wind |-> wind, rt |-> IF wind = "blows" THEN 5 ELSE 0]
StarQueries ==
  {[star |-> Star(p[1], p[2]), feh |-> feh] : feh \in {-1, 3, 8},
     p \in {<<-3, 24>>, <<4, 18>>, <<8, 29>>, <<8, 37>>, <<4, 12>>, <<19, 37>>, <<36, 30>>, <<44, 46>>, <<2, 46>>, <<4, 32>>}}
  \cup {[star |-> Stripped(t, c[1], c[2], "blows"), feh |-> feh] :
          t \in {30, 37, 40, 44}, c \in {<<7, 2>>, <<2, 6>>, <<3, 1>>}, feh \in {3, 12}}
  \cup {[star |-> Stripped(36, 2, 6, wind), feh |-> 0] : wind \in {"calm", "invalid"}}
Synthesis ==
  INSTANCE SpecsynLibChained WITH Registry <- Spectra, Defaults <- [afe |-> 0, cfe |-> 0, micro |-> 1, r |-> 0],
    LogTeffHotMin <- 36, LogMassMin <- 5, Requests <- Chains, Queries <- StarQueries, MaxAsks <- 2, Nudge <- 1

-----------------------------------------------------------------------------
meshVars == <<mesh, save, pc, ask, todo, seg, w, going, found>>
yieldVars == <<channels, isotopes, skipped, requested, chain, minLifetime, grid>>

densityVars == <<tree, pts, nodes, split, phase, query, stack, best, scale, nodeW, list, leaf, candidates>>
drawVars == <<method, target, values, draws, samples, result>>
spectraVars == <<made, synth, asked, answer, asks>>

NoMesh == mesh = "none" /\ save = "none" /\ pc = "none" /\ Mesh!Reset
NoYields == channels = << >> /\ isotopes = {} /\ skipped = {} /\ requested = {} /\ chain = "none" /\ minLifetime = 0 /\ grid = "none"
NoDensity ==
  /\ tree = "none" /\ pts = "none" /\ nodes = "none" /\ split = "none" /\ phase = "none" /\ query = "none" /\ stack = "none"
  /\ best = "none" /\ scale = "none" /\ nodeW = "none" /\ list = "none" /\ leaf = "none" /\ candidates = "none"
NoDraw == method = "none" /\ target = 0 /\ values = "none" /\ draws = "none" /\ samples = "none" /\ result = "none"
NoSpectra == made = "none" /\ synth = "none" /\ asked = "none" /\ answer = "none" /\ asks = 0

Init ==
  \/ job = "mesh" /\ Mesh!Init /\ NoYields /\ NoDensity /\ NoDraw /\ NoSpectra
  \/ job = "yields" /\ Yield!Init /\ NoMesh /\ NoDensity /\ NoDraw /\ NoSpectra
  \/ job = "density" /\ Density!Init /\ NoMesh /\ NoYields /\ NoDraw /\ NoSpectra
  \/ job = "draw" /\ Draw!Init /\ NoMesh /\ NoYields /\ NoDensity /\ NoSpectra
  \/ job = "spectra" /\ Synthesis!Init /\ NoMesh /\ NoYields /\ NoDensity /\ NoDraw

Next ==
  /\ UNCHANGED job
  /\ \/ job = "mesh" /\ Mesh!Next /\ UNCHANGED <<yieldVars, densityVars, drawVars, spectraVars>>
     \/ job = "yields" /\ Yield!Next /\ UNCHANGED <<meshVars, densityVars, drawVars, spectraVars>>
     \/ job = "density" /\ Density!Next /\ UNCHANGED <<meshVars, yieldVars, drawVars, spectraVars>>
     \/ job = "draw" /\ Draw!Next /\ UNCHANGED <<meshVars, yieldVars, densityVars, spectraVars>>
     \/ job = "spectra" /\ Synthesis!Next /\ UNCHANGED <<meshVars, yieldVars, densityVars, drawVars>>

Spec == Init /\ [][Next]_<<job, meshVars, yieldVars, densityVars, drawVars, spectraVars>>

-----------------------------------------------------------------------------
\* Whatever a thread asked of a mesh before, a query finds every crossing, in order
\* (Mesh2DGrid's queries).
CrossingsComplete == job = "mesh" => Mesh!CrossingsComplete
\* What yLim reads behind the arrays leaves its result right (Mesh2DGrid::yLim).
LateEntriesRight == job = "mesh" => Mesh!LateEntriesRight
\* What is interpolated from the crossings is the field the mesh was given
\* (Mesh2DInterpolator's evaluations).
FieldReproduced == job = "mesh" => Mesh!FieldReproduced
\* A mesh read from track files lives and evolves as the files say (Tracks3D, Tracks2D).
TracksAsRecorded == job = "mesh" => Mesh!TracksAsRecorded
\* Isotopes, decays and answers are those of the tables (Yields::rebuildYieldGrid).
YieldsRight == job = "yields" => Yield!YieldsRight
\* A tree of points is sound and its searches find the nearest (KDTree::search).
SearchesRight == job = "density" => Density!SearchesRight
\* Densities and conditionals are within their tolerances (KernelDensity's evaluations).
EstimatesRight == job = "density" => Density!EstimatesRight
\* A sample's total is what the sampling policy promises (PDF::drawTarget).
PolicyKept == job = "draw" => Draw!PolicyKept
\* The libraries of spectra cover what was asked for, and every star has the spectrum of
\* the most reliable of its kind (SpecsynLibChained::spec).
SpectraRight == job = "spectra" => Synthesis!SpectraRight
=============================================================================
