-------------------------- MODULE SpecsynLibChained --------------------------
(***************************************************************************)
(* Several libraries of spectra as one synthesizer                         *)
(* (specsyn::SpecsynLibChained): a star is of one of three types of grid,  *)
(* and the libraries of its type are tried in order, first where the star  *)
(* is, then where each of them ends, and at last the nearest that the last *)
(* one has.                                                                *)
(*   A request is [names, fehMin, fehMax, afe, micro, range, nWl, tClamp]: *)
(*     micro and range are << >> where nothing is asked for.               *)
(*   The synthesizer is [request, libs, wl, logTeff, logg], with the       *)
(*     libraries, temperatures and gravities of each type.                 *)
(*   An answer is [refused, type, lib, stage, cells].                      *)
(***************************************************************************)
EXTENDS SpecsynLib

CONSTANTS
  Requests,
  Queries,      \* [star, feh]
  MaxAsks,      \* queries of one synthesizer, a bound
  Nudge         \* what a clamped log g is moved inwards by

VARIABLES
  made,         \* whether it was constructed: "no", "refused" if that threw, or "yes"
  synth,        \* the synthesizer
  asked,        \* the last query
  answer,
  asks          \* how many queries there were

spectraVars == <<made, synth, asked, answer, asks>>

GridTypes == {"wrGrid", "wdGrid", "normalGrid"}
GridTypeOf(lib) == IF IsWR(lib) THEN "wrGrid" ELSE IF lib.kind = "wd" THEN "wdGrid" ELSE "normalGrid"

-----------------------------------------------------------------------------
(* The constructor                                                         *)

Accepted(r) == r.names # << >> /\ (r.micro # << >> => Len(r.micro) = Len(r.names))

Want(r, i) ==
  [Defaults EXCEPT !.afe = r.afe, !.micro = IF r.micro = << >> THEN Registry[r.names[i]].micro ELSE r.micro[i]]

\* Every library on its own wavelengths; {} if one of them cannot be made.
AllLibs(r) ==
  FoldLeft(LAMBDA some, i : {Append(s, l) : s \in some, l \in Libraries(Registry[r.names[i]], Want(r, i), r.fehMin, r.fehMax)},
           {<< >>}, [i \in DOMAIN r.names |-> i])

Logspace(lo, hi, n) == [k \in 1 .. n |-> lo + ((k - 1) * (hi - lo)) \div (n - 1)]
BuildChainedWlGrid(r, libs) ==
  IF r.range # << >> THEN Logspace(r.range[1], r.range[2], r.nWl)
  ELSE IF r.nWl # 0
  THEN Logspace(Min({libs[i].wl[1] : i \in DOMAIN libs}), Max({Last(libs[i].wl) : i \in DOMAIN libs}), r.nWl)
  ELSE MakeCommonWlGrid([i \in DOMAIN libs |-> libs[i].wl])

NodesOf(libs, axis) == UNION {ToSet(lib.axes[axis]) : lib \in ToSet(libs)}
WNLTeffs(libs) == [b \in WNLTypes |-> NodesOf(SelectSeq(libs, LAMBDA l : l.kind = b), 3)]
NormalTeffs(libs) == NodesOf(SelectSeq(libs, LAMBDA l : l.kind = "normal"), 3)

\* Seeded fault: each library keeps its own range.
KeepOwnRanges(lib, libs) == lib

\* propagateWNLTeffRanges: a library takes for its own only stars that the chain does.
TakeRanges(lib, libs) ==
  IF IsWR(lib) THEN [lib EXCEPT !.ranges = WNLTeffs(libs), !.top = NormalTeffs(libs)] ELSE lib

Chained(r, libs) ==
  LET wl == BuildChainedWlGrid(r, libs)
      ready == [i \in DOMAIN libs |-> [TakeRanges(libs[i], libs) EXCEPT !.wl = wl]]
      Of(t) == SelectSeq(ready, LAMBDA l : GridTypeOf(l) = t)
      Clamps(axis, t) == IF r.tClamp /\ (axis = 2 => t # "wrGrid") THEN NodesOf(Of(t), axis) ELSE {}
  IN [request |-> r, wl |-> wl,
      libs |-> [wrGrid |-> Of("wrGrid"), wdGrid |-> Of("wdGrid"), normalGrid |-> Of("normalGrid")],
      wnlTeffs |-> WNLTeffs(libs), normalTeffs |-> NormalTeffs(libs),
      logTeff |-> [t \in GridTypes |-> Clamps(3, t)], logg |-> [t \in GridTypes |-> Clamps(2, t)]]

Construct(r) ==
  /\ made = "no"
  /\ IF Accepted(r) /\ AllLibs(r) # {}
     THEN made' = "yes" /\ \E libs \in AllLibs(r) : synth' = Chained(r, libs)
     ELSE made' = "refused" /\ UNCHANGED synth
  /\ UNCHANGED <<asked, answer, asks>>

-----------------------------------------------------------------------------
(* spec()                                                                  *)

Above(S, v) == S # {} /\ v > Max(S)
AboveFloor(S, v) == S # {} /\ v > Min(S)

ClassifyGridType(c, s) ==
  LET aboveNormal == Above(c.logTeff["normalGrid"], s.t) \/ Above(c.logg["normalGrid"], Logg(s))
      withinWDFloor == AboveFloor(c.logTeff["wdGrid"], s.t) /\ AboveFloor(c.logg["wdGrid"], Logg(s))
  IN IF GetWRType(s, c.wnlTeffs, c.normalTeffs) # "None" THEN "wrGrid"
     ELSE IF aboveNormal /\ withinWDFloor THEN "wdGrid" ELSE "normalGrid"

ClampNormalLogTeffFloor(c, s, type) ==
  IF type = "normalGrid" /\ c.logTeff[type] # {} THEN [s EXCEPT !.t = Max({@, Min(c.logTeff[type])})] ELSE s

\* clampFehForLibrary and propsWithClampedLogg: log g is changed by way of the mass, to
\* just inside what the library has.
ClampedFeh(lib, feh) == IF lib.kind = "wd" THEN feh ELSE Clamped(ToSet(lib.axes[1]), feh)
WithClampedLogg(lib, s) ==
  LET target == IF IsWR(lib) THEN Logg(s) ELSE Clamped(ToSet(lib.axes[2]), Logg(s))
      inwards == IF target > Logg(s) THEN Nudge ELSE IF target < Logg(s) THEN -Nudge ELSE 0
  IN [s EXCEPT !.m = @ + target - Logg(s) + inwards]

Refusal(type, lib, stage) == [refused |-> TRUE, type |-> type, lib |-> lib, stage |-> stage, cells |-> {}]
Served(type, lib, stage, cells) == [refused |-> FALSE, type |-> type, lib |-> lib, stage |-> stage, cells |-> cells]
Outcome(r, type, lib, stage) == IF r.throws THEN Refusal(type, lib, stage) ELSE Served(type, lib, stage, r.cells)

\* An attempt [stage, i] at one library of the type, after those before it had nothing:
\* try is [libs, answers].
TryFrom(try, a, type, r) ==
  [libs |-> [try.libs EXCEPT ![a.i] = r.lib],
   answers |-> IF ~r.throws /\ r.cells = {} THEN {} ELSE {Outcome(r, type, a.i, a.stage)}]
Try(try, a, s, feh, type) ==
  LET lib == try.libs[a.i]
  IN IF try.answers # {} THEN try
     ELSE TryFrom(try, a, type, IF a.stage = "true" THEN SpecOf(lib, s, feh)
                                ELSE SpecOf(lib, WithClampedLogg(lib, s), ClampedFeh(lib, feh)))
OrForced(try, s, feh, type) ==
  LET end == Last(try.libs)
  IN IF try.answers # {} THEN try
     ELSE [try EXCEPT !.answers =
             {Outcome(SpecForce(end, WithClampedLogg(end, s), ClampedFeh(end, feh)), type, Len(try.libs), "forced")}]

\* The libraries as they are left, and the answer.
SpecByChain(libs, s, feh, type) ==
  LET Pass(stage) == [i \in DOMAIN libs |-> [stage |-> stage, i |-> i]]
      try == FoldLeft(LAMBDA t, a : Try(t, a, s, feh, type), [libs |-> libs, answers |-> {}],
                      Pass("true") \o Pass("clamped"))
  IN OrForced(try, s, feh, type)

AnswerWith(type, result) == synth' = [synth EXCEPT !.libs[type] = result.libs] /\ answer' \in result.answers
Spectrum(q) ==
  /\ made = "yes" /\ asks < MaxAsks
  /\ LET type == ClassifyGridType(synth, q.star) IN
       IF synth.libs[type] = << >> THEN answer' = Refusal(type, 0, "true") /\ UNCHANGED synth
       ELSE AnswerWith(type, SpecByChain(synth.libs[type], ClampNormalLogTeffFloor(synth, q.star, type), q.feh, type))
  /\ asked' = q /\ asks' = asks + 1 /\ UNCHANGED made

\* The simulation is given another synthesizer.
Replace ==
  /\ made = "refused" \/ asks = MaxAsks
  /\ made' = "no" /\ synth' = "none" /\ asked' = "none" /\ answer' = "none" /\ asks' = 0

Init == made = "no" /\ synth = "none" /\ asked = "none" /\ answer = "none" /\ asks = 0
Next == (\E r \in Requests : Construct(r)) \/ (\E q \in Queries : Spectrum(q)) \/ Replace

-----------------------------------------------------------------------------
(* What the libraries promise.                                             *)

\* The points of an axis on either side of v; v alone if it is one of them.
Around(S, v) ==
  IF v \in S THEN {v}
  ELSE {x \in S : (x < v /\ \A y \in S : y < v => y <= x) \/ (x > v /\ \A y \in S : y > v => y >= x)}
Side(lib, i, v) == Around(ToSet(lib.axes[i]), v)
Beside(lib, d) == {p \in lib.points : \A i \in 1 .. 3 : p[i] \in Side(lib, i, d[i])}
Moment(cells, i, v) == MapThenSumSet(LAMBDA c : c[2] * (c[1][i] - v), cells)

\* The cells a library has for a star; none where its grid ends.
Inside(lib, s, feh) ==
  /\ OnAxis(lib, 1, FehOf(lib, feh)) /\ OnAxis(lib, 3, s.t) /\ (IsWR(lib) \/ OnAxis(lib, 2, Logg(s)))
Has(lib, s, feh) == IF Inside(lib, s, feh) THEN Beside(lib, Place(lib, s, feh)) ELSE {}

\* The radii that a library has at every corner of a Wolf-Rayet star.
CommonRadii(lib, s, feh) ==
  {r \in ToSet(lib.axes[2]) : \A f \in Side(lib, 1, feh), t \in Side(lib, 3, s.t) : <<f, r, t>> \in lib.points}

\* Cells are blended around the star, and its place is their mean; a Wolf-Rayet star is at
\* the radius nearest its own that all its corners have.
BlendRight(lib, s, feh, cells) ==
  LET d == Place(lib, s, feh)
      corners == Side(lib, 1, d[1]) \X Side(lib, 2, d[2]) \X Side(lib, 3, d[3])
  IN /\ Firsts(cells) = Has(lib, s, feh) /\ cells # {}
     /\ \A c \in cells : c[2] > 0
     /\ corners \subseteq lib.points => \A i \in 1 .. 3 : Moment(cells, i, d[i]) = 0
     /\ IsWR(lib) => \A r \in CommonRadii(lib, s, feh) : \A p \in Firsts(cells) :
                       /\ p[2] \in CommonRadii(lib, s, feh)
                       /\ Abs(p[2] - RawLogRt(lib, s)) <= Abs(r - RawLogRt(lib, s))

\* What a library has nearest to a star, in the rows and columns around it.
ForcedRight(lib, s, feh, cells) ==
  LET rows == Side(lib, 1, FehOf(lib, feh))
      Rivals(p) == {q \in lib.points : q[1] = p[1] /\ (IsWR(lib) \/ q[3] = p[3])}
      Off(p) == IF IsWR(lib) THEN (p[2] - RawLogRt(lib, s))^2 + (p[3] - s.t)^2 ELSE Abs(p[2] - Logg(s))
  IN /\ cells # {} /\ Firsts(cells) \subseteq lib.points /\ \A c \in cells : c[2] > 0
     /\ \A p \in Firsts(cells) : /\ p[1] \in rows
                                 /\ IsWR(lib) \/ p[3] \in Side(lib, 3, s.t)
                                 /\ \A q \in Rivals(p) : Off(p) <= Off(q)

\* A star's own libraries are those of its type, for Wolf-Rayet stars those of its kind.
Suits(c, lib, s) == IsWR(lib) => lib.kind = GetWRType(s, c.wnlTeffs, c.normalTeffs)

\* The star with its log g where the library ends, if it is beyond.
AtTheEdge(lib, s) ==
  LET ends == ToSet(lib.axes[2])
  IN [s EXCEPT !.m = IF IsWR(lib) \/ OnAxis(lib, 2, Logg(s)) THEN @
                     ELSE @ + Clamped(ends, Logg(s)) - Logg(s) + (IF Logg(s) < Min(ends) THEN Nudge ELSE -Nudge)]
AtTheEnd(lib, feh) == Nearest(Min(ToSet(lib.axes[1])) .. Max(ToSet(lib.axes[1])), feh)

\* If the star's kind has libraries, it is served by the first that has cells around it, or
\* has where it ends: the comments on spec() give both the true places of all libraries,
\* and an earlier library's end, precedence over the other, and either is taken here.  If
\* none has, it is served by what the last has nearest, and refused only where there is
\* nothing of its kind at all or its wind is not a number.
AnswersRight ==
  asks > 0 /\ synth.libs[answer.type] # << >> =>
    LET libs == synth.libs[answer.type]
        s == ClampNormalLogTeffFloor(synth, asked.star, answer.type)
        lib == libs[answer.lib]
        True == {i \in DOMAIN libs : Suits(synth, libs[i], s) /\ Has(libs[i], s, asked.feh) # {}}
        Edge == {i \in DOMAIN libs :
                   /\ Suits(synth, libs[i], s)
                   /\ Has(libs[i], AtTheEdge(libs[i], s), AtTheEnd(libs[i], asked.feh)) # {}}
        truly == True # {} /\ answer.lib = Min(True) /\ BlendRight(lib, s, asked.feh, answer.cells)
        clamped == /\ Edge # {} /\ answer.lib = Min(Edge \cup True)
                   /\ BlendRight(lib, AtTheEdge(lib, s), AtTheEnd(lib, asked.feh), answer.cells)
    IN IF answer.type = "wrGrid" /\ s.wind = "invalid" THEN answer.refused
       ELSE IF True \cup Edge # {} THEN ~answer.refused /\ (truly \/ clamped)
       ELSE IF answer.refused
       THEN LET end == Last(libs) feh == AtTheEnd(end, asked.feh) IN
            \/ ~IsWR(end) /\ ~OnAxis(end, 3, s.t)
            \/ ~\E p \in end.points : /\ p[1] \in Side(end, 1, FehOf(end, feh))
                                      /\ IsWR(end) \/ p[3] \in Side(end, 3, s.t)
       ELSE answer.lib = Len(libs) /\ ForcedRight(lib, AtTheEdge(lib, s), AtTheEnd(lib, asked.feh), answer.cells)

\* If the groups of some [alpha/Fe] on offer cover the metallicities of the request, so
\* does the library, without an empty row among them.
Covering(groups, lo, hi) ==
  /\ \E g \in groups : g.feh <= lo
  /\ \E g \in groups : g.feh >= hi
LibraryCovers(file, lib, want, lo, hi) ==
  LET offers == FindAfeValues(file, want)
      At(a) == {g \in file.groups : Agrees(g, [want EXCEPT !.afe = a])}
      rows == ToSet(lib.axes[1])
  IN (Within(offers, want.afe) /\ \E a \in offers : Covering(At(a), lo, hi)) \/ Covering(At(want.afe), lo, hi) =>
       /\ \A x \in lo .. hi : Within(rows, x)
       /\ \A x \in rows \cap lo .. hi : \E p \in lib.points : p[1] = x

\* Wavelengths rise, from the first of any library to the last; wherever a library alone
\* reaches, all of its own are kept.
WavelengthsMerged(grids, wl) ==
  LET Reaches(i, x) == grids[i][1] <= x /\ x <= Last(grids[i])
  IN /\ \A k \in 1 .. Len(wl) - 1 : wl[k] < wl[k + 1]
     /\ wl[1] = Min({grids[i][1] : i \in DOMAIN grids}) /\ Last(wl) = Max({Last(grids[i]) : i \in DOMAIN grids})
     /\ \A i \in DOMAIN grids : \A x \in ToSet(grids[i]) :
          (\A j \in DOMAIN grids : Reaches(j, x) => grids[j] = grids[i]) => x \in ToSet(wl)

LibrariesRight ==
  made = "yes" =>
    LET r == synth.request
        own(t) == SelectSeq([i \in DOMAIN r.names |-> i], LAMBDA i : (Registry[r.names[i]].kind = "normal") = (t = "normalGrid"))
        normal == own("normalGrid")
    IN /\ \A k \in DOMAIN normal :
            LibraryCovers(Registry[r.names[normal[k]]], synth.libs["normalGrid"][k], Want(r, normal[k]), r.fehMin, r.fehMax)
       /\ r.range = << >> /\ r.nWl = 0 =>
            \E libs \in AllLibs(r) : WavelengthsMerged([i \in DOMAIN libs |-> libs[i].wl], synth.wl)

\* A chain of libraries is as wide as its files allow, and every star whose kind has
\* libraries gets the spectrum of the most reliable one that has any for it
\* (SpecsynLibChained::spec).
SpectraRight == AnswersRight /\ LibrariesRight
=============================================================================
