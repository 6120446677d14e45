---------------------------- MODULE KernelDensity ----------------------------
(***************************************************************************)
(* kden::KernelDensity: a KDTree whose points have weights, and its        *)
(* evaluations: the density at a point, and the points that matter to a    *)
(* conditional density.  Both refine a list of nodes until what is not yet *)
(* known is within a tolerance.  A weight is a number of parts, of which   *)
(* scale make one; a kernel's value is a whole number that falls as the    *)
(* distance grows.                                                         *)
(***************************************************************************)
EXTENDS KDTree

CONSTANTS
  Kernel(_),    \* of four times the squared distance: exp(-r2), scaled; zero when it underflows
  Weights,      \* the weight arrays that are put in place of the normalized ones
  Queries       \* what is asked of the estimate

VARIABLES
  scale,        \* the total of the weights when they were last normalized
  nodeW,        \* nodeW_
  list,         \* [slots, free]: the RefinementList
  leaf,         \* leafSum, leafMass
  candidates    \* candidates, and in the end the points kept

refineVars == <<list, leaf, candidates>>
vars == <<treeVars, phase, query, searchVars, scale, nodeW, refineVars>>

-----------------------------------------------------------------------------
(* Weights.                                                                *)

TotalOf(p) == Sum(DOMAIN p, LAMBDA i : p[i].w)
\* normalizeWeightArray
Normalizable(p) == (\A i \in DOMAIN p : p[i].w >= 0) /\ (\E i \in DOMAIN p : p[i].w > 0)

AccumulateNode(w, idx) ==
  [w EXCEPT ![idx] = IF IsLeaf(idx) THEN Sum(PointsOf(nodes[idx]), LAMBDA i : pts[i].w)
                     ELSE w[Left(idx)] + w[Right(idx)]]
\* From the last level up.
SetNodeWeights ==
  FoldLeft(LAMBDA w, idx : AccumulateNode(w, idx),
           [idx \in DOMAIN nodes |-> 0], [k \in 1 .. NNodes |-> NNodes - k])

Create ==
  /\ phase = "created"
  /\ IF Normalizable(pts) /\ Valid(tree)
     THEN /\ scale' = TotalOf(pts) /\ phase' = "building"
          /\ nodes' = Rooted
     ELSE phase' = "thrown" /\ UNCHANGED <<scale, nodes>>
  /\ UNCHANGED <<tree, pts, split, query, searchVars, nodeW, refineVars>>

Split == BuildStep /\ UNCHANGED <<scale, nodeW, refineVars>>

Built ==
  /\ phase = "building" /\ Cardinality(split) = NNodes
  /\ nodeW' = SetNodeWeights
  /\ phase' = "ready"
  /\ UNCHANGED <<treeVars, query, searchVars, scale, refineVars>>

\* The weights are changed through a view of them; reweight must follow.
ChangeWeights(w) ==
  /\ phase = "ready" /\ Len(w) = Size
  /\ pts' = [i \in DOMAIN pts |-> [pts[i] EXCEPT !.w = w[i]]]
  /\ tree' = [tree EXCEPT !.data = pts']
  /\ phase' = "changed"
  /\ UNCHANGED <<nodes, split, query, searchVars, scale, nodeW, refineVars>>

Reweight ==
  /\ phase = "changed"
  /\ IF Normalizable(pts)
     THEN scale' = TotalOf(pts) /\ nodeW' = SetNodeWeights /\ phase' = "ready"
     ELSE phase' = "thrown" /\ UNCHANGED <<scale, nodeW>>
  /\ UNCHANGED <<treeVars, query, searchVars, refineVars>>

-----------------------------------------------------------------------------
(* RefinementList: slots, those set free holding nothing.                  *)

Empty == [slots |-> << >>, free |-> << >>]
Estimate(l) == Sum(DOMAIN l.slots, LAMBDA s : l.slots[s].est)
Uncertainty(l) == Sum(DOMAIN l.slots, LAMBDA s : l.slots[s].err)
Worst(l) == Min({s \in DOMAIN l.slots : \A t \in DOMAIN l.slots : l.slots[s].err >= l.slots[t].err})
NoneUncertain(l) == \A s \in DOMAIN l.slots : l.slots[s].err = 0

Replace(l, slot, entry) == [l EXCEPT !.slots[slot] = entry]
Insert(l, entry) ==
  IF l.free = << >> THEN [l EXCEPT !.slots = Append(@, entry)]
  ELSE [Replace(l, Last(l.free), entry) EXCEPT !.free = Front(@)]
\* Seeded fault: what the slot held is still summed
EraseKeepingTerms(l, slot) == [l EXCEPT !.free = Append(@, slot)]

Erase(l, slot) == [l EXCEPT !.slots[slot] = [node |-> 0, est |-> 0, err |-> 0], !.free = Append(@, slot)]

-----------------------------------------------------------------------------
(* What a node adds: a leaf its points, another node an estimate and an    *)
(* uncertainty, which takes the slot of its parent, if that is given.      *)

Metric == query.metric
At(i) == pts[i].w * Kernel(4 * Dist2(Metric, query.x, pts[i].x))
Closest(idx) == Kernel(FourLower(Metric, query.x, nodes[idx].lo, nodes[idx].hi))
Farthest(idx) == Kernel(FourUpper(Metric, query.x, nodes[idx].lo, nodes[idx].hi))

\* pdf: halfway between the bounds, and half the way between them, twice over.
Term(idx) ==
  IF query.kind = "pdf"
  THEN [node |-> idx, est |-> nodeW[idx] * (Closest(idx) + Farthest(idx)),
        err |-> nodeW[idx] * (Closest(idx) - Farthest(idx))]
  ELSE [node |-> idx, est |-> nodeW[idx] * Farthest(idx), err |-> nodeW[idx] * Closest(idx)]

\* st is [list, leaf, candidates]; slot is zero for none.
Add(st, idx, slot) ==
  IF IsLeaf(idx)
  THEN LET at == {[w |-> At(i), i |-> i] : i \in PointsOf(nodes[idx])}
           mass == Sum(at, LAMBDA c : c.w)
       IN [list |-> IF slot = 0 THEN st.list ELSE Erase(st.list, slot),
           leaf |-> st.leaf + (IF query.kind = "pdf" THEN 2 * mass ELSE mass),
           candidates |-> st.candidates \cup {c \in at : c.w > 0}]
  ELSE [st EXCEPT !.list = IF slot = 0 THEN Insert(@, Term(idx)) ELSE Replace(@, slot, Term(idx))]

Refining == [list |-> list, leaf |-> leaf, candidates |-> candidates]
RefinedTo(st) == list' = st.list /\ leaf' = st.leaf /\ candidates' = st.candidates

\* The most uncertain node gives way to its children.
Opened ==
  LET slot == Worst(list) idx == list.slots[slot].node
  IN Add(Add(Refining, Left(idx), slot), Right(idx), 0)

Enough ==
  IF query.kind = "pdf"
  THEN LET est == leaf + Estimate(list) err == Uncertainty(list)
       IN 8 * err < query.relTol * est \/ est + err < 2 * query.absTol \/ NoneUncertain(list)
  ELSE 16 * Uncertainty(list) <= query.massTol * (leaf + Estimate(list))

Refine ==
  /\ phase = "refining" /\ ~Enough
  /\ RefinedTo(Opened)
  /\ UNCHANGED <<treeVars, phase, query, searchVars, scale, nodeW>>

-----------------------------------------------------------------------------
(* The evaluations.                                                        *)

\* The root goes in first.
Begin(q, metric, x) ==
  /\ query' = [q EXCEPT !.metric = metric, !.x = x]
  /\ phase' = "starting"

Refuse(q) == query' = q /\ phase' = "thrown"

Pdf(q) ==
  /\ phase = "ready" /\ q.kind = "pdf"
  /\ IF Fits(q.b, q.x) /\ HasDet(Fitted(q.b, q.x)) THEN Begin(q, Fitted(q.b, q.x), q.x) ELSE Refuse(q)
  /\ UNCHANGED <<treeVars, searchVars, scale, nodeW, refineVars>>

\* The dimensions x0 leaves open are kept, those of G integrated over.
Fixed(q) == DOMAIN q.x0 \ q.G
KeptDims(q) == (Dims \ q.G) \ DOMAIN q.x0
MPrime(q) == Reduce(q.b, q.G)
CanCondition(q) ==
  /\ DOMAIN q.b = Dims /\ q.G \subseteq Dims
  /\ Fixed(q) # {} /\ KeptDims(q) # {}
  /\ CanReduce(q.b, q.G) /\ CanReduce(q.b, q.G \cup KeptDims(q))
  /\ CanReduce(MPrime(q), KeptDims(q))

Conditional(q) ==
  /\ phase = "ready" /\ q.kind = "conditional"
  /\ IF CanCondition(q)
     THEN Begin(q, Reduce(q.b, q.G \cup KeptDims(q)), [d \in Fixed(q) |-> q.x0[d]])
     ELSE Refuse(q)
  /\ UNCHANGED <<treeVars, searchVars, scale, nodeW, refineVars>>

Start ==
  /\ phase = "starting" /\ phase' = "refining"
  /\ RefinedTo(Add([list |-> Empty, leaf |-> 0, candidates |-> {}], 0, 0))
  /\ UNCHANGED <<treeVars, query, searchVars, scale, nodeW>>

PdfDone ==
  /\ phase = "refining" /\ query.kind = "pdf" /\ Enough
  /\ leaf' = leaf + Estimate(list) /\ phase' = "answered"
  /\ UNCHANGED <<treeVars, query, searchVars, scale, nodeW, list, candidates>>

\* The lightest candidates go, as many as the other half of the tolerance lets.
Lightest(k) ==
  LET before(c, d) == c.w < d.w \/ (c.w = d.w /\ c.i < d.i)
  IN ToSet(SubSeq(SetToSortSeq(candidates, before), 1, k))
Dropped ==
  LET fits == {k \in 0 .. Cardinality(candidates) :
                 16 * Sum(Lightest(k), LAMBDA c : c.w) <= query.massTol * (leaf + Estimate(list))}
  IN Lightest(Max(fits))
\* A point is moved along the one kept dimension by K (x_F - x0_F), K being m_RF / m_RR;
\* where to is given in units of 1 / m_RR.
Shifted(q, c) ==
  LET m == MPrime(q) r == Max(KeptDims(q))
  IN [w |-> c.w, i |-> c.i,
      y |-> m[r][r] * pts[c.i].x[r] + Sum(Fixed(q), LAMBDA f : m[r][f] * (pts[c.i].x[f] - q.x0[f]))]

ConditionalDone ==
  /\ phase = "refining" /\ query.kind = "conditional" /\ Enough
  /\ candidates' = {Shifted(query, c) : c \in candidates \ Dropped}
  /\ phase' = IF candidates' = {} THEN "thrown" ELSE "answered"
  /\ UNCHANGED <<treeVars, query, searchVars, scale, nodeW, list, leaf>>

Search ==
  /\ (\E q \in Queries : Neighbors(q)) \/ PopStack \/ SearchDone
  /\ UNCHANGED <<scale, nodeW, refineVars>>

\* A caller has what it asked for.
Forget ==
  /\ phase = "answered" /\ phase' = "ready"
  /\ query' = "none" /\ stack' = << >> /\ best' = << >>
  /\ list' = Empty /\ leaf' = 0 /\ candidates' = {}
  /\ UNCHANGED <<treeVars, scale, nodeW>>

-----------------------------------------------------------------------------
Init ==
  /\ InitTree /\ phase = "created" /\ nodes = "none"
  /\ scale = 0 /\ nodeW = "none" /\ list = Empty /\ leaf = 0 /\ candidates = {}

Next ==
  \/ Create \/ Split \/ Built \/ (\E w \in Weights : ChangeWeights(w)) \/ Reweight
  \/ (\E q \in Queries : Pdf(q) \/ Conditional(q)) \/ Start \/ Refine \/ PdfDone \/ ConditionalDone
  \/ Search \/ Forget
  \/ (phase = "thrown" /\ UNCHANGED vars)

-----------------------------------------------------------------------------
Exact == Sum(DOMAIN pts, LAMBDA i : At(i))

\* A density is the true one to within a tolerance: off by less than the relative one, or
\* the true one below the absolute one, or exact (KernelDensity::evalPdf; scale is what the
\* weights were divided by, before and after they change).
PdfWithinTolerance ==
  phase = "answered" /\ query.kind = "pdf" =>
    /\ scale = TotalOf(pts)
    /\ LET off == Abs(leaf - 2 * Exact)
       IN 8 * off < query.relTol * leaf \/ Exact < query.absTol \/ off = 0

\* A conditional density loses no more of the weight than it may, and what it keeps is
\* right: for every value of the kept dimension, a kept point is as far from there and the
\* fixed values together as its weight and its place in the new estimate say
\* (KernelDensity::selectConditional, conditionalPoints).
ConditionalKeepsMass ==
  phase = "answered" /\ query.kind = "conditional" =>
    LET r == Max(KeptDims(query)) m == MPrime(query)
        Whole(y) == [d \in DOMAIN m |-> IF d = r THEN y ELSE query.x0[d]]
    IN /\ 8 * (Exact - Sum(candidates, LAMBDA c : c.w)) <= query.massTol * Exact
       /\ \A c \in candidates :
            /\ c.w = At(c.i)
            /\ \A y \in 0 .. 2 : m[r][r] * (Dist2(m, Whole(y), pts[c.i].x) - Dist2(Metric, query.x, pts[c.i].x))
                               = (m[r][r] * y - c.y) * (m[r][r] * y - c.y)

\* Both evaluations, and the tree and its search (KernelDensity).
EstimatesRight == PdfWithinTolerance /\ ConditionalKeepsMass
SearchesRight == TreeSound /\ NearestFound
=============================================================================
