------------------------------- MODULE KDTree --------------------------------
(***************************************************************************)
(* kden::KDTree: a tree over points held in one array, which building it   *)
(* reorders, node by node and level by level, the nodes of a wide level in *)
(* parallel; and the search for a point's nearest neighbours.  Nodes are   *)
(* numbered from zero, as in the code, points from one.                    *)
(***************************************************************************)
EXTENDS Integers, FiniteSetsExt, SequencesExt

CONSTANTS
  Dims,             \* the dimensions
  Factors,          \* [matrix -> rows]: of each matrix that is not diagonal, a W with W^T W the matrix
  Trees,            \* what is built: [data, leafSize, b, noSplit], the data being points [x, w, tag]
  BlockedMinCount,  \* blockedMinCount
  BlockSize,        \* blockSize
  SampleSize,       \* pivotSampleSize
  Gap,              \* 2 sqrt(pivotSampleSize)
  OmpThreads        \* omp_get_max_threads()

VARIABLES
  tree,     \* what was asked for, a member of Trees; its weights as the caller last set them
  pts,      \* data_
  nodes,    \* nodes_, nodeLo_, nodeHi_
  split,    \* the nodes splitNode is done with
  phase,    \* "created", "building", "ready", a query under way, "answered" or "thrown"
  query,    \* the query
  stack,    \* stack, of a search
  best      \* best, likewise

treeVars == <<tree, pts, nodes, split>>
searchVars == <<stack, best>>

-----------------------------------------------------------------------------
(* kden::Bandwidth: the inverse squared bandwidth of a Gaussian kernel, a  *)
(* symmetric matrix over the dimensions it specifies, [dimension ->        *)
(* [dimension -> number]].  A point to search for is a function of the     *)
(* dimensions it specifies, its other coordinates being NaN.  What is      *)
(* rounded in the code is exact here.                                      *)

Abs(n) == IF n < 0 THEN -n ELSE n
Sum(S, f(_)) == MapThenSumSet(f, S)

Matches(b, x) == DOMAIN x = DOMAIN b
IsDiagonal(b) == \A i, j \in DOMAIN b : i # j => b[i][j] = 0

\* What is left of a Gaussian when one dimension is integrated over.
Without(b, d) ==
  LET rest == DOMAIN b \ {d}
  IN [i \in rest |-> [j \in rest |-> b[i][j] - (b[i][d] * b[d][j]) \div b[d][d]]]

RECURSIVE Reduce(_, _)
Reduce(b, drop) ==
  IF drop = {} THEN b ELSE LET d == Max(drop) IN Reduce(Without(b, d), drop \ {d})

\* The block over the dropped dimensions is positive definite.
RECURSIVE CanReduce(_, _)
CanReduce(b, drop) ==
  drop = {} \/ (LET d == Max(drop) IN b[d][d] > 0 /\ CanReduce(Without(b, d), drop \ {d}))

\* det() > 0
HasDet(b) == CanReduce(b, DOMAIN b)

Dist2(b, x, y) ==
  Sum(DOMAIN b, LAMBDA i : Sum(DOMAIN b, LAMBDA j : b[i][j] * (x[i] - y[i]) * (x[j] - y[j])))

\* BoxBounder: bounds on the distance from x to a point of the box, four times over, since
\* centers and half-widths are halves.
FourLower(b, x, lo, hi) ==
  IF IsDiagonal(b)
  THEN 4 * Sum(DOMAIN b, LAMBDA i : LET gap == Max({lo[i] - x[i], x[i] - hi[i], 0}) IN b[i][i] * gap * gap)
  ELSE Sum(DOMAIN b, LAMBDA k :
         LET row == Factors[b][k]
             offset == Abs(Sum(DOMAIN b, LAMBDA i : row[i] * (2 * x[i] - lo[i] - hi[i])))
             gap == Max({offset - Sum(DOMAIN b, LAMBDA i : Abs(row[i]) * (hi[i] - lo[i])), 0})
         IN gap * gap)

FourUpper(b, x, lo, hi) ==
  IF IsDiagonal(b)
  THEN 4 * Sum(DOMAIN b, LAMBDA i : LET far == Max({Abs(x[i] - lo[i]), Abs(hi[i] - x[i])}) IN b[i][i] * far * far)
  ELSE Sum(DOMAIN b, LAMBDA k :
         LET row == Factors[b][k]
             far == Abs(Sum(DOMAIN b, LAMBDA i : row[i] * (2 * x[i] - lo[i] - hi[i])))
                    + Sum(DOMAIN b, LAMBDA i : Abs(row[i]) * (hi[i] - lo[i]))
         IN far * far)

-----------------------------------------------------------------------------
Size == Len(tree.data)
Left(idx) == 2 * idx + 1
Right(idx) == 2 * idx + 2

NLevels == 1 + Cardinality({k \in 0 .. Size : Size \div 2^k >= tree.leafSize})
NNodes == 2^NLevels - 1
Level(k) == 2^k - 1 .. 2^(k + 1) - 2

IsLeaf(idx) == nodes[idx].dim = 0
PointsOf(node) == node.start .. node.start + node.count - 1

\* setNodeBounds
Bounded(p, start, count) ==
  LET at(d) == {p[i].x[d] : i \in start .. start + count - 1}
  IN [start |-> start, count |-> count, dim |-> 0,
      lo |-> [d \in Dims |-> Min(at(d))], hi |-> [d \in Dims |-> Max(at(d))]]

\* What the constructor accepts.
Valid(t) ==
  /\ t.leafSize >= 1 /\ DOMAIN t.b = Dims /\ t.noSplit \subseteq Dims /\ t.noSplit # Dims

-----------------------------------------------------------------------------
(* Selection: the points from first to last are reordered so that the one  *)
(* at m is where sorting along d would put it.                             *)

Swapped(p, i, j) == [p EXCEPT ![i] = p[j], ![j] = p[i]]

\* One partition about v: the points after it, and the least index of its upper part.
RECURSIVE Partition(_, _, _, _, _)
Partition(p, l, r, v, d) ==
  LET lptr == IF l >= r THEN l ELSE Min({i \in l .. r : p[i].x[d] >= v} \cup {r})
      rptr == IF lptr > r THEN r ELSE Max({i \in lptr .. r : p[i].x[d] <= v} \cup {lptr - 1})
  IN IF lptr < rptr THEN Partition(Swapped(p, lptr, rptr), lptr + 1, rptr - 1, v, d)
     ELSE [p |-> p, upper |-> IF p[rptr].x[d] > v /\ lptr <= rptr THEN rptr ELSE rptr + 1]

RECURSIVE SelectSerial(_, _, _, _, _)
SelectSerial(p, l, r, m, d) ==
  IF l >= r THEN p
  ELSE LET part == Partition(p, l, r, p[(l + r) \div 2].x[d], d)
       IN IF part.upper > m THEN SelectSerial(part.p, l, part.upper - 1, m, d)
          ELSE SelectSerial(part.p, part.upper, r, m, d)

\* The points from i to j - 1, those among before put before the others.
RECURSIVE PartitionSerial(_, _, _, _)
PartitionSerial(p, i, j, before) ==
  LET i2 == Min({k \in i .. j - 1 : p[k] \notin before} \cup {j})
      j2 == Max({k \in i2 + 1 .. j : p[k - 1] \in before} \cup {i2})
  IN IF i2 >= j2 THEN p ELSE PartitionSerial(Swapped(p, i2, j2 - 1), i2 + 1, j2 - 1, before)

\* Seeded fault: points on the wrong side of the whole stay there
PartitionBlockedAlone(p, first, end, before) ==
  LET starts == {i \in first .. end - 1 : (i - first) % BlockSize = 0}
  IN [p |-> FoldSet(LAMBDA s, q : PartitionSerial(q, s, Min({s + BlockSize, end}), before), p, starts),
      mid |-> first + Cardinality({i \in first .. end - 1 : p[i] \in before})]

\* The same by blocks, each partitioned alone; the points still on the wrong side of the
\* whole are then exchanged in pairs.
PartitionBlocked(p, first, end, before) ==
  LET starts == {i \in first .. end - 1 : (i - first) % BlockSize = 0}
      blocks == FoldSet(LAMBDA s, q : PartitionSerial(q, s, Min({s + BlockSize, end}), before), p, starts)
      mid == first + Cardinality({i \in first .. end - 1 : p[i] \in before})
      low == SetToSortSeq({i \in first .. mid - 1 : blocks[i] \notin before}, <)
      high == SetToSortSeq({i \in mid .. end - 1 : blocks[i] \in before}, <)
  IN [p |-> FoldLeftDomain(LAMBDA q, k : Swapped(q, low[k], high[k]), blocks, low), mid |-> mid]

\* Narrows the range about m between two points of a sample, then selects in what is left.
RECURSIVE SelectBlocked(_, _, _, _, _)
SelectBlocked(p, l, r, m, d) ==
  IF r - l < BlockedMinCount THEN SelectSerial(p, l, r - 1, m, d)
  ELSE
    LET n == r - l
        count == Min({SampleSize, n})
        sample == SortSeq([k \in 1 .. count |-> p[l + ((k - 1) * n) \div count].x[d]], <)
        rank == ((m - l) * count) \div n
        pivotLo == sample[Max({rank - Gap, 0}) + 1]
        pivotHi == sample[Min({rank + Gap, count - 1}) + 1]
        low == PartitionBlocked(p, l, r, {q \in ToSet(p) : q.x[d] < pivotLo})
        high == PartitionBlocked(low.p, low.mid, r, {q \in ToSet(p) : q.x[d] <= pivotHi})
        Onwards(q, l2, r2) ==
          IF l2 = l /\ r2 = r THEN SelectSerial(q, l, r - 1, m, d) ELSE SelectBlocked(q, l2, r2, m, d)
    IN IF m < low.mid THEN Onwards(low.p, l, low.mid)
       ELSE IF m >= high.mid THEN Onwards(high.p, high.mid, r)
       ELSE IF pivotLo = pivotHi THEN high.p
       ELSE Onwards(high.p, low.mid, high.mid)

-----------------------------------------------------------------------------
(* The build.                                                              *)

\* The widest dimension of the node's box, in units of the bandwidth, that may be split.
ChooseSplitDim(node) ==
  LET size(i) == (node.hi[i] - node.lo[i]) * (node.hi[i] - node.lo[i]) * tree.b[i][i]
      allowed == Dims \ tree.noSplit
  IN Min({i \in allowed : \A j \in allowed : size(i) >= size(j)})

PartitionNode(node, d) ==
  LET m == node.start + (node.count - 1) \div 2
  IN IF node.count >= BlockedMinCount
     THEN SelectBlocked(pts, node.start, node.start + node.count, m, d)
     ELSE SelectSerial(pts, node.start, node.start + node.count - 1, m, d)

SplitNode(idx) ==
  /\ split' = split \cup {idx}
  /\ LET node == nodes[idx] half == (node.count + 1) \div 2
     IN IF node.count <= tree.leafSize THEN UNCHANGED <<pts, nodes>>
        ELSE \E d \in {ChooseSplitDim(node)} :
             /\ pts' = PartitionNode(node, d)
             /\ nodes' = [nodes EXCEPT
                  ![idx].dim = d,
                  ![Left(idx)] = Bounded(pts', node.start, half),
                  ![Right(idx)] = Bounded(pts', node.start + half, node.count - half)]

\* The nodes that may be split next: any of a level with as many nodes as threads, the first
\* of a smaller one.
MaySplit ==
  LET k == Min({k \in 0 .. NLevels - 1 : ~(Level(k) \subseteq split)})
      left == Level(k) \ split
  IN IF 2^k >= OmpThreads THEN left ELSE {Min(left)}

BuildStep ==
  /\ phase = "building" /\ Cardinality(split) < NNodes
  /\ \E idx \in MaySplit : SplitNode(idx)
  /\ UNCHANGED <<tree, phase, query, searchVars>>

\* A node no split has reached.
Untouched == [start |-> 1, count |-> 0, dim |-> 0, lo |-> [d \in Dims |-> 0], hi |-> [d \in Dims |-> 0]]

InitTree ==
  /\ tree \in Trees
  /\ pts = tree.data /\ split = {} /\ query = "none" /\ stack = << >> /\ best = << >>

\* Sized, with the root over every point.
Rooted ==
  [idx \in 0 .. NNodes - 1 |-> IF idx = 0 THEN Bounded(pts, 1, Size) ELSE Untouched]

-----------------------------------------------------------------------------
(* neighbors: the search keeps the k best points found so far, nearest     *)
(* first, and a stack of nodes with the least distance to their boxes.     *)

Wanted == Min({query.k, Size})
BeyondBest(r) == Len(best) = Wanted /\ r > Last(best).four
Entry(b, idx) == [idx |-> idx, bound |-> FourLower(b, query.x, nodes[idx].lo, nodes[idx].hi)]

\* The bandwidth for this pattern of NaNs, reduced to it if it must be.
Fitted(b, x) == IF Matches(b, x) THEN b ELSE Reduce(b, Dims \ DOMAIN x)
Fits(b, x) == Matches(b, x) \/ (DOMAIN b = Dims /\ CanReduce(b, Dims \ DOMAIN x))

Neighbors(q) ==
  /\ phase = "ready" /\ q.kind = "neighbors"
  /\ query' = q
  /\ phase' = IF ~Fits(q.b, q.x) THEN "thrown" ELSE IF q.k = 0 THEN "answered" ELSE "neighbors"
  /\ best' = << >>
  /\ stack' = IF phase' # "neighbors" THEN << >>
              ELSE <<[idx |-> 0, bound |-> FourLower(Fitted(q.b, q.x), q.x, nodes[0].lo, nodes[0].hi)]>>
  /\ UNCHANGED treeVars

\* lower_bound: before those as far.
InsertBest(found, r, i) ==
  IF Len(found) = Wanted /\ r > Last(found).four THEN found
  ELSE LET pos == Min({k \in DOMAIN found : found[k].four >= r} \cup {Len(found) + 1})
           longer == InsertAt(found, pos, [four |-> r, i |-> i])
       IN IF Len(longer) > Wanted THEN Front(longer) ELSE longer

PopStack ==
  /\ phase = "neighbors" /\ stack # << >>
  /\ \E b \in {Fitted(query.b, query.x)} :
       LET top == Last(stack) node == nodes[top.idx]
           l == Entry(b, Left(top.idx)) r == Entry(b, Right(top.idx))
       IN IF BeyondBest(top.bound) THEN stack' = Front(stack) /\ UNCHANGED best
          ELSE IF IsLeaf(top.idx)
          THEN /\ stack' = Front(stack)
               /\ best' = FoldLeft(LAMBDA found, i : InsertBest(found, 4 * Dist2(b, query.x, pts[i].x), i),
                                   best, [k \in 1 .. node.count |-> node.start + k - 1])
          ELSE /\ stack' = Front(stack) \o (IF l.bound <= r.bound THEN <<r, l>> ELSE <<l, r>>)
               /\ UNCHANGED best
  /\ UNCHANGED <<treeVars, phase, query>>

SearchDone ==
  /\ phase = "neighbors" /\ stack = << >>
  /\ phase' = "answered" /\ UNCHANGED <<treeVars, query, searchVars>>

-----------------------------------------------------------------------------
\* Once built, whatever order a level was split in, the tree is over the points it was given,
\* each with what belongs to it; a node's points lie in its box, which is no larger than they
\* need; a split node's are divided evenly between its children, the left one's no further
\* along the split than the right one's; and a leaf has no more than it may (splitNode).
TreeSound ==
  phase \notin {"created", "building", "thrown"} =>
    /\ ToSet(pts) = ToSet(tree.data) /\ Len(pts) = Size
    /\ PointsOf(nodes[0]) = DOMAIN pts
    /\ \A idx \in DOMAIN nodes :
         LET node == nodes[idx]
         IN /\ node.count > 0 => Bounded(pts, node.start, node.count) = [node EXCEPT !.dim = 0]
            /\ IsLeaf(idx) => node.count <= tree.leafSize
            /\ ~IsLeaf(idx) =>
                 LET l == nodes[Left(idx)] r == nodes[Right(idx)]
                 IN /\ PointsOf(l) \cup PointsOf(r) = PointsOf(node)
                    /\ l.count + r.count = node.count /\ l.count - r.count \in {0, 1}
                    /\ \A i \in PointsOf(l), j \in PointsOf(r) : pts[i].x[node.dim] <= pts[j].x[node.dim]

\* A search finds as many points as asked for, nearest first, none of the others nearer
\* than one of them (KDTree::search, which leaves out nodes by the distance to their boxes).
NearestFound ==
  phase = "answered" /\ query.kind = "neighbors" =>
    LET b == Fitted(query.b, query.x) far(i) == 4 * Dist2(b, query.x, pts[i].x)
    IN /\ Len(best) = Wanted
       /\ \A k \in DOMAIN best : best[k].four = far(best[k].i)
       /\ \A k, l \in DOMAIN best : k < l => best[k].i # best[l].i /\ best[k].four <= best[l].four
       /\ \A i \in DOMAIN pts : (\E k \in DOMAIN best : best[k].i = i) \/ (Wanted > 0 => far(i) >= Last(best).four)
=============================================================================
