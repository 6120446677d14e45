------------------------- MODULE Mesh3DInterpolator -------------------------
(***************************************************************************)
(* Slices of a three-dimensional mesh (interp::Mesh3DInterpolator), the    *)
(* form the tracks have, y being mass and z metallicity: at constant z,    *)
(* copied or read through the mesh itself, and at constant y.  solid is    *)
(* [x |-> planes, [k][j][i]; y; z; f; type].  A slice at fixed z between   *)
(* planes k0 and k0 + 1 has its points and, by the interpolators along z,  *)
(* its values that part of the way between theirs: the other curves are    *)
(* that too where the values are straight along z, as in the meshes the    *)
(* instance has.                                                           *)
(***************************************************************************)
EXTENDS Integers, FiniteSetsExt, SequencesExt

\* The plane of a coordinate at or below c, and whether it is there exactly.
Below(cs, c) == Min({Len(cs) - 1} \cup {k \in 1 .. Len(cs) - 1 : c < cs[k + 1]})
Exactly(cs, c) == Len(cs) = 1 \/ c \in ToSet(cs)
PlaneAt(cs, c) == IF Len(cs) = 1 THEN 1 ELSE CHOOSE k \in DOMAIN cs : cs[k] = c

\* That part of the way from a to b that c is from plane k to the next.
Between(a, b, cs, k, c) == a + ((b - a) * (c - cs[k])) \div (cs[k + 1] - cs[k])

\* A rectangle of numbers, [j][i], at c between planes of a block along z.
SliceOf(block, cs, c) ==
  IF Exactly(cs, c) THEN block[PlaneAt(cs, c)]
  ELSE LET k == Below(cs, c)
       IN [j \in DOMAIN block[k] |-> [i \in DOMAIN block[k][j] |->
             Between(block[k][j][i], block[k + 1][j][i], cs, k, c)]]

\* The same block with y and z exchanged.
Turned(block) == [j \in DOMAIN block[1] |-> [k \in DOMAIN block |-> block[k][j]]]

\* What the constructor takes: more than one point in x, and in y or in z.  (The
\* fewest points a type of curve needs are left to where the curve is made.)
SolidAccepted(s) ==
  /\ Len(s.x) = Len(s.z) /\ Len(s.f) = Len(s.z)
  /\ \A k \in DOMAIN s.x : Len(s.x[k]) = Len(s.y) /\ Len(s.f[k]) = Len(s.y)
  /\ Len(s.x[1][1]) > 1
  /\ Len(s.y) > 1 \/ Len(s.z) > 1

\* sliceConstZCopy and lazySliceConstZ; of a mesh of one mass there is no slice
CanSliceZ(s) == Len(s.y) > 1
ConstZ(s, c, lazy) ==
  [x |-> SliceOf(s.x, s.z, c), y |-> s.y, f |-> SliceOf(s.f, s.z, c), type |-> s.type, lazy |-> lazy]

\* sliceConstYCopy
CanSliceY(s) == Len(s.z) > 1
ConstY(s, c) ==
  [x |-> SliceOf(Turned(s.x), s.y, c), y |-> s.z, f |-> SliceOf(Turned(s.f), s.y, c), type |-> s.type, lazy |-> FALSE]
=============================================================================
