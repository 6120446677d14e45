--------------------------- MODULE SequenceLemmas ---------------------------
(***************************************************************************)
(* Induction over the natural numbers, in terms of sets, and what the      *)
(* operators on sequences that the models are built from return for every  *)
(* argument.                                                               *)
(***************************************************************************)
EXTENDS SequencesExt, SequenceTheorems, WellFoundedInduction, FiniteSetTheorems, TLAPS

-----------------------------------------------------------------------------
(* Induction.                                                              *)

\* A set of natural numbers that is not empty has a least element.
LEMMA LeastNatural ==
  ASSUME NEW S, S \subseteq Nat, S # {}
  PROVE  \E n \in S : \A m \in S : n <= m
<1> DEFINE R == OpToRel(<, Nat)
<1>1. IsWellFoundedOn(R, Nat)  BY NatLessThanWellFounded
<1>2. \A n, m \in Nat : n < m => <<n, m>> \in R  BY DEF OpToRel
<1> HIDE DEF R
<1>3. PICK n \in S : \A m \in S : ~ (<<m, n>> \in R)  BY <1>1, WFMin
<1>4. \A m \in S : ~ (m < n)  BY <1>2, <1>3
<1> QED BY <1>4

\* A set that holds 0, and n + 1 whenever it holds n, holds every natural number.
LEMMA SetInduction ==
  ASSUME NEW S, 0 \in S, \A n \in Nat : n \in S => n + 1 \in S
  PROVE  Nat \subseteq S
<1> DEFINE T == Nat \ S
<1>1. SUFFICES ASSUME T # {} PROVE FALSE
  OBVIOUS
<1>2. PICK n \in T : \A m \in T : n <= m  BY <1>1, LeastNatural
<1>3. n - 1 \in Nat /\ n - 1 \in S  BY <1>2
<1> QED BY <1>2, <1>3

\* A set of natural numbers below a bound has a largest element, if any.
LEMMA LargestNatural ==
  ASSUME NEW S, S \subseteq Nat, S # {}, NEW b \in Nat, \A n \in S : n <= b
  PROVE  \E n \in S : \A m \in S : m <= n
<1> DEFINE T == {b - n : n \in S}
<1>1. T \subseteq Nat /\ T # {}
  <2>1. \A n \in S : b - n \in Nat  OBVIOUS
  <2> QED BY <2>1
<1>2. PICK d \in T : \A e \in T : d <= e
  <2> HIDE DEF T
  <2> QED BY <1>1, LeastNatural
<1>3. PICK n \in S : d = b - n  OBVIOUS
<1>4. \A m \in S : b - n <= b - m  BY <1>2, <1>3
<1> QED BY <1>4

\* Concatenation, as an operator the provers leave alone.
Joined(a, b) == a \o b

\* The elements of two sequences, one after the other.
LEMMA ConcatElements ==
  ASSUME NEW T, NEW a \in Seq(T), NEW b \in Seq(T)
  PROVE  /\ Joined(a, b) \in Seq(T) /\ Len(Joined(a, b)) = Len(a) + Len(b)
         /\ Len(a) \in Nat /\ Len(b) \in Nat
         /\ \A p \in 1 .. Len(a) : Joined(a, b)[p] = a[p]
         /\ \A p \in Len(a) + 1 .. Len(a) + Len(b) : Joined(a, b)[p] = b[p - Len(a)]
<1> DEFINE c == Joined(a, b)
<1>1. c \in Seq(T) /\ Len(c) = Len(a) + Len(b) /\ Len(a) \in Nat /\ Len(b) \in Nat
  BY ConcatProperties, LenProperties DEF Joined
<1>2. \A i \in 1 .. Len(a) + Len(b) : c[i] = IF i <= Len(a) THEN a[i] ELSE b[i - Len(a)]
  BY ConcatProperties DEF Joined
<1> HIDE DEF c
<1>3. \A p \in 1 .. Len(a) : c[p] = a[p]  BY <1>1, <1>2
<1>4. \A p \in Len(a) + 1 .. Len(a) + Len(b) : c[p] = b[p - Len(a)]  BY <1>1, <1>2
<1> QED BY <1>1, <1>3, <1>4 DEF c

-----------------------------------------------------------------------------
(* Sequences of sequences, one after the other.                            *)

Flattening(seqs) ==
  CHOOSE f : f = [i \in 1 .. Len(seqs) |-> IF i = 1 THEN seqs[i] ELSE f[i - 1] \o seqs[i]]

\* The recursion by which FlattenSeq is defined has a solution.
LEMMA FlatteningExists ==
  ASSUME NEW seqs
  PROVE  \A n \in Nat : \E f : f = [i \in 1 .. n |-> IF i = 1 THEN seqs[i] ELSE f[i - 1] \o seqs[i]]
<1> DEFINE Solves(f, n) == f = [i \in 1 .. n |-> IF i = 1 THEN seqs[i] ELSE f[i - 1] \o seqs[i]]
           S == {n \in Nat : \E f : Solves(f, n)}
<1>1. 0 \in S
  <2> DEFINE f == [i \in {} |-> 0]
  <2>1. Solves(f, 0)  OBVIOUS
  <2> QED BY <2>1
<1>2. ASSUME NEW n \in Nat, n \in S PROVE n + 1 \in S
  <2>1. PICK f : Solves(f, n)  BY <1>2
  <2> DEFINE last == IF n + 1 = 1 THEN seqs[n + 1] ELSE f[n] \o seqs[n + 1]
             g == [i \in 1 .. n + 1 |-> IF i = n + 1 THEN last ELSE f[i]]
  <2>2. ASSUME NEW i \in 1 .. n + 1
        PROVE  g[i] = IF i = 1 THEN seqs[i] ELSE g[i - 1] \o seqs[i]
    <3>1. CASE i = n + 1
      <4>1. g[i] = last  BY <3>1
      <4>2. i # 1 => i - 1 = n /\ i - 1 \in 1 .. n + 1 /\ i - 1 # n + 1  BY <3>1
      <4>3. i # 1 => g[i - 1] = f[n]  BY <4>2
      <4> QED BY <3>1, <4>1, <4>3
    <3>2. CASE i # n + 1
      <4>1. i \in 1 .. n  BY <3>2
      <4>2. g[i] = f[i]  BY <3>2
      <4>3. f[i] = IF i = 1 THEN seqs[i] ELSE f[i - 1] \o seqs[i]  BY <2>1, <4>1
      <4>4. i # 1 => i - 1 \in 1 .. n + 1 /\ i - 1 # n + 1  BY <4>1
      <4>5. i # 1 => g[i - 1] = f[i - 1]  BY <4>4
      <4> QED BY <4>2, <4>3, <4>5
    <3> QED BY <3>1, <3>2
  <2>3. g = [i \in 1 .. n + 1 |-> g[i]]  OBVIOUS
  <2>4. [i \in 1 .. n + 1 |-> g[i]]
          = [i \in 1 .. n + 1 |-> IF i = 1 THEN seqs[i] ELSE g[i - 1] \o seqs[i]]
    <3> HIDE DEF g
    <3> QED BY <2>2
  <2> HIDE DEF g
  <2>5. Solves(g, n + 1)  BY <2>3, <2>4
  <2> HIDE DEF Solves
  <2> QED BY <2>5
<1> HIDE DEF S
<1>3. Nat \subseteq S  BY <1>1, <1>2, SetInduction
<1> QED BY <1>3 DEF S

\* FlattenSeq by its equations.
LEMMA FlattenSteps ==
  ASSUME NEW T, NEW n \in Nat, NEW seqs \in [1 .. n -> Seq(T)]
  PROVE  /\ Flattening(seqs) \in [1 .. n -> Seq(T)]
         /\ n = 0 => FlattenSeq(seqs) = <<>>
         /\ n # 0 => FlattenSeq(seqs) = Flattening(seqs)[n]
         /\ n # 0 => Flattening(seqs)[1] = seqs[1]
         /\ \A i \in 2 .. n : Flattening(seqs)[i] = Joined(Flattening(seqs)[i - 1], seqs[i])
<1> DEFINE f == Flattening(seqs)
<1>1. Len(seqs) = n /\ seqs \in Seq(Seq(T))  OBVIOUS
<1>2. f = [i \in 1 .. n |-> IF i = 1 THEN seqs[i] ELSE Joined(f[i - 1], seqs[i])]
  BY <1>1, FlatteningExists DEF Flattening, Joined
<1>3. /\ n = 0 => FlattenSeq(seqs) = <<>>
      /\ n # 0 => FlattenSeq(seqs) = f[n]
  <2>1. n = 0 => seqs = <<>>  BY <1>1, EmptySeq
  <2> QED BY <1>1, <2>1 DEF FlattenSeq, Flattening
<1> HIDE DEF f
<1>4. \A i \in 1 .. n : f[i] = IF i = 1 THEN seqs[i] ELSE Joined(f[i - 1], seqs[i])  BY <1>2, Zenon
<1>5. n # 0 => f[1] = seqs[1]  BY <1>4
<1>6. \A i \in 2 .. n : f[i] = Joined(f[i - 1], seqs[i])  BY <1>4
<1> DEFINE S == {i \in Nat : i + 1 \in 1 .. n => f[i + 1] \in Seq(T)}
<1>7. 0 \in S  BY <1>5
<1>8. ASSUME NEW i \in Nat, i \in S PROVE i + 1 \in S
  <2>1. SUFFICES ASSUME (i + 1) + 1 \in 1 .. n PROVE f[(i + 1) + 1] \in Seq(T)
    OBVIOUS
  <2>2. f[i + 1] \in Seq(T) /\ i + 2 \in 2 .. n /\ (i + 2) - 1 = i + 1 /\ (i + 1) + 1 = i + 2
    BY <1>8, <2>1
  <2>3. f[i + 2] = Joined(f[i + 1], seqs[i + 2]) /\ seqs[i + 2] \in Seq(T)  BY <1>6, <2>2
  <2>4. f[i + 2] \in Seq(T)  BY <2>2, <2>3, ConcatElements
  <2> QED BY <2>2, <2>4
<1> HIDE DEF S
<1>9. Nat \subseteq S  BY <1>7, <1>8, SetInduction
<1>10. ASSUME NEW i \in 1 .. n PROVE f[i] \in Seq(T)
  <2>1. i - 1 \in Nat /\ (i - 1) + 1 = i  OBVIOUS
  <2>2. i - 1 \in S  BY <1>9, <2>1
  <2> QED BY <2>1, <2>2 DEF S
<1>11. f \in [1 .. n -> Seq(T)]  BY <1>2, <1>10
<1> QED BY <1>3, <1>5, <1>6, <1>11 DEF f

\* A sequence of n sequences of elements of T.
SeqOfSeqs(seqs, n, T) == n \in Nat /\ seqs \in [1 .. n -> Seq(T)]

\* The places of n sequences in their flattening.
OffsetsOf(off, seqs, n) ==
  /\ off[0] = 0 /\ off[n] = Len(FlattenSeq(seqs))
  /\ \A i \in 1 .. n : off[i] = off[i - 1] + Len(seqs[i])
  /\ \A i, k \in 0 .. n : i <= k => off[i] <= off[k]
  /\ \A p \in 1 .. off[n] : \E i \in 1 .. n : off[i - 1] < p /\ p <= off[i]
  /\ \A i \in 1 .. n : \A p \in off[i - 1] + 1 .. off[i] :
       FlattenSeq(seqs)[p] = seqs[i][p - off[i - 1]]

\* Where each of the sequences lies in the flattened one: after the first off[i - 1]
\* elements and up to off[i].
LEMMA FlattenOffsets ==
  ASSUME NEW T, NEW n, NEW seqs, SeqOfSeqs(seqs, n, T)
  PROVE  FlattenSeq(seqs) \in Seq(T) /\ \E off \in [0 .. n -> Nat] : OffsetsOf(off, seqs, n)
<1>0. n \in Nat /\ seqs \in [1 .. n -> Seq(T)]  BY DEF SeqOfSeqs
<1> DEFINE f == Flattening(seqs)
           F == FlattenSeq(seqs)
           off == [i \in 0 .. n |-> IF i = 0 THEN 0 ELSE Len(f[i])]
<1>1. /\ f \in [1 .. n -> Seq(T)]
      /\ n = 0 => F = <<>>
      /\ n # 0 => F = f[n]
      /\ n # 0 => f[1] = seqs[1]
      /\ \A i \in 2 .. n : f[i] = Joined(f[i - 1], seqs[i])
  BY <1>0, FlattenSteps
<1> HIDE DEF f, F, off
<1>11. ASSUME NEW i \in 2 .. n
       PROVE  /\ Len(f[i]) = Len(f[i - 1]) + Len(seqs[i])
              /\ \A q \in 1 .. Len(f[i - 1]) : f[i][q] = f[i - 1][q]
              /\ \A p \in Len(f[i - 1]) + 1 .. Len(f[i]) : f[i][p] = seqs[i][p - Len(f[i - 1])]
  <2>1. i \in 1 .. n /\ i - 1 \in 1 .. n  BY <1>0
  <2>2. PICK a, b, c :
          /\ a = f[i - 1] /\ b = seqs[i] /\ c = f[i]
          /\ a \in Seq(T) /\ b \in Seq(T) /\ c = Joined(a, b)
    BY <1>0, <1>1, <2>1
  <2>3. a \in Seq(T) /\ b \in Seq(T) /\ c = Joined(a, b)  BY <2>2
  <2>4. Len(c) = Len(a) + Len(b)  BY <2>3, ConcatElements
  <2>5. \A q \in 1 .. Len(a) : c[q] = a[q]  BY <2>3, ConcatElements
  <2>6. \A p \in Len(a) + 1 .. Len(a) + Len(b) : c[p] = b[p - Len(a)]  BY <2>3, ConcatElements
  <2> QED BY <2>2, <2>4, <2>5, <2>6
<1> USE DEF off
<1>2. F \in Seq(T)  BY <1>0, <1>1, EmptySeq
<1>3. off \in [0 .. n -> Nat] /\ off[0] = 0 /\ \A i \in 1 .. n : off[i] = Len(f[i])
  BY <1>0, <1>1, LenProperties
<1>4. off[n] = Len(F)  BY <1>0, <1>1, <1>3, EmptySeq
<1>5. ASSUME NEW i \in 1 .. n PROVE off[i] = off[i - 1] + Len(seqs[i])
  <2>1. CASE i = 1  BY <1>0, <1>1, <1>3, <2>1, LenProperties
  <2>2. CASE i # 1
    <3>1. i \in 2 .. n /\ i - 1 \in 1 .. n  BY <1>0, <2>2
    <3>2. Len(f[i]) = Len(f[i - 1]) + Len(seqs[i])  BY <1>11, <3>1
    <3> QED BY <1>0, <1>3, <3>1, <3>2
  <2> QED BY <1>0, <2>1, <2>2
<1> HIDE DEF off
<1>6. ASSUME NEW i \in 0 .. n PROVE \A k \in i .. n : off[i] <= off[k]
  <2> DEFINE S == {d \in Nat : i + d \in 0 .. n => off[i] <= off[i + d]}
  <2>1. 0 \in S  BY <1>0, <1>3
  <2>2. ASSUME NEW d \in Nat, d \in S PROVE d + 1 \in S
    <3>1. SUFFICES ASSUME i + (d + 1) \in 0 .. n PROVE off[i] <= off[i + (d + 1)]
      BY <1>0
    <3>2. i + (d + 1) \in 1 .. n /\ (i + (d + 1)) - 1 = i + d /\ i + d \in 0 .. n  BY <1>0, <3>1
    <3>3. off[i + (d + 1)] = off[i + d] + Len(seqs[i + (d + 1)])  BY <1>0, <1>5, <3>2
    <3>4. Len(seqs[i + (d + 1)]) \in Nat  BY <1>0, <3>2, LenProperties
    <3>5. off[i] <= off[i + d]  BY <1>0, <2>2, <3>2
    <3> QED BY <1>0, <1>3, <3>2, <3>3, <3>4, <3>5
  <2> HIDE DEF S
  <2>3. Nat \subseteq S  BY <1>0, <2>1, <2>2, SetInduction
  <2>4. ASSUME NEW k \in i .. n PROVE off[i] <= off[k]
    <3>1. k - i \in Nat /\ i + (k - i) = k /\ k \in 0 .. n  BY <1>0
    <3>2. k - i \in S  BY <1>0, <2>3, <3>1
    <3> QED BY <1>0, <3>1, <3>2 DEF S
  <2> QED BY <1>0, <2>4
<1>7. ASSUME NEW p \in 1 .. off[n] PROVE \E i \in 1 .. n : off[i - 1] < p /\ p <= off[i]
  <2> DEFINE S == {i \in 0 .. n : p <= off[i]}
  <2>1. n \in S /\ S \subseteq Nat  BY <1>0, <1>3
  <2>2. PICK i \in S : \A k \in S : i <= k
    <3> HIDE DEF S
    <3> QED BY <1>0, <2>1, LeastNatural
  <2>3. i # 0  BY <1>0, <1>3, <2>2
  <2>4. i \in 1 .. n /\ i - 1 \in 0 .. n /\ i - 1 \notin S  BY <1>0, <2>2, <2>3
  <2> QED BY <1>0, <1>3, <2>4
<1>8. ASSUME NEW i \in 1 .. n, NEW p \in off[i - 1] + 1 .. off[i]
      PROVE  F[p] = seqs[i][p - off[i - 1]]
  <2> DEFINE S == {d \in Nat : i + d \in 1 .. n => f[i + d][p] = seqs[i][p - off[i - 1]]}
  <2>1. off[i - 1] \in Nat /\ off[i] \in Nat /\ p \in Nat  BY <1>0, <1>3
  <2>2. 0 \in S
    <3>1. i + 0 = i  BY <1>0
    <3>2. CASE i = 1  BY <1>0, <1>1, <1>3, <2>1, <3>2
    <3>3. CASE i # 1
      <4>1. i \in 2 .. n /\ i - 1 \in 1 .. n  BY <1>0, <3>3
      <4>2. off[i - 1] = Len(f[i - 1]) /\ off[i] = Len(f[i])  BY <1>3, <4>1
      <4>3. f[i][p] = seqs[i][p - off[i - 1]]  BY <1>11, <4>1, <4>2
      <4> QED BY <3>1, <4>3
    <3> QED BY <3>2, <3>3
  <2>3. ASSUME NEW d \in Nat, d \in S PROVE d + 1 \in S
    <3>1. SUFFICES ASSUME i + (d + 1) \in 1 .. n
                   PROVE  f[i + (d + 1)][p] = seqs[i][p - off[i - 1]]
      BY <1>0
    <3>2. i + (d + 1) \in 2 .. n /\ (i + (d + 1)) - 1 = i + d /\ i + d \in 1 .. n  BY <1>0, <3>1
    <3>3. off[i] <= off[i + d] /\ off[i + d] = Len(f[i + d])  BY <1>0, <1>3, <1>6, <3>2
    <3>4. p \in 1 .. Len(f[i + d])  BY <1>0, <1>3, <2>1, <3>2, <3>3
    <3>5. \A q \in 1 .. Len(f[(i + (d + 1)) - 1]) : f[i + (d + 1)][q] = f[(i + (d + 1)) - 1][q]
      BY <1>11, <3>2
    <3>6. f[i + (d + 1)][p] = f[i + d][p]  BY <3>2, <3>4, <3>5
    <3> QED BY <1>0, <2>3, <3>2, <3>6
  <2> HIDE DEF S
  <2>4. Nat \subseteq S  BY <2>2, <2>3, SetInduction
  <2>5. n - i \in S /\ i + (n - i) = n  BY <1>0, <2>4
  <2>6. f[n][p] = seqs[i][p - off[i - 1]]  BY <1>0, <2>5 DEF S
  <2> QED BY <1>0, <1>1, <2>6
<1>9. \A i, k \in 0 .. n : i <= k => off[i] <= off[k]  BY <1>0, <1>6
<1>10. OffsetsOf(off, seqs, n)  BY <1>3, <1>4, <1>5, <1>7, <1>8, <1>9 DEF OffsetsOf, F
<1> QED BY <1>2, <1>3, <1>10 DEF F

\* The place of one of the sequences.
Placed(off, seqs, n, i) ==
  /\ off[i - 1] \in Nat /\ off[i] \in Nat /\ Len(seqs[i]) \in Nat
  /\ off[i] = off[i - 1] + Len(seqs[i]) /\ off[i] <= Len(FlattenSeq(seqs))
  /\ Len(FlattenSeq(seqs)) \in Nat
  /\ \A k \in 1 .. n : k < i => off[k] <= off[i - 1]
  /\ \A p \in off[i - 1] + 1 .. off[i] : FlattenSeq(seqs)[p] = seqs[i][p - off[i - 1]]

\* The offsets are numbers, and grow by the lengths of the sequences.
LEMMA OffsetsGrow ==
  ASSUME NEW T, NEW n, NEW seqs, SeqOfSeqs(seqs, n, T), NEW off \in [0 .. n -> Nat],
         OffsetsOf(off, seqs, n), NEW i \in 1 .. n
  PROVE  Placed(off, seqs, n, i)
<1>1. n \in Nat /\ seqs \in [1 .. n -> Seq(T)]  BY DEF SeqOfSeqs
<1>2. i - 1 \in 0 .. n /\ i \in 0 .. n /\ n \in 0 .. n /\ i <= n  BY <1>1
<1>3. off[i - 1] \in Nat /\ off[i] \in Nat /\ off[n] \in Nat  BY <1>2
<1>4. Len(seqs[i]) \in Nat
  <2>1. seqs[i] \in Seq(T)  BY <1>1
  <2> QED BY <2>1, LenProperties
<1>5. off[i] = off[i - 1] + Len(seqs[i])  BY DEF OffsetsOf
<1>6. off[i] <= Len(FlattenSeq(seqs)) /\ off[n] = Len(FlattenSeq(seqs))  BY <1>2 DEF OffsetsOf
<1>7. ASSUME NEW k \in 1 .. n, k < i PROVE off[k] <= off[i - 1]
  BY <1>2, <1>7 DEF OffsetsOf
<1>8. \A p \in off[i - 1] + 1 .. off[i] : FlattenSeq(seqs)[p] = seqs[i][p - off[i - 1]]
  BY DEF OffsetsOf
<1> QED BY <1>3, <1>4, <1>5, <1>6, <1>7, <1>8 DEF Placed

\* Element p of a flattened sequence is element q of the i-th of the sequences, and
\* before it come the elements that are before it in that sequence and those of the
\* sequences before.
PlaceOf(seqs, n, p, i, q) ==
  /\ FlattenSeq(seqs)[p] = seqs[i][q]
  /\ \A k \in 1 .. n : \A r \in 1 .. Len(seqs[k]) :
       k < i \/ (k = i /\ r < q) => \E o \in 1 .. p - 1 : FlattenSeq(seqs)[o] = seqs[k][r]

\* Every element of a flattened sequence has a place in one of the sequences.
LEMMA FlattenPlace ==
  ASSUME NEW T, NEW n, NEW seqs, SeqOfSeqs(seqs, n, T), NEW p \in 1 .. Len(FlattenSeq(seqs))
  PROVE  \E i \in 1 .. n : \E q \in 1 .. Len(seqs[i]) : PlaceOf(seqs, n, p, i, q)
<1> DEFINE F == FlattenSeq(seqs)
<1>1. PICK off \in [0 .. n -> Nat] : OffsetsOf(off, seqs, n)  BY FlattenOffsets
<1>2. PICK i \in 1 .. n : off[i - 1] < p /\ p <= off[i]  BY <1>1 DEF OffsetsOf
<1>3. /\ off[i - 1] \in Nat /\ off[i] = off[i - 1] + Len(seqs[i]) /\ Len(seqs[i]) \in Nat
      /\ p \in Nat /\ \A k \in 1 .. n : k < i => off[k] <= off[i - 1]
      /\ \A o \in off[i - 1] + 1 .. off[i] : F[o] = seqs[i][o - off[i - 1]]
  <2>1. Placed(off, seqs, n, i)  BY <1>1, OffsetsGrow
  <2> QED BY <2>1 DEF Placed
<1> HIDE DEF F
<1> DEFINE q == p - off[i - 1]
<1>4. q \in 1 .. Len(seqs[i]) /\ F[p] = seqs[i][q]
  <2>1. p \in off[i - 1] + 1 .. off[i]  BY <1>2, <1>3
  <2>2. F[p] = seqs[i][q]  BY <1>3, <2>1
  <2>3. \A a, b, c, d \in Nat : b < a /\ a <= c /\ c = b + d => a - b \in 1 .. d  OBVIOUS
  <2>4. off[i] \in Nat  BY <1>3
  <2>5. q \in 1 .. Len(seqs[i])  BY <1>2, <1>3, <2>3, <2>4
  <2> QED BY <2>2, <2>5
<1>5. ASSUME NEW k \in 1 .. n, NEW r \in 1 .. Len(seqs[k]), k < i \/ (k = i /\ r < q)
      PROVE  \E o \in 1 .. p - 1 : F[o] = seqs[k][r]
  <2> DEFINE o == off[k - 1] + r
  <2>1. /\ off[k - 1] \in Nat /\ off[k] = off[k - 1] + Len(seqs[k]) /\ Len(seqs[k]) \in Nat
        /\ \A x \in off[k - 1] + 1 .. off[k] : F[x] = seqs[k][x - off[k - 1]]
    <3>1. Placed(off, seqs, n, k)  BY <1>1, OffsetsGrow
    <3> QED BY <3>1 DEF Placed, F
  <2>2. o \in off[k - 1] + 1 .. off[k] /\ o - off[k - 1] = r  BY <2>1
  <2>3. F[o] = seqs[k][r]  BY <2>1, <2>2
  <2>4. o < p
    <3>1. CASE k < i
      <4>1. off[k] <= off[i - 1]  BY <1>3, <3>1
      <4> QED BY <1>2, <1>3, <2>1, <4>1
    <3>2. CASE k = i  BY <1>3, <1>5, <2>1, <3>2
    <3> QED BY <1>5, <3>1, <3>2
  <2>5. o \in 1 .. p - 1  BY <1>3, <2>1, <2>4
  <2> QED BY <2>3, <2>5
<1> HIDE DEF q
<1>6. PlaceOf(seqs, n, p, i, q)  BY <1>4, <1>5 DEF F, PlaceOf
<1> QED BY <1>4, <1>6

\* The elements of a flattened sequence.
LEMMA FlattenRange ==
  ASSUME NEW T, NEW n, NEW seqs, SeqOfSeqs(seqs, n, T)
  PROVE  /\ FlattenSeq(seqs) \in Seq(T)
         /\ Range(FlattenSeq(seqs)) = UNION {Range(seqs[i]) : i \in 1 .. n}
<1> DEFINE F == FlattenSeq(seqs)
<1>0. n \in Nat /\ seqs \in [1 .. n -> Seq(T)]  BY DEF SeqOfSeqs
<1>1. F \in Seq(T)  BY FlattenOffsets
<1>2. DOMAIN F = 1 .. Len(F) /\ \A i \in 1 .. n : DOMAIN seqs[i] = 1 .. Len(seqs[i])
  BY <1>0, <1>1, LenProperties
<1>3. ASSUME NEW e \in Range(F) PROVE e \in UNION {Range(seqs[i]) : i \in 1 .. n}
  <2>1. PICK p \in 1 .. Len(F) : F[p] = e  BY <1>2 DEF Range
  <2>2. PICK i \in 1 .. n : \E q \in 1 .. Len(seqs[i]) : F[p] = seqs[i][q]
    BY FlattenPlace DEF PlaceOf
  <2>3. e \in Range(seqs[i])  BY <1>2, <2>1, <2>2 DEF Range
  <2> QED BY <2>3
<1>4. ASSUME NEW i \in 1 .. n, NEW e \in Range(seqs[i]) PROVE e \in Range(F)
  <2>1. PICK off \in [0 .. n -> Nat] : OffsetsOf(off, seqs, n)  BY FlattenOffsets
  <2>2. PICK q \in 1 .. Len(seqs[i]) : seqs[i][q] = e  BY <1>2 DEF Range
  <2>3. /\ off[i - 1] \in Nat /\ off[i] = off[i - 1] + Len(seqs[i]) /\ Len(seqs[i]) \in Nat
        /\ off[i] <= Len(F) /\ Len(F) \in Nat
        /\ \A x \in off[i - 1] + 1 .. off[i] : F[x] = seqs[i][x - off[i - 1]]
    <3>1. Placed(off, seqs, n, i)  BY <2>1, OffsetsGrow
    <3> QED BY <3>1 DEF Placed
  <2> HIDE DEF F
  <2>4. off[i - 1] + q \in off[i - 1] + 1 .. off[i] /\ (off[i - 1] + q) - off[i - 1] = q  BY <2>3
  <2>5. F[off[i - 1] + q] = e  BY <2>2, <2>3, <2>4
  <2>7. off[i - 1] + q \in DOMAIN F  BY <1>2, <2>3, <2>4
  <2> QED BY <2>5, <2>7 DEF Range
<1> HIDE DEF F
<1>5. UNION {Range(seqs[i]) : i \in 1 .. n} \subseteq Range(F)  BY <1>4
<1> QED BY <1>1, <1>3, <1>5 DEF F

\* Nothing is twice in a flattened sequence, if nothing is in two of the sequences or
\* twice in one of them.
LEMMA FlattenInjective ==
  ASSUME NEW T, NEW n, NEW seqs, SeqOfSeqs(seqs, n, T),
         \A i \in 1 .. n : IsInjective(seqs[i]),
         \A i, k \in 1 .. n : i < k => Range(seqs[i]) \cap Range(seqs[k]) = {}
  PROVE  IsInjective(FlattenSeq(seqs))
<1> DEFINE F == FlattenSeq(seqs)
<1>0. n \in Nat /\ seqs \in [1 .. n -> Seq(T)]  BY DEF SeqOfSeqs
<1>1. F \in Seq(T)  BY FlattenOffsets
<1>2. DOMAIN F = 1 .. Len(F) /\ \A i \in 1 .. n : DOMAIN seqs[i] = 1 .. Len(seqs[i])
  BY <1>0, <1>1, LenProperties
<1>3. PICK off \in [0 .. n -> Nat] : OffsetsOf(off, seqs, n)  BY FlattenOffsets
<1>4. ASSUME NEW p \in 1 .. Len(F), NEW q \in 1 .. Len(F), F[p] = F[q], p < q PROVE FALSE
  <2>1. PICK i \in 1 .. n : off[i - 1] < p /\ p <= off[i]  BY <1>3 DEF OffsetsOf
  <2>2. PICK k \in 1 .. n : off[k - 1] < q /\ q <= off[k]  BY <1>3 DEF OffsetsOf
  <2>3. /\ off[i - 1] \in Nat /\ off[i] \in Nat /\ Len(seqs[i]) \in Nat
        /\ off[i] = off[i - 1] + Len(seqs[i])
        /\ \A x \in off[i - 1] + 1 .. off[i] : F[x] = seqs[i][x - off[i - 1]]
        /\ \A j \in 1 .. n : j < i => off[j] <= off[i - 1]
    <3>1. Placed(off, seqs, n, i)  BY <1>3, OffsetsGrow
    <3> QED BY <3>1 DEF Placed
  <2>9. /\ off[k - 1] \in Nat /\ off[k] \in Nat /\ Len(seqs[k]) \in Nat
        /\ off[k] = off[k - 1] + Len(seqs[k])
        /\ \A x \in off[k - 1] + 1 .. off[k] : F[x] = seqs[k][x - off[k - 1]]
    <3>1. Placed(off, seqs, n, k)  BY <1>3, OffsetsGrow
    <3> QED BY <3>1 DEF Placed
  <2>10. p \in Nat /\ q \in Nat  BY <1>1, LenProperties
  <2> HIDE DEF F
  <2>4. p - off[i - 1] \in 1 .. Len(seqs[i]) /\ q - off[k - 1] \in 1 .. Len(seqs[k])
    <3>1. \A a, b, c, d \in Nat : b < a /\ a <= c /\ c = b + d => a - b \in 1 .. d  OBVIOUS
    <3>2. off[i] \in Nat /\ off[k] \in Nat  BY <2>3, <2>9
    <3>3. p - off[i - 1] \in 1 .. Len(seqs[i])  BY <2>1, <2>3, <2>10, <3>1, <3>2
    <3>4. q - off[k - 1] \in 1 .. Len(seqs[k])  BY <2>2, <2>9, <2>10, <3>1, <3>2
    <3> QED BY <3>3, <3>4
  <2>5. F[p] = seqs[i][p - off[i - 1]] /\ F[q] = seqs[k][q - off[k - 1]]
    <3>1. p \in off[i - 1] + 1 .. off[i] /\ q \in off[k - 1] + 1 .. off[k]
      <4>1. \A a, b, c \in Nat : b < a /\ a <= c => a \in b + 1 .. c  OBVIOUS
      <4>2. p \in off[i - 1] + 1 .. off[i]  BY <2>1, <2>3, <2>10, <4>1
      <4>3. q \in off[k - 1] + 1 .. off[k]  BY <2>2, <2>9, <2>10, <4>1
      <4> QED BY <4>2, <4>3
    <3> QED BY <2>3, <2>9, <3>1
  <2>6. CASE k < i
    <3>1. off[k] <= off[i - 1]  BY <2>3, <2>6
    <3> QED BY <1>4, <2>1, <2>2, <2>3, <2>9, <2>10, <3>1
  <2>7. CASE i < k
    <3>1. F[p] \in Range(seqs[i]) /\ F[q] \in Range(seqs[k])  BY <1>2, <2>4, <2>5 DEF Range
    <3> QED BY <1>4, <2>7, <3>1
  <2>8. CASE i = k
    <3>1. seqs[i][p - off[i - 1]] = seqs[i][q - off[i - 1]]  BY <1>4, <2>5, <2>8
    <3>2. p - off[i - 1] \in DOMAIN seqs[i] /\ q - off[i - 1] \in DOMAIN seqs[i]
      BY <1>2, <2>4, <2>8
    <3>3. p - off[i - 1] = q - off[i - 1]  BY <3>1, <3>2 DEF IsInjective
    <3> QED BY <1>4, <2>3, <2>10, <3>3
  <2> QED BY <2>6, <2>7, <2>8
<1>5. \A p, q \in 1 .. Len(F) : F[p] = F[q] => p = q
  <2>1. Len(F) \in Nat  BY <1>1, LenProperties
  <2> HIDE DEF F
  <2>2. SUFFICES ASSUME NEW p \in 1 .. Len(F), NEW q \in 1 .. Len(F), F[p] = F[q], p # q
                 PROVE  FALSE
    OBVIOUS
  <2>3. p < q \/ q < p  BY <2>1, <2>2
  <2> QED BY <1>4, <2>2, <2>3
<1> QED BY <1>2, <1>5 DEF IsInjective, F

-----------------------------------------------------------------------------
(* Sequences put together.                                                 *)

\* Two sequences one after the other hold what both hold, and nothing twice if nothing is
\* in both of them.
LEMMA JoinedElements ==
  ASSUME NEW T, NEW a \in Seq(T), NEW b \in Seq(T)
  PROVE  /\ a \o b \in Seq(T) /\ Range(a \o b) = Range(a) \cup Range(b)
         /\ IsInjective(a) /\ IsInjective(b) /\ Range(a) \cap Range(b) = {} => IsInjective(a \o b)
<1> DEFINE c == Joined(a, b)
<1>1. /\ c \in Seq(T) /\ Len(c) = Len(a) + Len(b) /\ Len(a) \in Nat /\ Len(b) \in Nat
      /\ \A p \in 1 .. Len(a) : c[p] = a[p]
      /\ \A p \in Len(a) + 1 .. Len(a) + Len(b) : c[p] = b[p - Len(a)]
  BY ConcatElements
<1>2. DOMAIN c = 1 .. Len(c) /\ DOMAIN a = 1 .. Len(a) /\ DOMAIN b = 1 .. Len(b)
  BY <1>1, LenProperties
<1> HIDE DEF c
<1>3. ASSUME NEW e \in Range(c) PROVE e \in Range(a) \cup Range(b)
  <2>1. PICK p \in 1 .. Len(c) : c[p] = e  BY <1>2 DEF Range
  <2>2. CASE p \in 1 .. Len(a)  BY <1>1, <1>2, <2>1, <2>2 DEF Range
  <2>3. CASE p \notin 1 .. Len(a)
    <3>1. p \in Len(a) + 1 .. Len(a) + Len(b) /\ p - Len(a) \in 1 .. Len(b)  BY <1>1, <2>3
    <3> QED BY <1>1, <1>2, <2>1, <3>1 DEF Range
  <2> QED BY <2>2, <2>3
<1>4. ASSUME NEW e \in Range(a) PROVE e \in Range(c)
  BY <1>1, <1>2 DEF Range
<1>5. ASSUME NEW e \in Range(b) PROVE e \in Range(c)
  <2>1. PICK q \in 1 .. Len(b) : b[q] = e  BY <1>2 DEF Range
  <2>2. /\ Len(a) + q \in Len(a) + 1 .. Len(a) + Len(b)
        /\ (Len(a) + q) - Len(a) = q /\ Len(a) + q \in 1 .. Len(c)
    BY <1>1, <2>1
  <2> QED BY <1>1, <1>2, <2>1, <2>2 DEF Range
<1>6. ASSUME IsInjective(a), IsInjective(b), Range(a) \cap Range(b) = {} PROVE IsInjective(c)
  <2>1. SUFFICES ASSUME NEW p \in 1 .. Len(c), NEW q \in 1 .. Len(c), c[p] = c[q] PROVE p = q
    BY <1>2 DEF IsInjective
  <2>2. \A x \in 1 .. Len(c) : x \in 1 .. Len(a) \/ (x \in Len(a) + 1 .. Len(a) + Len(b)
                                                      /\ x - Len(a) \in 1 .. Len(b))
    BY <1>1
  <2>3. ASSUME NEW x \in 1 .. Len(a), NEW y \in Len(a) + 1 .. Len(a) + Len(b) PROVE c[x] # c[y]
    <3>1. c[x] \in Range(a)  BY <1>1, <1>2 DEF Range
    <3>2. y - Len(a) \in 1 .. Len(b)  BY <1>1
    <3>3. c[y] \in Range(b)  BY <1>1, <1>2, <3>2 DEF Range
    <3> QED BY <1>6, <3>1, <3>3
  <2>4. CASE p \in 1 .. Len(a) /\ q \in 1 .. Len(a)  BY <1>1, <1>2, <1>6, <2>1, <2>4 DEF IsInjective
  <2>5. CASE p \in Len(a) + 1 .. Len(a) + Len(b) /\ q \in Len(a) + 1 .. Len(a) + Len(b)
    <3>1. p - Len(a) \in 1 .. Len(b) /\ q - Len(a) \in 1 .. Len(b)  BY <1>1, <2>5
    <3>2. b[p - Len(a)] = b[q - Len(a)]  BY <1>1, <2>1, <2>5
    <3>3. p - Len(a) = q - Len(a)  BY <1>2, <1>6, <3>1, <3>2 DEF IsInjective
    <3> QED BY <1>1, <2>5, <3>3
  <2> QED BY <2>1, <2>2, <2>3, <2>4, <2>5
<1>7. c = a \o b  BY DEF c, Joined
<1>8. Range(c) = Range(a) \cup Range(b)  BY <1>3, <1>4, <1>5
<1> QED BY <1>1, <1>6, <1>7, <1>8

-----------------------------------------------------------------------------
(* Sets and sequences.                                                     *)

\* A finite set as a sequence: its elements, each of them once.
LEMMA SetToSeqElements ==
  ASSUME NEW S, IsFiniteSet(S)
  PROVE  SetToSeq(S) \in Seq(S) /\ IsInjective(SetToSeq(S)) /\ Range(SetToSeq(S)) = S
<1> DEFINE n == Cardinality(S)
           q == SetToSeq(S)
<1>1. n \in Nat /\ ExistsBijection(1 .. n, S)  BY FS_CardinalityType
<1>2. \E f \in [1 .. n -> S] : IsInjective(f)  BY <1>1 DEF ExistsBijection, Bijection, Injection
<1>3. q \in [1 .. n -> S] /\ IsInjective(q)  BY <1>2 DEF SetToSeq
<1> HIDE DEF q
<1>4. q \in Injection(1 .. n, S)  BY <1>3 DEF Injection
<1>5. IsFiniteSet(1 .. n) /\ Cardinality(1 .. n) = n  BY <1>1, FS_Interval
<1>6. q \in Surjection(1 .. n, S)  BY <1>4, <1>5, FS_Injection
<1>7. Range(q) = S  BY <1>3, <1>6 DEF Surjection, Range
<1>8. q \in Seq(S)  BY <1>1, <1>3
<1> QED BY <1>3, <1>7, <1>8 DEF q

\* A sequence in which nothing is twice is as long as the set of its elements is large.
LEMMA InjectiveLength ==
  ASSUME NEW T, NEW s \in Seq(T), IsInjective(s)
  PROVE  IsFiniteSet(Range(s)) /\ Len(s) = Cardinality(Range(s))
<1> DEFINE n == Len(s)
<1>1. n \in Nat /\ DOMAIN s = 1 .. n /\ s \in [1 .. n -> T]  BY LenProperties
<1>2. IsFiniteSet(1 .. n) /\ Cardinality(1 .. n) = n  BY <1>1, FS_Interval
<1>3. s \in [1 .. n -> Range(s)]  BY <1>1 DEF Range
<1>4. s \in Surjection(1 .. n, Range(s))  BY <1>1, <1>3 DEF Surjection, Range
<1>5. s \in Injection(1 .. n, Range(s))  BY <1>3 DEF Injection
<1> HIDE DEF n
<1>6. PICK R : R = Range(s)  OBVIOUS
<1>7. IsFiniteSet(R) /\ (Cardinality(R) = Cardinality(1 .. n) <=> s \in Injection(1 .. n, R))
  BY <1>2, <1>4, <1>6, FS_Surjection
<1> QED BY <1>2, <1>5, <1>6, <1>7 DEF n

=============================================================================
