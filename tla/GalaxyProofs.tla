---------------------------- MODULE GalaxyProofs ----------------------------
(***************************************************************************)
(* What is proved of the population (Galaxy): no star or cluster is made   *)
(* or lost between the parts of a galaxy, a stream replayed gives the same *)
(* population, a result handed out is the one the stars now have, and each *)
(* death is counted once, with what it released.                           *)
(***************************************************************************)
EXTENDS Galaxy, SequenceLemmas

SolvesTotal(f, n, s) == f = [i \in 0 .. n |-> IF i = 0 THEN 0 ELSE f[i - 1] + s[i]]
\* The recursion of Total has a solution.
LEMMA TotalExists ==
  ASSUME NEW s
  PROVE  \A n \in Nat : \E f : SolvesTotal(f, n, s)
<1> DEFINE S == {n \in Nat : \E f : SolvesTotal(f, n, s)}
<1>1. 0 \in S
  <2> DEFINE f == [i \in 0 .. 0 |-> 0]
  <2>1. f = [i \in 0 .. 0 |-> IF i = 0 THEN 0 ELSE f[i - 1] + s[i]]  OBVIOUS
  <2> QED BY <2>1 DEF SolvesTotal
<1>2. ASSUME NEW n \in Nat, n \in S PROVE n + 1 \in S
  <2>1. PICK f : SolvesTotal(f, n, s)  BY <1>2
  <2>2. PICK last : last = f[n] + s[n + 1]  OBVIOUS
  <2> DEFINE g == [i \in 0 .. n + 1 |-> IF i = n + 1 THEN last ELSE f[i]]
  <2>3. ASSUME NEW i \in 0 .. n + 1
        PROVE  g[i] = IF i = 0 THEN 0 ELSE g[i - 1] + s[i]
    <3>1. CASE i = n + 1
      <4>1. i # 0 /\ i - 1 = n /\ i - 1 \in 0 .. n + 1 /\ i - 1 # n + 1  BY <3>1
      <4>2. g[i] = last /\ g[i - 1] = f[n]  BY <3>1, <4>1
      <4> QED BY <2>2, <3>1, <4>1, <4>2
    <3>2. CASE i # n + 1
      <4>1. i \in 0 .. n /\ (i # 0 => i - 1 \in 0 .. n + 1 /\ i - 1 # n + 1)  BY <3>2
      <4>2. g[i] = f[i] /\ (i # 0 => g[i - 1] = f[i - 1])  BY <3>2, <4>1
      <4>3. f[i] = IF i = 0 THEN 0 ELSE f[i - 1] + s[i]  BY <2>1, <4>1 DEF SolvesTotal
      <4> QED BY <4>2, <4>3
    <3> QED BY <3>1, <3>2
  <2>4. g = [i \in 0 .. n + 1 |-> g[i]]  OBVIOUS
  <2>5. [i \in 0 .. n + 1 |-> g[i]]
          = [i \in 0 .. n + 1 |-> IF i = 0 THEN 0 ELSE g[i - 1] + s[i]]
    <3> HIDE DEF g
    <3> QED BY <2>3
  <2> HIDE DEF g
  <2>6. SolvesTotal(g, n + 1, s)  BY <2>4, <2>5 DEF SolvesTotal
  <2> QED BY <2>6
<1> HIDE DEF S
<1>3. \A n \in Nat : n \in S => n + 1 \in S  BY <1>2
<1>4. Nat \subseteq S  BY <1>1, <1>3, SetInduction
<1> QED BY <1>4 DEF S

TotalRun(f, s, n) ==
  /\ Total(s) = f[n]
  /\ f[0] = 0
  /\ \A i \in 1 .. n : f[i] = f[i - 1] + s[i]
\* Total adds up the numbers of a sequence one by one.
LEMMA TotalSteps ==
  ASSUME NEW s, NEW n \in Nat, Len(s) = n
  PROVE  \E f : TotalRun(f, s, n)
<1> DEFINE chosen == CHOOSE f : SolvesTotal(f, n, s)
<1>1. SolvesTotal(chosen, n, s)
  <2>1. \E f : SolvesTotal(f, n, s)  BY TotalExists
  <2> QED BY <2>1
<1>2. Total(s) = chosen[n]  BY DEF Total, SolvesTotal
<1> HIDE DEF chosen
<1>3. \A i \in 0 .. n : chosen[i] = IF i = 0 THEN 0 ELSE chosen[i - 1] + s[i]
  BY <1>1, Zenon DEF SolvesTotal
<1>4. 0 \in 0 .. n /\ \A i \in 1 .. n : i \in 0 .. n /\ i # 0  OBVIOUS
<1>5. TotalRun(chosen, s, n)  BY <1>2, <1>3, <1>4 DEF TotalRun
<1> QED BY <1>5

SolvesSumOf(f, n, bags) == f = [i \in 0 .. n |-> IF i = 0 THEN EmptyBag ELSE f[i - 1] (+) bags[i]]
\* The recursion of SumOf has a solution.
LEMMA SumOfExists ==
  ASSUME NEW bags
  PROVE  \A n \in Nat : \E f : SolvesSumOf(f, n, bags)
<1> DEFINE S == {n \in Nat : \E f : SolvesSumOf(f, n, bags)}
<1>1. 0 \in S
  <2> DEFINE f == [i \in 0 .. 0 |-> EmptyBag]
  <2>1. f = [i \in 0 .. 0 |-> IF i = 0 THEN EmptyBag ELSE f[i - 1] (+) bags[i]]  OBVIOUS
  <2> QED BY <2>1 DEF SolvesSumOf
<1>2. ASSUME NEW n \in Nat, n \in S PROVE n + 1 \in S
  <2>1. PICK f : SolvesSumOf(f, n, bags)  BY <1>2
  <2>2. PICK last : last = f[n] (+) bags[n + 1]  OBVIOUS
  <2> DEFINE g == [i \in 0 .. n + 1 |-> IF i = n + 1 THEN last ELSE f[i]]
  <2>3. ASSUME NEW i \in 0 .. n + 1
        PROVE  g[i] = IF i = 0 THEN EmptyBag ELSE g[i - 1] (+) bags[i]
    <3>1. CASE i = n + 1
      <4>1. i # 0 /\ i - 1 = n /\ i - 1 \in 0 .. n + 1 /\ i - 1 # n + 1  BY <3>1
      <4>2. g[i] = last /\ g[i - 1] = f[n]  BY <3>1, <4>1
      <4> QED BY <2>2, <3>1, <4>1, <4>2
    <3>2. CASE i # n + 1
      <4>1. i \in 0 .. n /\ (i # 0 => i - 1 \in 0 .. n + 1 /\ i - 1 # n + 1)  BY <3>2
      <4>2. g[i] = f[i] /\ (i # 0 => g[i - 1] = f[i - 1])  BY <3>2, <4>1
      <4>3. f[i] = IF i = 0 THEN EmptyBag ELSE f[i - 1] (+) bags[i]  BY <2>1, <4>1 DEF SolvesSumOf
      <4> QED BY <4>2, <4>3
    <3> QED BY <3>1, <3>2
  <2>4. g = [i \in 0 .. n + 1 |-> g[i]]  OBVIOUS
  <2>5. [i \in 0 .. n + 1 |-> g[i]]
          = [i \in 0 .. n + 1 |-> IF i = 0 THEN EmptyBag ELSE g[i - 1] (+) bags[i]]
    <3> HIDE DEF g
    <3> QED BY <2>3
  <2> HIDE DEF g
  <2>6. SolvesSumOf(g, n + 1, bags)  BY <2>4, <2>5 DEF SolvesSumOf
  <2> QED BY <2>6
<1> HIDE DEF S
<1>3. \A n \in Nat : n \in S => n + 1 \in S  BY <1>2
<1>4. Nat \subseteq S  BY <1>1, <1>3, SetInduction
<1> QED BY <1>4 DEF S

SumOfRun(f, bags, n) ==
  /\ SumOf(bags) = f[n]
  /\ f[0] = EmptyBag
  /\ \A i \in 1 .. n : f[i] = f[i - 1] (+) bags[i]
\* SumOf adds up bags one by one.
LEMMA SumOfSteps ==
  ASSUME NEW bags, NEW n \in Nat, Len(bags) = n
  PROVE  \E f : SumOfRun(f, bags, n)
<1> DEFINE chosen == CHOOSE f : SolvesSumOf(f, n, bags)
<1>1. SolvesSumOf(chosen, n, bags)
  <2>1. \E f : SolvesSumOf(f, n, bags)  BY SumOfExists
  <2> QED BY <2>1
<1>2. SumOf(bags) = chosen[n]  BY DEF SumOf, SolvesSumOf
<1> HIDE DEF chosen
<1>3. \A i \in 0 .. n : chosen[i] = IF i = 0 THEN EmptyBag ELSE chosen[i - 1] (+) bags[i]
  BY <1>1, Zenon DEF SolvesSumOf
<1>4. 0 \in 0 .. n /\ \A i \in 1 .. n : i \in 0 .. n /\ i # 0  OBVIOUS
<1>5. SumOfRun(chosen, bags, n)  BY <1>2, <1>3, <1>4 DEF SumOfRun
<1> QED BY <1>5

SolvesCutRange(f, n, out, a, subtrahend) ==
  f = [i \in 0 .. n |-> IF i = 0 THEN [out |-> out, lo |-> a[1]] ELSE CutOne(f[i - 1], subtrahend[i], a[2])]
\* The recursion of CutRange has a solution.
LEMMA CutRangeExists ==
  ASSUME NEW out, NEW a, NEW subtrahend
  PROVE  \A n \in Nat : \E f : SolvesCutRange(f, n, out, a, subtrahend)
<1> DEFINE S == {n \in Nat : \E f : SolvesCutRange(f, n, out, a, subtrahend)}
<1>1. 0 \in S
  <2> DEFINE f == [i \in 0 .. 0 |-> [out |-> out, lo |-> a[1]]]
  <2>1. f = [i \in 0 .. 0 |-> IF i = 0 THEN [out |-> out, lo |-> a[1]] ELSE CutOne(f[i - 1], subtrahend[i], a[2])]
    OBVIOUS
  <2> QED BY <2>1 DEF SolvesCutRange
<1>2. ASSUME NEW n \in Nat, n \in S PROVE n + 1 \in S
  <2>1. PICK f : SolvesCutRange(f, n, out, a, subtrahend)  BY <1>2
  <2>2. PICK last : last = CutOne(f[n], subtrahend[n + 1], a[2])  OBVIOUS
  <2> DEFINE g == [i \in 0 .. n + 1 |-> IF i = n + 1 THEN last ELSE f[i]]
  <2>3. ASSUME NEW i \in 0 .. n + 1
        PROVE  g[i] = IF i = 0 THEN [out |-> out, lo |-> a[1]] ELSE CutOne(g[i - 1], subtrahend[i], a[2])
    <3>1. CASE i = n + 1
      <4>1. i # 0 /\ i - 1 = n /\ i - 1 \in 0 .. n + 1 /\ i - 1 # n + 1  BY <3>1
      <4>2. g[i] = last /\ g[i - 1] = f[n]  BY <3>1, <4>1
      <4> QED BY <2>2, <3>1, <4>1, <4>2
    <3>2. CASE i # n + 1
      <4>1. i \in 0 .. n /\ (i # 0 => i - 1 \in 0 .. n + 1 /\ i - 1 # n + 1)  BY <3>2
      <4>2. g[i] = f[i] /\ (i # 0 => g[i - 1] = f[i - 1])  BY <3>2, <4>1
      <4>3. f[i] = IF i = 0 THEN [out |-> out, lo |-> a[1]] ELSE CutOne(f[i - 1], subtrahend[i], a[2])
        BY <2>1, <4>1 DEF SolvesCutRange
      <4> QED BY <4>2, <4>3
    <3> QED BY <3>1, <3>2
  <2>4. g = [i \in 0 .. n + 1 |-> g[i]]  OBVIOUS
  <2>5. [i \in 0 .. n + 1 |-> g[i]]
          = [i \in 0 .. n + 1 |-> IF i = 0 THEN [out |-> out, lo |-> a[1]] ELSE CutOne(g[i - 1], subtrahend[i], a[2])]
    <3> HIDE DEF g
    <3> QED BY <2>3
  <2> HIDE DEF g
  <2>6. SolvesCutRange(g, n + 1, out, a, subtrahend)  BY <2>4, <2>5 DEF SolvesCutRange
  <2> QED BY <2>6
<1> HIDE DEF S
<1>3. \A n \in Nat : n \in S => n + 1 \in S  BY <1>2
<1>4. Nat \subseteq S  BY <1>1, <1>3, SetInduction
<1> QED BY <1>4 DEF S

CutRangeRun(f, out, a, subtrahend, n) ==
  /\ CutRange(out, a, subtrahend) = IF f[n].lo < a[2] THEN Append(f[n].out, <<f[n].lo, a[2]>>) ELSE f[n].out
  /\ f[0] = [out |-> out, lo |-> a[1]]
  /\ \A i \in 1 .. n : f[i] = CutOne(f[i - 1], subtrahend[i], a[2])
\* A range is cut by one range of the subtrahend after another.
LEMMA CutRangeSteps ==
  ASSUME NEW out, NEW a, NEW subtrahend, NEW n \in Nat, Len(subtrahend) = n
  PROVE  \E f : CutRangeRun(f, out, a, subtrahend, n)
<1> DEFINE chosen == CHOOSE f : SolvesCutRange(f, n, out, a, subtrahend)
<1>1. SolvesCutRange(chosen, n, out, a, subtrahend)
  <2>1. \E f : SolvesCutRange(f, n, out, a, subtrahend)  BY CutRangeExists
  <2> QED BY <2>1
<1>2. CutRange(out, a, subtrahend) = IF chosen[n].lo < a[2] THEN Append(chosen[n].out, <<chosen[n].lo, a[2]>>) ELSE chosen[n].out
  BY DEF CutRange, SolvesCutRange
<1> HIDE DEF chosen
<1>3. \A i \in 0 .. n : chosen[i] = IF i = 0 THEN [out |-> out, lo |-> a[1]] ELSE CutOne(chosen[i - 1], subtrahend[i], a[2])
  BY <1>1, Zenon DEF SolvesCutRange
<1>4. 0 \in 0 .. n /\ \A i \in 1 .. n : i \in 0 .. n /\ i # 0  OBVIOUS
<1>5. CutRangeRun(chosen, out, a, subtrahend, n)  BY <1>2, <1>3, <1>4 DEF CutRangeRun
<1> QED BY <1>5

SolvesSubtractMassRanges(f, n, minuend, subtrahend) ==
  f = [i \in 0 .. n |-> IF i = 0 THEN <<>> ELSE CutRange(f[i - 1], minuend[i], subtrahend)]
\* The recursion of SubtractMassRanges has a solution.
LEMMA SubtractMassRangesExists ==
  ASSUME NEW minuend, NEW subtrahend
  PROVE  \A n \in Nat : \E f : SolvesSubtractMassRanges(f, n, minuend, subtrahend)
<1> DEFINE S == {n \in Nat : \E f : SolvesSubtractMassRanges(f, n, minuend, subtrahend)}
<1>1. 0 \in S
  <2> DEFINE f == [i \in 0 .. 0 |-> <<>>]
  <2>1. f = [i \in 0 .. 0 |-> IF i = 0 THEN <<>> ELSE CutRange(f[i - 1], minuend[i], subtrahend)]
    OBVIOUS
  <2> QED BY <2>1 DEF SolvesSubtractMassRanges
<1>2. ASSUME NEW n \in Nat, n \in S PROVE n + 1 \in S
  <2>1. PICK f : SolvesSubtractMassRanges(f, n, minuend, subtrahend)  BY <1>2
  <2>2. PICK last : last = CutRange(f[n], minuend[n + 1], subtrahend)  OBVIOUS
  <2> DEFINE g == [i \in 0 .. n + 1 |-> IF i = n + 1 THEN last ELSE f[i]]
  <2>3. ASSUME NEW i \in 0 .. n + 1
        PROVE  g[i] = IF i = 0 THEN <<>> ELSE CutRange(g[i - 1], minuend[i], subtrahend)
    <3>1. CASE i = n + 1
      <4>1. i # 0 /\ i - 1 = n /\ i - 1 \in 0 .. n + 1 /\ i - 1 # n + 1  BY <3>1
      <4>2. g[i] = last /\ g[i - 1] = f[n]  BY <3>1, <4>1
      <4> QED BY <2>2, <3>1, <4>1, <4>2
    <3>2. CASE i # n + 1
      <4>1. i \in 0 .. n /\ (i # 0 => i - 1 \in 0 .. n + 1 /\ i - 1 # n + 1)  BY <3>2
      <4>2. g[i] = f[i] /\ (i # 0 => g[i - 1] = f[i - 1])  BY <3>2, <4>1
      <4>3. f[i] = IF i = 0 THEN <<>> ELSE CutRange(f[i - 1], minuend[i], subtrahend)
        BY <2>1, <4>1 DEF SolvesSubtractMassRanges
      <4> QED BY <4>2, <4>3
    <3> QED BY <3>1, <3>2
  <2>4. g = [i \in 0 .. n + 1 |-> g[i]]  OBVIOUS
  <2>5. [i \in 0 .. n + 1 |-> g[i]]
          = [i \in 0 .. n + 1 |-> IF i = 0 THEN <<>> ELSE CutRange(g[i - 1], minuend[i], subtrahend)]
    <3> HIDE DEF g
    <3> QED BY <2>3
  <2> HIDE DEF g
  <2>6. SolvesSubtractMassRanges(g, n + 1, minuend, subtrahend)
    BY <2>4, <2>5 DEF SolvesSubtractMassRanges
  <2> QED BY <2>6
<1> HIDE DEF S
<1>3. \A n \in Nat : n \in S => n + 1 \in S  BY <1>2
<1>4. Nat \subseteq S  BY <1>1, <1>3, SetInduction
<1> QED BY <1>4 DEF S

SubtractMassRangesRun(f, minuend, subtrahend, n) ==
  /\ SubtractMassRanges(minuend, subtrahend) = f[n]
  /\ f[0] = <<>>
  /\ \A i \in 1 .. n : f[i] = CutRange(f[i - 1], minuend[i], subtrahend)
\* One range of the minuend is cut after another.
LEMMA SubtractMassRangesSteps ==
  ASSUME NEW minuend, NEW subtrahend, NEW n \in Nat, Len(minuend) = n
  PROVE  \E f : SubtractMassRangesRun(f, minuend, subtrahend, n)
<1> DEFINE chosen == CHOOSE f : SolvesSubtractMassRanges(f, n, minuend, subtrahend)
<1>1. SolvesSubtractMassRanges(chosen, n, minuend, subtrahend)
  <2>1. \E f : SolvesSubtractMassRanges(f, n, minuend, subtrahend)  BY SubtractMassRangesExists
  <2> QED BY <2>1
<1>2. SubtractMassRanges(minuend, subtrahend) = chosen[n]
  BY DEF SubtractMassRanges, SolvesSubtractMassRanges
<1> HIDE DEF chosen
<1>3. \A i \in 0 .. n : chosen[i] = IF i = 0 THEN <<>> ELSE CutRange(chosen[i - 1], minuend[i], subtrahend)
  BY <1>1, Zenon DEF SolvesSubtractMassRanges
<1>4. 0 \in 0 .. n /\ \A i \in 1 .. n : i \in 0 .. n /\ i # 0  OBVIOUS
<1>5. SubtractMassRangesRun(chosen, minuend, subtrahend, n)
  BY <1>2, <1>3, <1>4 DEF SubtractMassRangesRun
<1> QED BY <1>5

SolvesClustersFormed(f, n, none, masses, t) == f = [i \in 0 .. n |-> IF i = 0 THEN none ELSE FormCluster(f[i - 1], masses[i], t)]
\* The recursion of ClustersFormed has a solution.
LEMMA ClustersFormedExists ==
  ASSUME NEW none, NEW masses, NEW t
  PROVE  \A n \in Nat : \E f : SolvesClustersFormed(f, n, none, masses, t)
<1> DEFINE S == {n \in Nat : \E f : SolvesClustersFormed(f, n, none, masses, t)}
<1>1. 0 \in S
  <2> DEFINE f == [i \in 0 .. 0 |-> none]
  <2>1. f = [i \in 0 .. 0 |-> IF i = 0 THEN none ELSE FormCluster(f[i - 1], masses[i], t)]  OBVIOUS
  <2> QED BY <2>1 DEF SolvesClustersFormed
<1>2. ASSUME NEW n \in Nat, n \in S PROVE n + 1 \in S
  <2>1. PICK f : SolvesClustersFormed(f, n, none, masses, t)  BY <1>2
  <2>2. PICK last : last = FormCluster(f[n], masses[n + 1], t)  OBVIOUS
  <2> DEFINE g == [i \in 0 .. n + 1 |-> IF i = n + 1 THEN last ELSE f[i]]
  <2>3. ASSUME NEW i \in 0 .. n + 1
        PROVE  g[i] = IF i = 0 THEN none ELSE FormCluster(g[i - 1], masses[i], t)
    <3>1. CASE i = n + 1
      <4>1. i # 0 /\ i - 1 = n /\ i - 1 \in 0 .. n + 1 /\ i - 1 # n + 1  BY <3>1
      <4>2. g[i] = last /\ g[i - 1] = f[n]  BY <3>1, <4>1
      <4> QED BY <2>2, <3>1, <4>1, <4>2
    <3>2. CASE i # n + 1
      <4>1. i \in 0 .. n /\ (i # 0 => i - 1 \in 0 .. n + 1 /\ i - 1 # n + 1)  BY <3>2
      <4>2. g[i] = f[i] /\ (i # 0 => g[i - 1] = f[i - 1])  BY <3>2, <4>1
      <4>3. f[i] = IF i = 0 THEN none ELSE FormCluster(f[i - 1], masses[i], t)
        BY <2>1, <4>1 DEF SolvesClustersFormed
      <4> QED BY <4>2, <4>3
    <3> QED BY <3>1, <3>2
  <2>4. g = [i \in 0 .. n + 1 |-> g[i]]  OBVIOUS
  <2>5. [i \in 0 .. n + 1 |-> g[i]]
          = [i \in 0 .. n + 1 |-> IF i = 0 THEN none ELSE FormCluster(g[i - 1], masses[i], t)]
    <3> HIDE DEF g
    <3> QED BY <2>3
  <2> HIDE DEF g
  <2>6. SolvesClustersFormed(g, n + 1, none, masses, t)  BY <2>4, <2>5 DEF SolvesClustersFormed
  <2> QED BY <2>6
<1> HIDE DEF S
<1>3. \A n \in Nat : n \in S => n + 1 \in S  BY <1>2
<1>4. Nat \subseteq S  BY <1>1, <1>3, SetInduction
<1> QED BY <1>4 DEF S

ClustersFormedRun(f, none, masses, t, n) ==
  /\ ClustersFormed(none, masses, t) = f[n]
  /\ f[0] = none
  /\ \A i \in 1 .. n : f[i] = FormCluster(f[i - 1], masses[i], t)
\* One cluster is formed after another.
LEMMA ClustersFormedSteps ==
  ASSUME NEW none, NEW masses, NEW t, NEW n \in Nat, Len(masses) = n
  PROVE  \E f : ClustersFormedRun(f, none, masses, t, n)
<1> DEFINE chosen == CHOOSE f : SolvesClustersFormed(f, n, none, masses, t)
<1>1. SolvesClustersFormed(chosen, n, none, masses, t)
  <2>1. \E f : SolvesClustersFormed(f, n, none, masses, t)  BY ClustersFormedExists
  <2> QED BY <2>1
<1>2. ClustersFormed(none, masses, t) = chosen[n]  BY DEF ClustersFormed, SolvesClustersFormed
<1> HIDE DEF chosen
<1>3. \A i \in 0 .. n : chosen[i] = IF i = 0 THEN none ELSE FormCluster(chosen[i - 1], masses[i], t)
  BY <1>1, Zenon DEF SolvesClustersFormed
<1>4. 0 \in 0 .. n /\ \A i \in 1 .. n : i \in 0 .. n /\ i # 0  OBVIOUS
<1>5. ClustersFormedRun(chosen, none, masses, t, n)  BY <1>2, <1>3, <1>4 DEF ClustersFormedRun
<1> QED BY <1>5

SolvesFieldFormed(f, n, made, masses, t) == f = [i \in 0 .. n |-> IF i = 0 THEN made ELSE FormFieldStar(f[i - 1], masses[i], t)]
\* The recursion of FieldFormed has a solution.
LEMMA FieldFormedExists ==
  ASSUME NEW made, NEW masses, NEW t
  PROVE  \A n \in Nat : \E f : SolvesFieldFormed(f, n, made, masses, t)
<1> DEFINE S == {n \in Nat : \E f : SolvesFieldFormed(f, n, made, masses, t)}
<1>1. 0 \in S
  <2> DEFINE f == [i \in 0 .. 0 |-> made]
  <2>1. f = [i \in 0 .. 0 |-> IF i = 0 THEN made ELSE FormFieldStar(f[i - 1], masses[i], t)]
    OBVIOUS
  <2> QED BY <2>1 DEF SolvesFieldFormed
<1>2. ASSUME NEW n \in Nat, n \in S PROVE n + 1 \in S
  <2>1. PICK f : SolvesFieldFormed(f, n, made, masses, t)  BY <1>2
  <2>2. PICK last : last = FormFieldStar(f[n], masses[n + 1], t)  OBVIOUS
  <2> DEFINE g == [i \in 0 .. n + 1 |-> IF i = n + 1 THEN last ELSE f[i]]
  <2>3. ASSUME NEW i \in 0 .. n + 1
        PROVE  g[i] = IF i = 0 THEN made ELSE FormFieldStar(g[i - 1], masses[i], t)
    <3>1. CASE i = n + 1
      <4>1. i # 0 /\ i - 1 = n /\ i - 1 \in 0 .. n + 1 /\ i - 1 # n + 1  BY <3>1
      <4>2. g[i] = last /\ g[i - 1] = f[n]  BY <3>1, <4>1
      <4> QED BY <2>2, <3>1, <4>1, <4>2
    <3>2. CASE i # n + 1
      <4>1. i \in 0 .. n /\ (i # 0 => i - 1 \in 0 .. n + 1 /\ i - 1 # n + 1)  BY <3>2
      <4>2. g[i] = f[i] /\ (i # 0 => g[i - 1] = f[i - 1])  BY <3>2, <4>1
      <4>3. f[i] = IF i = 0 THEN made ELSE FormFieldStar(f[i - 1], masses[i], t)
        BY <2>1, <4>1 DEF SolvesFieldFormed
      <4> QED BY <4>2, <4>3
    <3> QED BY <3>1, <3>2
  <2>4. g = [i \in 0 .. n + 1 |-> g[i]]  OBVIOUS
  <2>5. [i \in 0 .. n + 1 |-> g[i]]
          = [i \in 0 .. n + 1 |-> IF i = 0 THEN made ELSE FormFieldStar(g[i - 1], masses[i], t)]
    <3> HIDE DEF g
    <3> QED BY <2>3
  <2> HIDE DEF g
  <2>6. SolvesFieldFormed(g, n + 1, made, masses, t)  BY <2>4, <2>5 DEF SolvesFieldFormed
  <2> QED BY <2>6
<1> HIDE DEF S
<1>3. \A n \in Nat : n \in S => n + 1 \in S  BY <1>2
<1>4. Nat \subseteq S  BY <1>1, <1>3, SetInduction
<1> QED BY <1>4 DEF S

FieldFormedRun(f, made, masses, t, n) ==
  /\ FieldFormed(made, masses, t) = f[n]
  /\ f[0] = made
  /\ \A i \in 1 .. n : f[i] = FormFieldStar(f[i - 1], masses[i], t)
\* One field star is formed after another.
LEMMA FieldFormedSteps ==
  ASSUME NEW made, NEW masses, NEW t, NEW n \in Nat, Len(masses) = n
  PROVE  \E f : FieldFormedRun(f, made, masses, t, n)
<1> DEFINE chosen == CHOOSE f : SolvesFieldFormed(f, n, made, masses, t)
<1>1. SolvesFieldFormed(chosen, n, made, masses, t)
  <2>1. \E f : SolvesFieldFormed(f, n, made, masses, t)  BY FieldFormedExists
  <2> QED BY <2>1
<1>2. FieldFormed(made, masses, t) = chosen[n]  BY DEF FieldFormed, SolvesFieldFormed
<1> HIDE DEF chosen
<1>3. \A i \in 0 .. n : chosen[i] = IF i = 0 THEN made ELSE FormFieldStar(chosen[i - 1], masses[i], t)
  BY <1>1, Zenon DEF SolvesFieldFormed
<1>4. 0 \in 0 .. n /\ \A i \in 1 .. n : i \in 0 .. n /\ i # 0  OBVIOUS
<1>5. FieldFormedRun(chosen, made, masses, t, n)  BY <1>2, <1>3, <1>4 DEF FieldFormedRun
<1> QED BY <1>5

Before(key, i, n) == {j \in 1 .. n : key[j] < key[i] \/ (key[j] = key[i] /\ j <= i)}
Place(key, n) == [i \in 1 .. n |-> Cardinality(Before(key, i, n))]

\* The rank of an element in a sequence to be sorted: every rank is one element's, and
\* ranks follow the keys.
LEMMA PlaceIsRank ==
  ASSUME NEW n \in Nat, NEW key \in [1 .. n -> Int]
  PROVE  /\ Place(key, n) \in Bijection(1 .. n, 1 .. n)
         /\ \A i, k \in 1 .. n : Place(key, n)[i] <= Place(key, n)[k] => key[i] <= key[k]
<1>1. IsFiniteSet(1 .. n) /\ Cardinality(1 .. n) = n  BY FS_Interval
<1>2. ASSUME NEW i \in 1 .. n
      PROVE  IsFiniteSet(Before(key, i, n)) /\ Cardinality(Before(key, i, n)) \in 1 .. n
  <2>1. Before(key, i, n) \in SUBSET (1 .. n) /\ i \in Before(key, i, n)  BY DEF Before
  <2>2. IsFiniteSet(Before(key, i, n)) /\ Cardinality(Before(key, i, n)) <= n
    BY <1>1, <2>1, FS_Subset
  <2>3. Cardinality(Before(key, i, n)) # 0  BY <2>1, <2>2, FS_EmptySet
  <2>4. Cardinality(Before(key, i, n)) \in Nat  BY <2>2, FS_CardinalityType
  <2> QED BY <2>2, <2>3, <2>4
<1>3. ASSUME NEW i \in 1 .. n, NEW k \in 1 .. n, key[i] < key[k] \/ (key[i] = key[k] /\ i < k)
      PROVE  Cardinality(Before(key, i, n)) < Cardinality(Before(key, k, n))
  <2>1. key[i] \in Int /\ key[k] \in Int  OBVIOUS
  <2>2. Before(key, i, n) \subseteq Before(key, k, n)
    <3> SUFFICES ASSUME NEW j \in 1 .. n, key[j] < key[i] \/ (key[j] = key[i] /\ j <= i)
                 PROVE  key[j] < key[k] \/ (key[j] = key[k] /\ j <= k)
      BY DEF Before
    <3>1. key[j] \in Int  OBVIOUS
    <3> QED BY <1>3, <2>1, <3>1
  <2>3. k \in Before(key, k, n) /\ k \notin Before(key, i, n)  BY <1>3, <2>1 DEF Before
  <2>4. /\ Cardinality(Before(key, i, n)) <= Cardinality(Before(key, k, n))
        /\ Cardinality(Before(key, i, n)) # Cardinality(Before(key, k, n))
    BY <1>2, <2>2, <2>3, FS_Subset
  <2>5. Cardinality(Before(key, i, n)) \in Int /\ Cardinality(Before(key, k, n)) \in Int  BY <1>2
  <2> QED BY <2>4, <2>5
<1> DEFINE place == Place(key, n)
<1>4. place \in [1 .. n -> 1 .. n] /\ \A i \in 1 .. n : place[i] = Cardinality(Before(key, i, n))
  BY <1>2 DEF Place
<1> HIDE DEF place
<1>5. \A i, k \in 1 .. n : key[i] < key[k] \/ (key[i] = key[k] /\ i < k) => place[i] < place[k]
  BY <1>3, <1>4
<1>6. \A i, k \in 1 .. n : place[i] = place[k] => i = k
  <2> SUFFICES ASSUME NEW i \in 1 .. n, NEW k \in 1 .. n, place[i] = place[k] PROVE i = k
    OBVIOUS
  <2>1. key[i] \in Int /\ key[k] \in Int /\ place[i] \in Int /\ place[k] \in Int  BY <1>4
  <2> QED BY <1>5, <2>1
<1>7. place \in Injection(1 .. n, 1 .. n)  BY <1>4, <1>6 DEF Injection, IsInjective
<1>8. place \in Surjection(1 .. n, 1 .. n)  BY <1>1, <1>7, FS_Injection
<1>9. \A i, k \in 1 .. n : place[i] <= place[k] => key[i] <= key[k]
  <2> SUFFICES ASSUME NEW i \in 1 .. n, NEW k \in 1 .. n, place[i] <= place[k] PROVE key[i] <= key[k]
    OBVIOUS
  <2>1. key[i] \in Int /\ key[k] \in Int /\ place[i] \in Int /\ place[k] \in Int  BY <1>4
  <2> QED BY <1>5, <2>1
<1> QED BY <1>7, <1>8, <1>9 DEF Bijection, place

SortedBy(t, s, key, n, f) ==
  /\ f \in [1 .. n -> 1 .. n]
  /\ \A p, q \in 1 .. n : f[p] = f[q] => p = q
  /\ \A i \in 1 .. n : \E p \in 1 .. n : f[p] = i
  /\ \A p \in 1 .. n : t[p] = s[f[p]]
  /\ \A p, q \in 1 .. n : p <= q => key[f[p]] <= key[f[q]]
\* A sorted sequence holds the elements of the sequence in another order, with their keys
\* in ascending order.
LEMMA SortedIs ==
  ASSUME NEW T, NEW s \in Seq(T), NEW n \in Nat, Len(s) = n, NEW key \in [1 .. n -> Int]
  PROVE  /\ Sorted(s, key) \in Seq(T) /\ Len(Sorted(s, key)) = n
         /\ \E f : SortedBy(Sorted(s, key), s, key, n, f)
<1> DEFINE place == Place(key, n)
           f == [p \in 1 .. n |-> CHOOSE i \in 1 .. n : place[i] = p]
<1>1. /\ place \in [1 .. n -> 1 .. n]
      /\ \A p \in 1 .. n : \E i \in 1 .. n : place[i] = p
      /\ \A i, k \in 1 .. n : place[i] <= place[k] => key[i] <= key[k]
  BY PlaceIsRank, ZenonT(60) DEF Bijection, Injection, Surjection
<1>2. \A i, k \in 1 .. n : place[i] = place[k] => i = k
  BY PlaceIsRank, SMTT(30) DEF Bijection, Injection, IsInjective
<1>3. DOMAIN s = 1 .. n  OBVIOUS
<1>4. \A i \in 1 .. n : place[i] = Cardinality({j \in 1 .. n : key[j] < key[i] \/ (key[j] = key[i] /\ j <= i)})
  BY DEF Place, Before
<1> HIDE DEF place
<1>5. Sorted(s, key)
        = [p \in 1 .. n |-> s[CHOOSE i \in 1 .. n :
             Cardinality({j \in 1 .. n : key[j] < key[i] \/ (key[j] = key[i] /\ j <= i)}) = p]]
  BY <1>3 DEF Sorted
<1>6. \A p \in 1 .. n : (CHOOSE i \in 1 .. n :
             Cardinality({j \in 1 .. n : key[j] < key[i] \/ (key[j] = key[i] /\ j <= i)}) = p)
             = CHOOSE i \in 1 .. n : place[i] = p
  BY <1>4
<1>7. \A p \in 1 .. n : f[p] \in 1 .. n /\ place[f[p]] = p  BY <1>1
<1>8. \A p \in 1 .. n : Sorted(s, key)[p] = s[f[p]]  BY <1>5, <1>6
<1>9. f \in [1 .. n -> 1 .. n]  BY <1>7
<1>10. Sorted(s, key) = [p \in 1 .. n |-> Sorted(s, key)[p]]  BY <1>5, Zenon
<1> HIDE DEF f
<1>11. \A p \in 1 .. n : s[f[p]] \in T  BY <1>7
<1>12. Sorted(s, key) \in [1 .. n -> T]
  <2> HIDE DEF f
  <2> DEFINE t == Sorted(s, key)
  <2>1. t = [p \in 1 .. n |-> t[p]] /\ \A p \in 1 .. n : t[p] \in T  BY <1>8, <1>10, <1>11
  <2> HIDE DEF t
  <2>2. t \in [1 .. n -> T]  BY <2>1
  <2> QED BY <2>2 DEF t
<1>13. Sorted(s, key) \in Seq(T) /\ Len(Sorted(s, key)) = n  BY <1>12
<1>14. \A p, q \in 1 .. n : f[p] = f[q] => p = q  BY <1>7
<1>15. \A i \in 1 .. n : \E p \in 1 .. n : f[p] = i
  <2> TAKE i \in 1 .. n
  <2>1. place[i] \in 1 .. n  BY <1>1
  <2>2. f[place[i]] = i  BY <1>2, <1>7, <2>1
  <2> QED BY <2>1, <2>2
<1>16. \A p, q \in 1 .. n : p <= q => key[f[p]] <= key[f[q]]
  <2> SUFFICES ASSUME NEW p \in 1 .. n, NEW q \in 1 .. n, p <= q PROVE key[f[p]] <= key[f[q]]
    OBVIOUS
  <2>1. f[p] \in 1 .. n /\ f[q] \in 1 .. n /\ place[f[p]] <= place[f[q]]  BY <1>7
  <2> QED BY <1>1, <2>1
<1> QED BY <1>8, <1>9, <1>13, <1>14, <1>15, <1>16 DEF SortedBy

\* A sorted sequence has the elements of the sequence, each as often.
LEMMA SortedElements ==
  ASSUME NEW T, NEW s \in Seq(T), NEW key \in [1 .. Len(s) -> Int]
  PROVE  /\ Sorted(s, key) \in Seq(T) /\ Len(Sorted(s, key)) = Len(s)
         /\ Range(Sorted(s, key)) = Range(s)
         /\ IsInjective(s) => IsInjective(Sorted(s, key))
<1>1. PICK n : n = Len(s)  OBVIOUS
<1>2. n \in Nat /\ DOMAIN s = 1 .. n /\ key \in [1 .. n -> Int]  BY <1>1
<1>3. PICK t : t = Sorted(s, key)  OBVIOUS
<1>4. t \in Seq(T) /\ Len(t) = n /\ \E f : SortedBy(t, s, key, n, f)  BY <1>1, <1>2, <1>3, SortedIs
<1>5. PICK f : SortedBy(t, s, key, n, f)  BY <1>4
<1>6. DOMAIN t = 1 .. n  BY <1>4
<1>7. /\ \A p \in 1 .. n : f[p] \in 1 .. n /\ t[p] = s[f[p]]
      /\ \A i \in 1 .. n : \E p \in 1 .. n : f[p] = i
      /\ \A p, q \in 1 .. n : f[p] = f[q] => p = q
  BY <1>5 DEF SortedBy
<1>8. Range(t) = Range(s)
  <2>1. ASSUME NEW p \in 1 .. n PROVE t[p] \in Range(s)
    <3>1. f[p] \in DOMAIN s /\ t[p] = s[f[p]]  BY <1>2, <1>7
    <3> QED BY <3>1, Zenon DEF Range
  <2>2. ASSUME NEW i \in 1 .. n PROVE s[i] \in Range(t)
    <3>1. PICK p \in 1 .. n : f[p] = i  BY <1>7
    <3>2. p \in DOMAIN t /\ t[p] = s[i]  BY <1>6, <1>7, <3>1
    <3> QED BY <3>2, Zenon DEF Range
  <2> QED BY <1>2, <1>6, <2>1, <2>2, Zenon DEF Range
<1>9. IsInjective(s) => IsInjective(t)
  <2> SUFFICES ASSUME IsInjective(s), NEW p \in 1 .. n, NEW q \in 1 .. n, t[p] = t[q] PROVE p = q
    BY <1>6, Zenon DEF IsInjective
  <2>1. f[p] \in DOMAIN s /\ f[q] \in DOMAIN s /\ s[f[p]] = s[f[q]]  BY <1>2, <1>7
  <2>2. f[p] = f[q]  BY <2>1, Zenon DEF IsInjective
  <2> QED BY <1>7, <2>2
<1> QED BY <1>1, <1>3, <1>4, <1>8, <1>9

PickedBy(t, s, places, n, g) ==
  /\ g \in [1 .. Len(t) -> 1 .. n]
  /\ \A p \in 1 .. Len(t) : t[p] = s[g[p]] /\ g[p] \in places
  /\ \A p, q \in 1 .. Len(t) : p < q => g[p] < g[q]
  /\ \A i \in 1 .. n : i \in places => \E p \in 1 .. Len(t) : g[p] = i
\* The elements picked from a sequence are those at the places, in their order.
LEMMA PickedIs ==
  ASSUME NEW T, NEW s \in Seq(T), NEW n \in Nat, Len(s) = n, NEW places
  PROVE  Picked(s, places) \in Seq(T) /\ \E g : PickedBy(Picked(s, places), s, places, n, g)
<1>1. PICK seqs : seqs = [i \in 1 .. n |-> IF i \in places THEN <<s[i]>> ELSE <<>>]  OBVIOUS
<1>2. PICK t : t = FlattenSeq(seqs)  OBVIOUS
<1>3. DOMAIN s = 1 .. n /\ \A i \in 1 .. n : s[i] \in T  OBVIOUS
<1>4. Picked(s, places) = t  BY <1>1, <1>2, <1>3 DEF Picked
<1>5. \A i \in 1 .. n : IF i \in places THEN seqs[i] = <<s[i]>> ELSE seqs[i] = <<>>  BY <1>1
<1>6. ASSUME NEW i \in 1 .. n
      PROVE  /\ seqs[i] \in Seq(T)
             /\ i \in places => Len(seqs[i]) = 1
             /\ i \notin places => Len(seqs[i]) = 0
  <2>1. CASE i \in places
    <3>1. seqs[i] = <<s[i]>> /\ s[i] \in T  BY <1>3, <1>5, <2>1
    <3> QED BY <2>1, <3>1
  <2>2. CASE i \notin places
    <3>1. seqs[i] = <<>>  BY <1>5, <2>2
    <3> QED BY <2>2, <3>1
  <2> QED BY <2>1, <2>2
<1>7. seqs \in [1 .. n -> Seq(T)]
  <2>1. seqs = [i \in 1 .. n |-> seqs[i]]  BY <1>1
  <2>2. \A i \in 1 .. n : seqs[i] \in Seq(T)  BY <1>6
  <2> QED BY <2>1, <2>2
<1>8. SeqOfSeqs(seqs, n, T)  BY <1>7 DEF SeqOfSeqs
<1>9. t \in Seq(T) /\ \E off \in [0 .. n -> Nat] : OffsetsOf(off, seqs, n)
  BY <1>2, <1>8, FlattenOffsets
<1>10. PICK off \in [0 .. n -> Nat] : OffsetsOf(off, seqs, n)  BY <1>9
<1>11. /\ off[n] = Len(t)
       /\ \A i, k \in 0 .. n : i <= k => off[i] <= off[k]
       /\ \A p \in 1 .. off[n] : \E i \in 1 .. n : off[i - 1] < p /\ p <= off[i]
  BY <1>2, <1>10 DEF OffsetsOf
<1>12. ASSUME NEW i \in 1 .. n
       PROVE  /\ off[i - 1] \in Nat /\ off[i] \in Nat
              /\ off[i] = off[i - 1] + (IF i \in places THEN 1 ELSE 0)
              /\ \A p \in off[i - 1] + 1 .. off[i] : t[p] = s[i]
  <2>1. /\ off[i - 1] \in Nat /\ off[i] \in Nat /\ off[i] = off[i - 1] + Len(seqs[i])
        /\ \A p \in off[i - 1] + 1 .. off[i] : t[p] = seqs[i][p - off[i - 1]]
    <3>1. Placed(off, seqs, n, i)  BY <1>8, <1>10, OffsetsGrow
    <3> QED BY <1>2, <3>1 DEF Placed
  <2>2. off[i] = off[i - 1] + (IF i \in places THEN 1 ELSE 0)  BY <1>6, <2>1
  <2>3. ASSUME NEW p \in off[i - 1] + 1 .. off[i] PROVE t[p] = s[i]
    <3>1. i \in places /\ p - off[i - 1] = 1  BY <2>1, <2>2
    <3>2. seqs[i][1] = s[i]  BY <1>5, <3>1
    <3> QED BY <2>1, <3>1, <3>2
  <2> QED BY <2>1, <2>2, <2>3
<1>13. Len(t) \in Nat /\ \A p \in 1 .. Len(t) : p \in Nat  BY <1>9
<1> DEFINE In(p, i) == off[i - 1] < p /\ p <= off[i]
           g == [p \in 1 .. Len(t) |-> CHOOSE i \in 1 .. n : In(p, i)]
<1>14. \A p \in 1 .. Len(t) : g[p] \in 1 .. n /\ In(p, g[p])  BY <1>11
<1>15. g \in [1 .. Len(t) -> 1 .. n]  BY <1>14
<1> HIDE DEF g
<1>16. ASSUME NEW p \in 1 .. Len(t) PROVE t[p] = s[g[p]] /\ g[p] \in places
  <2>1. PICK i \in 1 .. n : i = g[p]  BY <1>14
  <2>2. In(p, i)  BY <1>14, <2>1
  <2>3. i \in places /\ p \in off[i - 1] + 1 .. off[i]
    <3>1. off[i - 1] < p /\ p <= off[i] /\ p \in Nat  BY <1>13, <2>2
    <3>2. off[i - 1] \in Nat /\ off[i] \in Nat /\ (i \notin places => off[i] = off[i - 1])  BY <1>12
    <3> QED BY <3>1, <3>2
  <2>4. t[p] = s[i]  BY <1>12, <2>3
  <2> QED BY <2>1, <2>3, <2>4
<1>17. ASSUME NEW p \in 1 .. Len(t), NEW q \in 1 .. Len(t), p < q PROVE g[p] < g[q]
  <2>1. PICK i \in 1 .. n : i = g[p]  BY <1>14
  <2>2. PICK k \in 1 .. n : k = g[q]  BY <1>14
  <2>3. In(p, i) /\ In(q, k)  BY <1>14, <2>1, <2>2
  <2>4. off[i - 1] \in Nat /\ off[i] \in Nat /\ off[i] <= off[i - 1] + 1 /\ off[k] \in Nat
    <3>1. off[i] = off[i - 1] + 1 \/ off[i] = off[i - 1] + 0  BY <1>12
    <3> QED BY <1>12, <3>1
  <2>5. k # i
    <3> SUFFICES ASSUME k = i PROVE FALSE
      OBVIOUS
    <3>1. off[i - 1] < p /\ q <= off[i]  BY <2>3
    <3> QED BY <1>13, <1>17, <2>4, <3>1
  <2>6. ~(k < i)
    <3> SUFFICES ASSUME k < i PROVE FALSE
      OBVIOUS
    <3>1. k \in 0 .. n /\ i - 1 \in 0 .. n /\ k <= i - 1  OBVIOUS
    <3>2. off[k] <= off[i - 1]  BY <1>11, <3>1
    <3> QED BY <1>13, <1>17, <2>3, <2>4, <3>2
  <2>7. i < k  BY <2>5, <2>6
  <2> QED BY <2>1, <2>2, <2>7
<1>18. ASSUME NEW i \in 1 .. n, i \in places PROVE \E p \in 1 .. Len(t) : g[p] = i
  <2>1. PICK p : p = off[i]  OBVIOUS
  <2>2. off[i - 1] \in Nat /\ p \in Nat /\ p = off[i - 1] + 1  BY <1>12, <1>18, <2>1
  <2>3. i \in 0 .. n /\ n \in 0 .. n /\ i <= n  OBVIOUS
  <2>4. p <= Len(t)  BY <1>11, <2>1, <2>3
  <2>5. p \in 1 .. Len(t)  BY <1>13, <2>2, <2>4
  <2>6. PICK k \in 1 .. n : k = g[p]  BY <1>14, <2>5
  <2>7. off[k - 1] < p /\ p <= off[k]  BY <1>14, <2>5, <2>6
  <2>8. off[k - 1] \in Nat /\ off[k] \in Nat  BY <1>12
  <2>9. ~(k < i)
    <3> SUFFICES ASSUME k < i PROVE FALSE
      OBVIOUS
    <3>1. k \in 0 .. n /\ i - 1 \in 0 .. n /\ k <= i - 1  OBVIOUS
    <3>2. off[k] <= off[i - 1]  BY <1>11, <3>1
    <3> QED BY <2>2, <2>7, <2>8, <3>2
  <2>10. ~(i < k)
    <3> SUFFICES ASSUME i < k PROVE FALSE
      OBVIOUS
    <3>1. i \in 0 .. n /\ k - 1 \in 0 .. n /\ i <= k - 1  OBVIOUS
    <3>2. off[i] <= off[k - 1]  BY <1>11, <3>1
    <3> QED BY <2>1, <2>2, <2>7, <2>8, <3>2
  <2> QED BY <2>5, <2>6, <2>9, <2>10
<1>19. PickedBy(t, s, places, n, g)  BY <1>15, <1>16, <1>17, <1>18 DEF PickedBy
<1> QED BY <1>4, <1>9, <1>19

\* What is picked from a sequence, and that nothing is picked twice.
LEMMA PickedElements ==
  ASSUME NEW T, NEW s \in Seq(T), NEW places
  PROVE  /\ Picked(s, places) \in Seq(T)
         /\ Range(Picked(s, places)) = {s[i] : i \in {k \in DOMAIN s : k \in places}}
         /\ IsInjective(s) => IsInjective(Picked(s, places))
<1>1. PICK n : n = Len(s)  OBVIOUS
<1>2. n \in Nat /\ DOMAIN s = 1 .. n  BY <1>1
<1>3. PICK t : t = Picked(s, places)  OBVIOUS
<1>4. t \in Seq(T) /\ \E g : PickedBy(t, s, places, n, g)  BY <1>1, <1>2, <1>3, PickedIs
<1>5. PICK g : PickedBy(t, s, places, n, g)  BY <1>4
<1>6. PICK m \in Nat : m = Len(t) /\ DOMAIN t = 1 .. m  BY <1>4
<1>7. /\ \A p \in 1 .. m : g[p] \in 1 .. n /\ t[p] = s[g[p]] /\ g[p] \in places
      /\ \A p, q \in 1 .. m : p < q => g[p] < g[q]
      /\ \A i \in 1 .. n : i \in places => \E p \in 1 .. m : g[p] = i
  BY <1>5, <1>6 DEF PickedBy
<1>8. Range(t) = {s[i] : i \in {k \in DOMAIN s : k \in places}}
  <2>1. ASSUME NEW p \in 1 .. m PROVE t[p] \in {s[i] : i \in {k \in DOMAIN s : k \in places}}
    <3>1. g[p] \in DOMAIN s /\ t[p] = s[g[p]] /\ g[p] \in places  BY <1>2, <1>7
    <3> QED BY <3>1
  <2>2. ASSUME NEW i \in 1 .. n, i \in places PROVE s[i] \in Range(t)
    <3>1. PICK p \in 1 .. m : g[p] = i  BY <1>7, <2>2
    <3>2. p \in DOMAIN t /\ t[p] = s[i]  BY <1>6, <1>7, <3>1
    <3> QED BY <3>2, Zenon DEF Range
  <2> QED BY <1>2, <1>6, <2>1, <2>2, Zenon DEF Range
<1>9. IsInjective(s) => IsInjective(t)
  <2> SUFFICES ASSUME IsInjective(s), NEW p \in 1 .. m, NEW q \in 1 .. m, t[p] = t[q] PROVE p = q
    BY <1>6, Zenon DEF IsInjective
  <2>1. g[p] \in DOMAIN s /\ g[q] \in DOMAIN s /\ s[g[p]] = s[g[q]] /\ g[p] \in Int /\ g[q] \in Int
    BY <1>2, <1>7
  <2>2. g[p] = g[q]  BY <2>1, Zenon DEF IsInjective
  <2>3. ~(p < q) /\ ~(q < p)  BY <1>7, <2>1, <2>2
  <2> QED BY <2>3
<1> QED BY <1>3, <1>4, <1>8, <1>9

\* Two sets that have nothing in common, as bags, add up to their union.
LEMMA BagsOfSets ==
  ASSUME NEW A, NEW B, A \cap B = {}
  PROVE  SetToBag(A) (+) SetToBag(B) = SetToBag(A \cup B)
<1>1. DOMAIN SetToBag(A) = A /\ DOMAIN SetToBag(B) = B  BY DEF SetToBag
<1>2. \A e \in A : SetToBag(A)[e] = 1  BY DEF SetToBag
<1>3. \A e \in B : SetToBag(B)[e] = 1  BY DEF SetToBag
<1>4. SetToBag(A) (+) SetToBag(B)
        = [e \in A \cup B |-> (IF e \in A THEN SetToBag(A)[e] ELSE 0)
                              + (IF e \in B THEN SetToBag(B)[e] ELSE 0)]
  BY <1>1 DEF (+)
<1>5. ASSUME NEW e \in A \cup B
      PROVE  (IF e \in A THEN SetToBag(A)[e] ELSE 0) + (IF e \in B THEN SetToBag(B)[e] ELSE 0) = 1
  <2>1. CASE e \in A
    <3>1. e \notin B /\ SetToBag(A)[e] = 1  BY <1>2, <2>1
    <3> QED BY <2>1, <3>1
  <2>2. CASE e \in B
    <3>1. e \notin A /\ SetToBag(B)[e] = 1  BY <1>3, <2>2
    <3> QED BY <2>2, <3>1
  <2> QED BY <2>1, <2>2
<1>6. [e \in A \cup B |-> (IF e \in A THEN SetToBag(A)[e] ELSE 0)
                          + (IF e \in B THEN SetToBag(B)[e] ELSE 0)]
        = [e \in A \cup B |-> 1]
  BY <1>5
<1> QED BY <1>4, <1>6 DEF SetToBag

\* Bags that each hold a set, the sets without common elements, add up to their union.
LEMMA SumOfSets ==
  ASSUME NEW n \in Nat, NEW bags, Len(bags) = n, NEW sets,
         \A i \in 1 .. n : bags[i] = SetToBag(sets[i]),
         \A i, k \in 1 .. n : i < k => sets[i] \cap sets[k] = {}
  PROVE  SumOf(bags) = SetToBag(UNION {sets[i] : i \in 1 .. n})
<1>0. PICK f : SumOfRun(f, bags, n)  BY SumOfSteps
<1>1. /\ SumOf(bags) = f[n]
      /\ f[0] = EmptyBag
      /\ \A i \in 1 .. n : f[i] = f[i - 1] (+) bags[i]
  BY <1>0 DEF SumOfRun
<1> DEFINE Upto(k) == UNION {sets[i] : i \in 1 .. k}
           S == {k \in Nat : k <= n => f[k] = SetToBag(Upto(k))}
<1>2. 0 \in S
  <2>1. Upto(0) = {}  OBVIOUS
  <2> HIDE DEF Upto
  <2> QED BY <1>1, <2>1 DEF EmptyBag
<1>3. ASSUME NEW k \in Nat, k \in S PROVE k + 1 \in S
  <2> SUFFICES ASSUME k + 1 <= n PROVE f[k + 1] = SetToBag(Upto(k + 1))
    OBVIOUS
  <2>1. PICK i \in 1 .. n : i = k + 1  OBVIOUS
  <2>2. f[k] = SetToBag(Upto(k))  BY <1>3
  <2>3. i - 1 = k  BY <2>1
  <2>4. f[i] = SetToBag(Upto(k)) (+) SetToBag(sets[i])  BY <1>1, <2>2, <2>3
  <2>5. \A j \in 1 .. k : j \in 1 .. n /\ j < i  BY <2>1
  <2>6. Upto(k) \cap sets[i] = {}  BY <2>5
  <2>7. Upto(k) \cup sets[i] = Upto(k + 1)
    <3>1. 1 .. k + 1 = (1 .. k) \cup {i}  BY <2>1
    <3> QED BY <3>1, ZenonT(60)
  <2> HIDE DEF Upto
  <2>8. SetToBag(Upto(k)) (+) SetToBag(sets[i]) = SetToBag(Upto(k) \cup sets[i])
    BY <2>6, BagsOfSets
  <2> QED BY <2>1, <2>4, <2>7, <2>8
<1> HIDE DEF S
<1>4. \A k \in Nat : k \in S => k + 1 \in S  BY <1>3
<1>5. Nat \subseteq S  BY <1>2, <1>4, SetInduction
<1>6. n \in S  BY <1>5
<1> QED BY <1>1, <1>6 DEF S

\* A total is a number, and not less than the length of a sequence of positive ones.
LEMMA TotalIsNat ==
  ASSUME NEW s \in Seq(Nat)
  PROVE  /\ Total(s) \in Nat
         /\ (\A i \in 1 .. Len(s) : s[i] >= 1) => Total(s) >= Len(s)
<1>1. PICK n \in Nat : n = Len(s)  OBVIOUS
<1>2. \A i \in 1 .. n : s[i] \in Nat  BY <1>1
<1>0. PICK f : TotalRun(f, s, n)  BY <1>1, TotalSteps
<1>3. /\ Total(s) = f[n]
      /\ f[0] = 0
      /\ \A i \in 1 .. n : f[i] = f[i - 1] + s[i]
  BY <1>0 DEF TotalRun
<1> DEFINE Positive == \A i \in 1 .. n : s[i] >= 1
           S == {k \in Nat : k <= n => f[k] \in Nat /\ (Positive => f[k] >= k)}
<1> HIDE DEF Positive
<1>4. 0 \in S  BY <1>3
<1>5. ASSUME NEW k \in Nat, k \in S PROVE k + 1 \in S
  <2> SUFFICES ASSUME k + 1 <= n PROVE f[k + 1] \in Nat /\ (Positive => f[k + 1] >= k + 1)
    OBVIOUS
  <2>1. PICK i \in 1 .. n : i = k + 1 /\ i - 1 = k  OBVIOUS
  <2>2. f[k] \in Nat /\ (Positive => f[k] >= k)  BY <1>5
  <2>3. f[i] = f[k] + s[i] /\ s[i] \in Nat  BY <1>2, <1>3, <2>1
  <2>4. Positive => s[i] >= 1  BY DEF Positive
  <2> QED BY <2>1, <2>2, <2>3, <2>4
<1> HIDE DEF S
<1>6. \A k \in Nat : k \in S => k + 1 \in S  BY <1>5
<1>7. Nat \subseteq S  BY <1>4, <1>6, SetInduction
<1>8. n \in S  BY <1>7
<1>9. Total(s) \in Nat /\ (Positive => Total(s) >= n)  BY <1>3, <1>8 DEF S
<1> QED BY <1>1, <1>9 DEF Positive

TapeOk == tape \in Seq(Nat) /\ tape # <<>>
\* A draw is in its range.
LEMMA DrawAtInRange ==
  ASSUME TapeOk, NEW p \in Nat, NEW lo \in Int, NEW hi \in Int, lo <= hi
  PROVE  DrawAt(p, lo, hi) \in lo .. hi
<1>1. PICK n \in Nat : n = Len(tape) /\ n >= 1  BY DEF TapeOk
<1>2. PICK place : place = (p % n) + 1  OBVIOUS
<1>3. place \in 1 .. n  BY <1>1, <1>2
<1>4. PICK x : x = tape[place]  OBVIOUS
<1>5. x \in Nat  BY <1>1, <1>3, <1>4 DEF TapeOk
<1>6. PICK width \in Nat : width = hi - lo + 1 /\ width >= 1  OBVIOUS
<1>7. PICK r : r = x % width  OBVIOUS
<1>8. r \in 0 .. width - 1  BY <1>5, <1>6, <1>7
<1>9. DrawAt(p, lo, hi) = lo + r  BY <1>1, <1>2, <1>4, <1>6, <1>7 DEF DrawAt
<1> QED BY <1>6, <1>8, <1>9

\* Several draws are as many numbers of the range.
LEMMA DrawsInRange ==
  ASSUME TapeOk, NEW p \in Nat, NEW n \in Nat, NEW lo \in Nat, NEW hi \in Nat, lo <= hi
  PROVE  Draws(p, n, lo, hi) \in Seq(lo .. hi) /\ Len(Draws(p, n, lo, hi)) = n
<1>1. \A i \in 1 .. n : DrawAt(p + i - 1, lo, hi) \in lo .. hi
  <2> TAKE i \in 1 .. n
  <2>1. PICK q \in Nat : q = p + i - 1  OBVIOUS
  <2>2. DrawAt(q, lo, hi) \in lo .. hi  BY DrawAtInRange
  <2> QED BY <2>1, <2>2
<1>2. Draws(p, n, lo, hi) \in [1 .. n -> lo .. hi]
  <2> HIDE DEF DrawAt
  <2> QED BY <1>1 DEF Draws
<1> QED BY <1>2

\* The masses drawn for a target lie in their range; nothing is read twice.
LEMMA DrawTargetInRange ==
  ASSUME TapeOk, NEW p \in Nat, NEW target \in Nat, NEW lo \in Nat, NEW hi \in Nat, lo >= 1
  PROVE  /\ DrawTarget(p, target, lo, hi).sample \in Seq(lo .. hi)
         /\ DrawTarget(p, target, lo, hi).next \in Nat
<1>1. CASE lo > hi  BY <1>1 DEF DrawTarget
<1>2. CASE lo <= hi
  <2> DEFINE T(k) == Total(Draws(p, k, lo, hi))
             S == {k \in Nat : T(k) > target}
  <2>1. ASSUME NEW k \in Nat PROVE T(k) \in Nat /\ T(k) >= k
    <3>1. PICK s : s = Draws(p, k, lo, hi)  OBVIOUS
    <3>2. s \in Seq(lo .. hi) /\ Len(s) = k  BY <1>2, <3>1, DrawsInRange
    <3>3. s \in Seq(Nat) /\ \A i \in 1 .. Len(s) : s[i] >= 1  BY <3>2
    <3>4. Total(s) \in Nat /\ Total(s) >= Len(s)  BY <3>3, TotalIsNat
    <3> QED BY <3>1, <3>2, <3>4
  <2>2. T(0) = 0
    <3>1. Len(Draws(p, 0, lo, hi)) = 0  BY <1>2, DrawsInRange
    <3>2. PICK s : s = Draws(p, 0, lo, hi)  OBVIOUS
    <3>3. PICK f : TotalRun(f, s, 0)  BY <3>1, <3>2, TotalSteps
    <3> QED BY <3>2, <3>3 DEF TotalRun
  <2> HIDE DEF T
  <2>3. PICK k \in Nat : k = target + 1  OBVIOUS
  <2>4. k \in S /\ S \subseteq Nat  BY <2>1, <2>3
  <2>5. PICK n \in S : \A m \in S : n <= m  BY <2>4, LeastNatural
  <2>6. n \in Nat /\ T(n) > target /\ n # 0 /\ n <= k  BY <2>2, <2>4, <2>5
  <2>7. PICK m \in Nat : m = n - 1  BY <2>6
  <2>8. m \notin S  BY <2>5, <2>6, <2>7
  <2>9. ~(T(m) > target) /\ T(m) \in Nat  BY <2>1, <2>8
  <2>10. n \in 1 .. target + 1 /\ T(n - 1) <= target /\ T(n) > target  BY <2>3, <2>6, <2>7, <2>9
  <2>11. PICK o : o = Overshoot(p, target, lo, hi)  OBVIOUS
  <2>12. o \in 1 .. target + 1  BY <2>10, <2>11 DEF Overshoot, T
  <2>13. o \in Nat /\ o - 1 \in Nat /\ p + o \in Nat  BY <2>12
  <2>14. Draws(p, o, lo, hi) \in Seq(lo .. hi) /\ Draws(p, o - 1, lo, hi) \in Seq(lo .. hi)
    BY <1>2, <2>13, DrawsInRange
  <2> QED BY <1>2, <2>11, <2>13, <2>14 DEF DrawTarget
<1> QED BY <1>1, <1>2

ClusterFields ==
  {"uid", "targetMass", "formTime", "rngState", "feH", "aV", "avNeb", "stars", "dead", "birthMass",
   "hasBins", "disruptTime", "curTime", "isDisrupted", "advanced", "isoAge", "spec", "specCurrent",
   "phot", "photCurrent", "lbol", "lbolCurrent", "winds", "windsCurrent", "yields", "lastYieldTime",
   "stochSN", "nonStochSN", "lastFeedbackTime"}
IsCluster(c) == DOMAIN c = ClusterFields /\ c = [f \in ClusterFields |-> c[f]]

\* The stars a cluster was born with, and the masses it integrates over.
BirthMasses(c) ==
  Sorted(BirthDraws(c.targetMass, c.rngState).masses, BirthDraws(c.targetMass, c.rngState).masses)
StarSrcs(c) == {<<"star", c.uid, i, BirthMasses(c)[i]>> : i \in DOMAIN BirthMasses(c)}
BinSrcs(c) == IF c.hasBins THEN {<<"bin", c.uid, 0, m>> : m \in 1 .. sc.minStoch - 1} ELSE {}
DeathAt(c, x) == c.formTime + StarLifetimeClamped(x[4])
Members(c) == {[src |-> x, born |-> c.formTime] : x \in StarSrcs(c) \cup BinSrcs(c)}

BirthKept(c) ==
  /\ IsCluster(c)
  /\ c.uid \in Nat /\ c.targetMass \in Nat /\ c.formTime \in Nat \ {0} /\ c.rngState \in Nat
  /\ c.feH = BirthDraws(c.targetMass, c.rngState).feH
  /\ c.aV = BirthDraws(c.targetMass, c.rngState).aV
  /\ c.avNeb = BirthDraws(c.targetMass, c.rngState).avNeb
  /\ c.birthMass = Total(BirthDraws(c.targetMass, c.rngState).masses)
  /\ c.hasBins \in BOOLEAN
TimesKept(c) ==
  /\ c.curTime \in Nat /\ c.formTime <= c.curTime /\ c.curTime <= MaxTime
  /\ c.isoAge = c.curTime - c.formTime
  /\ c.disruptTime \in Nat
  /\ c.isDisrupted \in BOOLEAN /\ (c.isDisrupted <=> c.curTime > c.disruptTime)
  /\ c.advanced \in BOOLEAN
  /\ \/ c.lastYieldTime = c.curTime /\ c.lastFeedbackTime = c.curTime
     \/ c.curTime = c.formTime /\ c.lastYieldTime = 0 /\ c.lastFeedbackTime = 0
StarsKept(c) ==
  /\ c.stars \in Seq(ToSet(c.stars))
  /\ {s.src : s \in ToSet(c.stars)} = {x \in StarSrcs(c) : DeathAt(c, x) >= c.curTime}
  /\ \A s \in ToSet(c.stars) : s.tDeath = DeathAt(c, s.src)
  /\ \A i, k \in DOMAIN c.stars : i <= k => c.stars[i].tDeath >= c.stars[k].tDeath

Gone(c) == {x \in StarSrcs(c) \cup BinSrcs(c) : DeathAt(c, x) < c.curTime}
ReleasesKept(c) ==
  /\ c.yields = IF sc.yields THEN SetToBag({<<x, DecayTime(c.curTime, DeathAt(c, x))>> : x \in Gone(c)})
                ELSE EmptyBag
  /\ c.stochSN = SetToBag({x \in Gone(c) : x[1] = "star" /\ x[4] \in HasSN})
  /\ c.nonStochSN = SetToBag({x \in Gone(c) : x[1] = "bin" /\ x[4] \in HasSN})

ClusterSpecIs(c, spec) ==
  /\ spec.plain = LightOf(c)
  /\ sc.nebular => spec.neb = LightOf(c)
  /\ sc.extinct => spec.extinct = Extinguished(LightOf(c), c.aV)
  /\ sc.extinct /\ sc.nebular => spec.nebExtinct = Extinguished(LightOf(c), c.avNeb)
CachesKept(c) ==
  /\ c.specCurrent /\ sc.specsyn => ClusterSpecIs(c, c.spec)
  /\ c.photCurrent /\ sc.filters => ClusterSpecIs(c, c.phot)
  /\ c.lbolCurrent /\ sc.computeLbol => c.lbol = LightOf(c)
  /\ c.windsCurrent => c.winds = LightOf(c)

ClusterCore(c) == BirthKept(c) /\ TimesKept(c) /\ StarsKept(c)

Static(d, c) ==
  /\ d.uid = c.uid /\ d.targetMass = c.targetMass /\ d.formTime = c.formTime /\ d.rngState = c.rngState
  /\ d.feH = c.feH /\ d.aV = c.aV /\ d.avNeb = c.avNeb /\ d.birthMass = c.birthMass
  /\ d.hasBins = c.hasBins /\ d.disruptTime = c.disruptTime
Same(d, c) ==
  /\ Static(d, c)
  /\ d.stars = c.stars /\ d.dead = c.dead /\ d.curTime = c.curTime /\ d.isDisrupted = c.isDisrupted
  /\ d.advanced = c.advanced /\ d.isoAge = c.isoAge /\ d.yields = c.yields
  /\ d.lastYieldTime = c.lastYieldTime /\ d.stochSN = c.stochSN /\ d.nonStochSN = c.nonStochSN
  /\ d.lastFeedbackTime = c.lastFeedbackTime

\* What is kept of a cluster when results are asked of it.
LEMMA SameKeeps ==
  ASSUME NEW c, NEW d, Same(d, c), IsCluster(d)
  PROVE  /\ LightOf(d) = LightOf(c)
         /\ ClusterCore(c) => ClusterCore(d)
         /\ ReleasesKept(c) => ReleasesKept(d)
         /\ Members(d) = Members(c)
<1>1. LightOf(d) = LightOf(c)  BY DEF Same, Static, LightOf, StarsShining, BinsShining
<1>2. StarSrcs(d) = StarSrcs(c) /\ BinSrcs(d) = BinSrcs(c)
  BY DEF Same, Static, StarSrcs, BinSrcs, BirthMasses
<1>3. \A x : DeathAt(d, x) = DeathAt(c, x)  BY DEF Same, Static, DeathAt
<1>4. BirthKept(c) => BirthKept(d)  BY DEF Same, Static, BirthKept
<1>5. TimesKept(c) => TimesKept(d)  BY DEF Same, Static, TimesKept
<1>6. StarsKept(c) => StarsKept(d)  BY <1>2, <1>3 DEF Same, StarsKept
<1>7. Gone(d) = Gone(c)  BY <1>2, <1>3 DEF Same, Gone
<1>8. ReleasesKept(c) => ReleasesKept(d)  BY <1>3, <1>7 DEF Same, ReleasesKept
<1>9. Members(d) = Members(c)  BY <1>2 DEF Same, Static, Members
<1> QED BY <1>1, <1>4, <1>5, <1>6, <1>8, <1>9 DEF ClusterCore

\* The fields of a cluster's four caches are its only ones that asking for a spectrum changes.
LEMMA WithSpecKeeps ==
  ASSUME NEW c, IsCluster(c)
  PROVE  /\ IsCluster(WithSpec(c)) /\ Same(WithSpec(c), c)
         /\ WithSpec(c).specCurrent
         /\ CachesKept(c) => CachesKept(WithSpec(c))
<1>1. CASE c.specCurrent  BY <1>1 DEF WithSpec, Same, Static
<1>2. CASE ~c.specCurrent
  <2>1. PICK d : d = ComputeSpec(c)  OBVIOUS
  <2>2. /\ IsCluster(d) /\ Same(d, c) /\ d.phot = c.phot /\ d.photCurrent = c.photCurrent
        /\ d.lbol = c.lbol /\ d.lbolCurrent = c.lbolCurrent /\ d.winds = c.winds
        /\ d.windsCurrent = c.windsCurrent
        /\ sc.specsyn => ClusterSpecIs(c, d.spec)
    <3>1. CASE sc.specsyn
      <4>1. PICK spec : d = [c EXCEPT !.spec = spec] /\ ClusterSpecIs(c, spec)
        <5> DEFINE light == LightOf(c)
                   spec == [plain |-> light,
                            neb |-> IF sc.nebular THEN light ELSE c.spec.neb,
                            extinct |-> IF sc.extinct THEN Extinguished(light, c.aV) ELSE c.spec.extinct,
                            nebExtinct |-> IF sc.extinct /\ sc.nebular THEN Extinguished(light, c.avNeb)
                                           ELSE c.spec.nebExtinct]
        <5>1. d = [c EXCEPT !.spec = spec]  BY <2>1, <3>1 DEF ComputeSpec, IsCluster, ClusterFields
        <5> HIDE DEF light
        <5>2. ClusterSpecIs(c, spec)  BY DEF ClusterSpecIs, light
        <5> QED BY <5>1, <5>2
      <4> QED BY <4>1 DEF IsCluster, ClusterFields, Same, Static
    <3>2. CASE ~sc.specsyn  BY <2>1, <3>2 DEF ComputeSpec, Same, Static
    <3> QED BY <3>1, <3>2
  <2>3. PICK e : e = [d EXCEPT !.specCurrent = TRUE]  OBVIOUS
  <2>4. /\ IsCluster(e) /\ Same(e, c) /\ e.phot = c.phot /\ e.photCurrent = c.photCurrent
        /\ e.lbol = c.lbol /\ e.lbolCurrent = c.lbolCurrent /\ e.winds = c.winds
        /\ e.windsCurrent = c.windsCurrent
        /\ e.spec = d.spec /\ e.specCurrent
    BY <2>2, <2>3, ZenonT(60) DEF IsCluster, ClusterFields, Same, Static
  <2>5. WithSpec(c) = e  BY <1>2, <2>1, <2>3 DEF WithSpec
  <2>6. LightOf(e) = LightOf(c)  BY <2>4, SameKeeps
  <2>7. \A spec : ClusterSpecIs(c, spec) => ClusterSpecIs(e, spec)
    BY <2>4, <2>6 DEF ClusterSpecIs, Same, Static
  <2>8. CachesKept(c) => CachesKept(e)  BY <2>2, <2>4, <2>6, <2>7 DEF CachesKept
  <2> QED BY <2>4, <2>5, <2>8
<1> QED BY <1>1, <1>2

\* The same for photometry, which asks for a spectrum if there is none.
LEMMA WithPhotKeeps ==
  ASSUME NEW c, IsCluster(c), sc.filters => sc.specsyn
  PROVE  /\ IsCluster(WithPhot(c)) /\ Same(WithPhot(c), c)
         /\ CachesKept(c) => CachesKept(WithPhot(c))
<1>1. CASE c.photCurrent  BY <1>1 DEF WithPhot, Same, Static
<1>2. CASE ~c.photCurrent
  <2>1. PICK b : b = IF sc.filters THEN WithSpec(c) ELSE c  OBVIOUS
  <2>2. /\ IsCluster(b) /\ Same(b, c) /\ (sc.filters => b.specCurrent)
        /\ CachesKept(c) => CachesKept(b)
    BY <2>1, WithSpecKeeps DEF Same, Static
  <2>3. PICK d : d = IF sc.filters THEN [b EXCEPT !.phot = b.spec] ELSE b  OBVIOUS
  <2>4. /\ IsCluster(d) /\ Same(d, b) /\ d.spec = b.spec /\ d.specCurrent = b.specCurrent
        /\ d.lbol = b.lbol /\ d.lbolCurrent = b.lbolCurrent /\ d.winds = b.winds
        /\ d.windsCurrent = b.windsCurrent /\ (sc.filters => d.phot = b.spec)
    BY <2>2, <2>3 DEF IsCluster, ClusterFields, Same, Static
  <2>5. PICK e : e = [d EXCEPT !.photCurrent = TRUE]  OBVIOUS
  <2>6. /\ IsCluster(e) /\ Same(e, b) /\ e.spec = b.spec /\ e.specCurrent = b.specCurrent
        /\ e.lbol = b.lbol /\ e.lbolCurrent = b.lbolCurrent /\ e.winds = b.winds
        /\ e.windsCurrent = b.windsCurrent /\ (sc.filters => e.phot = b.spec)
    BY <2>4, <2>5, ZenonT(60) DEF IsCluster, ClusterFields, Same, Static
  <2>7. WithPhot(c) = e  BY <1>2, <2>1, <2>3, <2>5 DEF WithPhot, ComputePhot, PhotOf
  <2>8. LightOf(e) = LightOf(b)  BY <2>6, SameKeeps
  <2>9. \A spec : ClusterSpecIs(b, spec) => ClusterSpecIs(e, spec)
    BY <2>6, <2>8 DEF ClusterSpecIs, Same, Static
  <2>10. CachesKept(b) => CachesKept(e)  BY <2>2, <2>6, <2>8, <2>9 DEF CachesKept
  <2> QED BY <2>2, <2>6, <2>7, <2>10 DEF Same, Static
<1> QED BY <1>1, <1>2

\* The same for the luminosity.
LEMMA WithLbolKeeps ==
  ASSUME NEW c, IsCluster(c)
  PROVE  /\ IsCluster(WithLbol(c)) /\ Same(WithLbol(c), c) /\ WithLbol(c).lbolCurrent
         /\ CachesKept(c) => CachesKept(WithLbol(c))
<1>1. CASE c.lbolCurrent  BY <1>1 DEF WithLbol, Same, Static
<1>2. CASE ~c.lbolCurrent
  <2>1. PICK light : light = LightOf(c)  OBVIOUS
  <2>2. PICK d : d = IF sc.computeLbol THEN [c EXCEPT !.lbol = light] ELSE c  OBVIOUS
  <2>3. /\ IsCluster(d) /\ Same(d, c) /\ d.spec = c.spec /\ d.specCurrent = c.specCurrent
        /\ d.phot = c.phot /\ d.photCurrent = c.photCurrent /\ d.winds = c.winds
        /\ d.windsCurrent = c.windsCurrent /\ (sc.computeLbol => d.lbol = light)
    BY <2>2 DEF IsCluster, ClusterFields, Same, Static
  <2>4. PICK e : e = [d EXCEPT !.lbolCurrent = TRUE]  OBVIOUS
  <2>5. /\ IsCluster(e) /\ Same(e, c) /\ e.spec = c.spec /\ e.specCurrent = c.specCurrent
        /\ e.phot = c.phot /\ e.photCurrent = c.photCurrent /\ e.winds = c.winds
        /\ e.windsCurrent = c.windsCurrent /\ (sc.computeLbol => e.lbol = light) /\ e.lbolCurrent
    BY <2>3, <2>4, ZenonT(60) DEF IsCluster, ClusterFields, Same, Static
  <2>6. WithLbol(c) = e  BY <1>2, <2>1, <2>2, <2>4 DEF WithLbol, ComputeLbol
  <2>7. LightOf(e) = LightOf(c)  BY <2>5, SameKeeps
  <2>8. \A spec : ClusterSpecIs(c, spec) => ClusterSpecIs(e, spec)
    BY <2>5, <2>7 DEF ClusterSpecIs, Same, Static
  <2>9. CachesKept(c) => CachesKept(e)  BY <2>1, <2>5, <2>7, <2>8 DEF CachesKept
  <2> QED BY <2>5, <2>6, <2>9
<1> QED BY <1>1, <1>2

\* The same for the winds.
LEMMA WithWindsKeeps ==
  ASSUME NEW c, IsCluster(c)
  PROVE  /\ IsCluster(WithWinds(c)) /\ Same(WithWinds(c), c) /\ WithWinds(c).windsCurrent
         /\ CachesKept(c) => CachesKept(WithWinds(c))
<1>1. CASE c.windsCurrent  BY <1>1 DEF WithWinds, Same, Static
<1>2. CASE ~c.windsCurrent
  <2>1. PICK light : light = LightOf(c)  OBVIOUS
  <2>2. PICK d : d = [c EXCEPT !.winds = light]  OBVIOUS
  <2>3. /\ IsCluster(d) /\ Same(d, c) /\ d.spec = c.spec /\ d.specCurrent = c.specCurrent
        /\ d.phot = c.phot /\ d.photCurrent = c.photCurrent /\ d.lbol = c.lbol
        /\ d.lbolCurrent = c.lbolCurrent /\ d.winds = light
    BY <2>2 DEF IsCluster, ClusterFields, Same, Static
  <2>4. PICK e : e = [d EXCEPT !.windsCurrent = TRUE]  OBVIOUS
  <2>5. /\ IsCluster(e) /\ Same(e, c) /\ e.spec = c.spec /\ e.specCurrent = c.specCurrent
        /\ e.phot = c.phot /\ e.photCurrent = c.photCurrent /\ e.lbol = c.lbol
        /\ e.lbolCurrent = c.lbolCurrent /\ e.winds = light /\ e.windsCurrent
    BY <2>3, <2>4, ZenonT(60) DEF IsCluster, ClusterFields, Same, Static
  <2>6. WithWinds(c) = e  BY <1>2, <2>1, <2>2, <2>4 DEF WithWinds, ComputeWinds
  <2>7. LightOf(e) = LightOf(c)  BY <2>5, SameKeeps
  <2>8. \A spec : ClusterSpecIs(c, spec) => ClusterSpecIs(e, spec)
    BY <2>5, <2>7 DEF ClusterSpecIs, Same, Static
  <2>9. CachesKept(c) => CachesKept(e)  BY <2>1, <2>5, <2>7, <2>8 DEF CachesKept
  <2> QED BY <2>5, <2>6, <2>9
<1> QED BY <1>1, <1>2

\* The stochastically treated part of a mass is a number, and nothing of nothing.
LEMMA StochMassIsNat ==
  ASSUME sc \in Controls, NEW mass \in Nat
  PROVE  StochMass(mass) \in Nat /\ (mass = 0 => StochMass(mass) = 0)
<1>1. MaxMass \in Nat \ {0}  BY TracksAssumption
<1>2. sc.minStoch \in Nat  BY ControlsAssumption, <1>1
<1>3. ASSUME NEW lo \in Nat PROVE MassAbove(lo) \in Nat
  <2>1. PICK s : s = [i \in 1 .. MaxMass |-> IF i >= lo THEN i ELSE 0]  OBVIOUS
  <2>2. s \in Seq(Nat)  BY <1>1, <2>1
  <2>3. Total(s) \in Nat  BY <2>2, TotalIsNat
  <2> QED BY <2>1, <2>3 DEF MassAbove
<1>4. MassAbove(1) >= 1
  <2>1. PICK s : s = [i \in 1 .. MaxMass |-> IF i >= 1 THEN i ELSE 0]  OBVIOUS
  <2>2. s \in Seq(Nat) /\ Len(s) = MaxMass /\ \A i \in 1 .. Len(s) : s[i] >= 1  BY <1>1, <2>1
  <2>3. Total(s) \in Nat /\ Total(s) >= MaxMass  BY <2>2, TotalIsNat
  <2> QED BY <1>1, <2>1, <2>3 DEF MassAbove
<1>5. PICK a \in Nat : a = MassAbove(sc.minStoch)  BY <1>2, <1>3
<1>6. PICK b \in Nat : b = MassAbove(1)  BY <1>3
<1>7. PICK x \in Nat : x = mass * a  OBVIOUS
<1>8. b >= 1 /\ x \div b \in Nat  BY <1>4, <1>6
<1>9. mass = 0 => x = 0  BY <1>7
<1>10. x = 0 => x \div b = 0  BY <1>8
<1> QED BY <1>5, <1>6, <1>7, <1>8, <1>9, <1>10 DEF StochMass

\* The masses a cluster is born with are masses of stars that are drawn.
LEMMA BirthDrawsOk ==
  ASSUME TapeOk, sc \in Controls, NEW mass \in Nat, NEW p \in Nat
  PROVE  /\ BirthDraws(mass, p).masses \in Seq(1 .. MaxMass) /\ BirthDraws(mass, p).next \in Nat
         /\ Sorted(BirthDraws(mass, p).masses, BirthDraws(mass, p).masses) \in Seq(1 .. MaxMass)
<1>1. MaxMass \in Nat /\ sc.minStoch \in Nat /\ sc.minStoch >= 1
  BY TracksAssumption, ControlsAssumption
<1>2. PICK target \in Nat : target = StochMass(mass)  BY StochMassIsNat
<1>3. PICK q \in Nat : q = IF sc.extinct THEN p + 3 ELSE p + 1  OBVIOUS
<1>4. PICK d : d = DrawTarget(q, target, sc.minStoch, MaxMass)  OBVIOUS
<1>5. d.sample \in Seq(sc.minStoch .. MaxMass) /\ d.next \in Nat  BY <1>1, <1>4, DrawTargetInRange
<1>6. BirthDraws(mass, p).masses = d.sample /\ BirthDraws(mass, p).next = d.next
  BY <1>2, <1>3, <1>4 DEF BirthDraws
<1>7. PICK s : s = d.sample  OBVIOUS
<1>8. s \in Seq(1 .. MaxMass)  BY <1>1, <1>5, <1>7
<1>9. s \in [1 .. Len(s) -> Int]  BY <1>1, <1>8
<1>10. Sorted(s, s) \in Seq(1 .. MaxMass)  BY <1>8, <1>9, SortedElements
<1> QED BY <1>5, <1>6, <1>7, <1>8, <1>10

\* Lifetimes are numbers.
LEMMA LifetimesAreNat ==
  ASSUME NEW m \in 1 .. MaxMass
  PROVE  StarLifetimeClamped(m) \in Nat /\ StarLifetimeClamped(m) >= 1
<1>1. CASE m < MinTrack  BY <1>1 DEF StarLifetimeClamped, Never
<1>2. CASE ~(m < MinTrack)
  <2>1. m \in MinTrack .. MaxMass  BY <1>2, TracksAssumption
  <2>2. Lifetime[m] \in Nat \ {0}  BY <2>1, TracksAssumption
  <2> QED BY <1>2, <2>2 DEF StarLifetimeClamped
<1> QED BY <1>1, <1>2

\* The stars of a cluster, as far as their places of birth and their deaths are concerned.
LEMMA ClusterStars ==
  ASSUME TapeOk, sc \in Controls, NEW c, c.targetMass \in Nat, c.rngState \in Nat, c.formTime \in Nat
  PROVE  /\ BirthMasses(c) \in Seq(1 .. MaxMass)
         /\ \A x \in StarSrcs(c) : x[1] = "star" /\ x[2] = c.uid /\ x[4] \in 1 .. MaxMass
         /\ \A x \in BinSrcs(c) : x[1] = "bin" /\ x[2] = c.uid /\ x[4] \in 1 .. MaxMass
         /\ \A x \in StarSrcs(c) \cup BinSrcs(c) : DeathAt(c, x) \in Nat /\ DeathAt(c, x) > c.formTime
<1>1. BirthMasses(c) \in Seq(1 .. MaxMass)  BY BirthDrawsOk DEF BirthMasses
<1>2. MaxMass \in Nat /\ sc.minStoch \in 1 .. MaxMass + 1  BY TracksAssumption, ControlsAssumption
<1>3. ASSUME NEW x \in StarSrcs(c) PROVE x[1] = "star" /\ x[2] = c.uid /\ x[4] \in 1 .. MaxMass
  <2>1. PICK i \in DOMAIN BirthMasses(c) : x = <<"star", c.uid, i, BirthMasses(c)[i]>>
    BY DEF StarSrcs
  <2>2. PICK ms : ms = BirthMasses(c)  OBVIOUS
  <2>3. ms \in Seq(1 .. MaxMass) /\ i \in DOMAIN ms  BY <1>1, <2>2
  <2>4. ms[i] \in 1 .. MaxMass
    <3>1. PICK T : T = 1 .. MaxMass  OBVIOUS
    <3>2. ms \in Seq(T)  BY <2>3, <3>1
    <3>3. PICK n \in Nat : DOMAIN ms = 1 .. n /\ ms \in [1 .. n -> T]  BY <3>2
    <3> QED BY <2>3, <3>1, <3>3
  <2> QED BY <2>1, <2>2, <2>4
<1>4. ASSUME NEW x \in BinSrcs(c) PROVE x[1] = "bin" /\ x[2] = c.uid /\ x[4] \in 1 .. MaxMass
  <2> DEFINE bins == {<<"bin", c.uid, 0, m>> : m \in 1 .. sc.minStoch - 1}
  <2>3. BinSrcs(c) = bins \/ BinSrcs(c) = {}  BY Zenon DEF BinSrcs
  <2>1. PICK m \in 1 .. sc.minStoch - 1 : x = <<"bin", c.uid, 0, m>>  BY <2>3
  <2>2. m \in 1 .. MaxMass  BY <1>2
  <2> QED BY <2>1, <2>2
<1>5. ASSUME NEW x \in StarSrcs(c) \cup BinSrcs(c)
      PROVE  DeathAt(c, x) \in Nat /\ DeathAt(c, x) > c.formTime
  <2>1. PICK m \in 1 .. MaxMass : m = x[4]  BY <1>3, <1>4
  <2>2. StarLifetimeClamped(m) \in Nat /\ StarLifetimeClamped(m) >= 1  BY LifetimesAreNat
  <2> QED BY <2>1, <2>2 DEF DeathAt
<1> QED BY <1>1, <1>3, <1>4, <1>5

ByDeath(stars) ==
  /\ stars \in Seq(ToSet(stars))
  /\ \A s \in ToSet(stars) : s.tDeath \in Nat
  /\ \A i, k \in DOMAIN stars : i <= k => stars[i].tDeath >= stars[k].tDeath
Left(stars, t) == Max({0} \cup {i \in DOMAIN stars : stars[i].tDeath >= t})
\* Of stars in the order of their deaths, those that live on come first.
LEMMA LivingStars ==
  ASSUME NEW stars, ByDeath(stars), NEW t \in Nat
  PROVE  LET alive == SubSeq(stars, 1, Left(stars, t))
             gone == Reverse(SubSeq(stars, Left(stars, t) + 1, Len(stars)))
         IN /\ ToSet(alive) = {s \in ToSet(stars) : s.tDeath >= t}
            /\ ToSet(gone) = {s \in ToSet(stars) : s.tDeath < t}
            /\ ByDeath(alive)
<1>1. PICK n \in Nat : n = Len(stars) /\ DOMAIN stars = 1 .. n  BY DEF ByDeath
<1>2. PICK death \in [1 .. n -> Nat] : \A i \in 1 .. n : death[i] = stars[i].tDeath
  <2> DEFINE death == [i \in 1 .. n |-> stars[i].tDeath]
  <2>1. \A i \in 1 .. n : stars[i] \in ToSet(stars)  BY <1>1 DEF ToSet
  <2>2. death \in [1 .. n -> Nat]  BY <2>1 DEF ByDeath
  <2> QED BY <2>2
<1>3. \A i, k \in 1 .. n : i <= k => death[i] >= death[k]  BY <1>1, <1>2 DEF ByDeath
<1>4. ToSet(stars) = {stars[i] : i \in 1 .. n}  BY <1>1 DEF ToSet
<1>5. PICK left : left = Left(stars, t)  OBVIOUS
<1>6. left \in 0 .. n /\ \A i \in 1 .. n : i <= left <=> death[i] >= t
  <2> DEFINE S == {0} \cup {i \in 1 .. n : death[i] >= t}
  <2>1. S = {0} \cup {i \in DOMAIN stars : stars[i].tDeath >= t}  BY <1>1, <1>2
  <2>2. left = CHOOSE x \in S : \A y \in S : x >= y  BY <1>5, <2>1 DEF Left, Max
  <2>3. S \subseteq Nat /\ S # {} /\ \A x \in S : x <= n  BY <1>1
  <2> HIDE DEF S
  <2>4. \E x \in S : \A y \in S : y <= x  BY <1>1, <2>3, LargestNatural
  <2>5. \E x \in S : \A y \in S : x >= y  BY <2>3, <2>4
  <2>6. left \in S /\ \A y \in S : left >= y  BY <2>2, <2>5
  <2>7. left \in 0 .. n  BY <2>3, <2>6
  <2>8. ASSUME NEW i \in 1 .. n, i <= left PROVE death[i] >= t
    <3>1. left \in 1 .. n /\ death[left] >= t  BY <2>6, <2>7, <2>8 DEF S
    <3>2. death[i] >= death[left]  BY <1>3, <2>8, <3>1
    <3> QED BY <1>2, <3>1, <3>2
  <2>9. ASSUME NEW i \in 1 .. n, death[i] >= t PROVE i <= left
    <3>1. i \in S  BY <2>9 DEF S
    <3> QED BY <2>6, <2>7, <3>1
  <2> QED BY <2>7, <2>8, <2>9
<1>7. PICK alive : alive = SubSeq(stars, 1, left)  OBVIOUS
<1>8. stars \in Seq(ToSet(stars))  BY DEF ByDeath
<1>9. /\ alive \in Seq(ToSet(stars)) /\ Len(alive) = left /\ DOMAIN alive = 1 .. left
      /\ \A i \in 1 .. left : alive[i] = stars[i]
  BY <1>1, <1>6, <1>7, <1>8
<1>10. PICK rest : rest = SubSeq(stars, left + 1, n)  OBVIOUS
<1>11. /\ Len(rest) = n - left
       /\ \A i \in 1 .. n - left : rest[i] = stars[left + i]
  BY <1>1, <1>6, <1>8, <1>10
<1>12. PICK gone : gone = Reverse(rest)  OBVIOUS
<1>13. DOMAIN gone = 1 .. n - left /\ \A i \in 1 .. n - left : gone[i] = rest[n - left - i + 1]
  BY <1>11, <1>12 DEF Reverse
<1>14. ToSet(alive) = {s \in ToSet(stars) : s.tDeath >= t}
  <2>1. ASSUME NEW s \in ToSet(alive) PROVE s \in ToSet(stars) /\ s.tDeath >= t
    <3>1. PICK i \in 1 .. left : s = stars[i]  BY <1>9 DEF ToSet
    <3>2. i \in 1 .. n  BY <1>6
    <3> QED BY <1>2, <1>4, <1>6, <3>1, <3>2
  <2>2. ASSUME NEW s \in ToSet(stars), s.tDeath >= t PROVE s \in ToSet(alive)
    <3>1. PICK i \in 1 .. n : s = stars[i]  BY <1>4
    <3>2. i \in 1 .. left  BY <1>2, <1>6, <2>2, <3>1
    <3> QED BY <1>9, <3>1, <3>2 DEF ToSet
  <2> QED BY <2>1, <2>2
<1>15. ToSet(gone) = {s \in ToSet(stars) : s.tDeath < t}
  <2>1. ASSUME NEW s \in ToSet(gone) PROVE s \in ToSet(stars) /\ s.tDeath < t
    <3>1. PICK i \in 1 .. n - left : s = rest[n - left - i + 1]  BY <1>13 DEF ToSet
    <3>2. PICK j \in 1 .. n - left : j = n - left - i + 1  BY <1>6
    <3>3. PICK k \in 1 .. n : k = left + j /\ k > left  BY <1>6
    <3>4. s = stars[k] /\ ~(death[k] >= t)  BY <1>6, <1>11, <3>1, <3>2, <3>3
    <3> QED BY <1>2, <1>4, <3>4
  <2>2. ASSUME NEW s \in ToSet(stars), s.tDeath < t PROVE s \in ToSet(gone)
    <3>1. PICK k \in 1 .. n : s = stars[k]  BY <1>4
    <3>2. k > left  BY <1>2, <1>6, <2>2, <3>1
    <3>3. PICK j \in 1 .. n - left : k = left + j  BY <1>6, <3>2
    <3>4. PICK i \in 1 .. n - left : j = n - left - i + 1
      <4>1. n - left - j + 1 \in 1 .. n - left /\ j = n - left - (n - left - j + 1) + 1  BY <1>6
      <4> QED BY <4>1
    <3>5. gone[i] = s  BY <1>11, <1>13, <3>1, <3>3, <3>4
    <3> QED BY <1>13, <3>5 DEF ToSet
  <2> QED BY <2>1, <2>2
<1>16. ByDeath(alive)
  <2>1. alive \in Seq(ToSet(alive))  BY <1>9 DEF ToSet
  <2>2. \A s \in ToSet(alive) : s.tDeath \in Nat  BY <1>14 DEF ByDeath
  <2>3. \A i, k \in DOMAIN alive : i <= k => alive[i].tDeath >= alive[k].tDeath
    <3> SUFFICES ASSUME NEW i \in 1 .. left, NEW k \in 1 .. left, i <= k
                 PROVE  alive[i].tDeath >= alive[k].tDeath
      BY <1>9
    <3>1. i \in 1 .. n /\ k \in 1 .. n  BY <1>6
    <3> QED BY <1>2, <1>3, <1>9, <3>1
  <2> QED BY <2>1, <2>2, <2>3 DEF ByDeath
<1> QED BY <1>1, <1>5, <1>7, <1>10, <1>12, <1>14, <1>15, <1>16

NewlyDead(c, t) == Reverse(SubSeq(c.stars, Left(c.stars, t) + 1, Len(c.stars)))
\* What is released in a step: by stars, and by bins.
YieldsOfStars(dead, t) == SetToBag({<<s.src, DecayTime(t, s.tDeath)>> : s \in ToSet(dead)})
YieldsOfBins(c, last) ==
  SetToBag({<< <<"bin", c.uid, 0, m>>, DecayTime(c.curTime, c.formTime + Lifetime[m])>> :
              m \in DeadBins(c, last)})
SNOfStars(dead) == SetToBag({s.src : s \in {d \in ToSet(dead) : d.src[4] \in HasSN}})
SNOfBins(c, last) == SetToBag({<<"bin", c.uid, 0, m>> : m \in DeadBins(c, last) \cap HasSN})

\* What Cluster::advance does to a cluster, field by field.
Advanced(d, c, t) ==
  /\ IsCluster(d) /\ Static(d, c)
  /\ d.curTime = t /\ d.isoAge = t - c.formTime /\ d.advanced = TRUE
  /\ d.stars = SubSeq(c.stars, 1, Left(c.stars, t))
  /\ d.dead = NewlyDead(c, t)
  /\ ~d.specCurrent /\ ~d.photCurrent /\ ~d.lbolCurrent /\ ~d.windsCurrent
  /\ d.lastYieldTime = t /\ d.lastFeedbackTime = t
  /\ d.isDisrupted \in BOOLEAN /\ (d.isDisrupted <=> c.isDisrupted \/ t > c.disruptTime)
  /\ d.yields = IF ~sc.yields THEN c.yields
                ELSE ApplyDecay(t - c.lastYieldTime, c.yields) (+) YieldsOfStars(d.dead, t)
                       (+) YieldsOfBins(d, c.lastYieldTime)
  /\ d.stochSN = c.stochSN (+) SNOfStars(d.dead)
  /\ d.nonStochSN = c.nonStochSN (+) SNOfBins(d, c.lastFeedbackTime)
\* A cluster is advanced unless it already is where it is to go.
LEMMA AdvanceIs ==
  ASSUME NEW c, IsCluster(c), NEW t, ~(t = c.curTime /\ c.advanced)
  PROVE  Advanced(AdvanceCluster(c, t), c, t)
<1>1. PICK c1 : c1 = [c EXCEPT !.curTime = t, !.isoAge = t - c.formTime]  OBVIOUS
<1>2. /\ IsCluster(c1) /\ Static(c1, c) /\ c1.curTime = t /\ c1.isoAge = t - c.formTime
      /\ c1.stars = c.stars /\ c1.isDisrupted = c.isDisrupted
      /\ c1.yields = c.yields /\ c1.lastYieldTime = c.lastYieldTime
      /\ c1.stochSN = c.stochSN /\ c1.nonStochSN = c.nonStochSN
      /\ c1.lastFeedbackTime = c.lastFeedbackTime
  BY <1>1, ZenonT(60) DEF IsCluster, ClusterFields, Static
<1>3. PICK alive, gone : alive = SubSeq(c.stars, 1, Left(c.stars, t)) /\ gone = NewlyDead(c, t)
  OBVIOUS
<1>4. PICK c2 : c2 = [c1 EXCEPT !.stars = alive, !.dead = gone]  OBVIOUS
<1>5. UpdateLivingStars(c1) = c2
  <2>1. Max({0} \cup {i \in DOMAIN c1.stars : c1.stars[i].tDeath >= c1.curTime}) = Left(c.stars, t)
    BY <1>2 DEF Left
  <2>2. UpdateLivingStars(c1)
          = [c1 EXCEPT !.stars = SubSeq(c1.stars, 1, Left(c.stars, t)),
                       !.dead = Reverse(SubSeq(c1.stars, Left(c.stars, t) + 1, Len(c1.stars)))]
    <3>1. PICK left : left = Max({0} \cup {i \in DOMAIN c1.stars : c1.stars[i].tDeath >= c1.curTime})
      OBVIOUS
    <3>2. left = Left(c.stars, t)  BY <2>1, <3>1
    <3> QED BY <1>2, <3>1, <3>2 DEF UpdateLivingStars, IsCluster, ClusterFields
  <2> QED BY <1>2, <1>3, <1>4, <2>2 DEF NewlyDead
<1>6. /\ IsCluster(c2) /\ Static(c2, c) /\ c2.curTime = t /\ c2.isoAge = t - c.formTime
      /\ c2.stars = alive /\ c2.dead = gone /\ c2.isDisrupted = c.isDisrupted
      /\ c2.yields = c.yields /\ c2.lastYieldTime = c.lastYieldTime
      /\ c2.stochSN = c.stochSN /\ c2.nonStochSN = c.nonStochSN
      /\ c2.lastFeedbackTime = c.lastFeedbackTime
  BY <1>2, <1>4, ZenonT(60) DEF IsCluster, ClusterFields, Static
<1>7. PICK released : released = ApplyDecay(t - c.lastYieldTime, c.yields) (+) YieldsOfStars(gone, t)
                                   (+) YieldsOfBins(c2, c.lastYieldTime)
  OBVIOUS
<1>8. PICK c3 : c3 = IF ~sc.yields THEN c2 ELSE [c2 EXCEPT !.yields = released]  OBVIOUS
<1>9. ComputeYields(c2) = c3
  <2>1. CASE ~sc.yields  BY <1>8, <2>1 DEF ComputeYields
  <2>2. CASE sc.yields
    <3>1. ComputeYields(c2)
            = [c2 EXCEPT !.yields =
                 ApplyDecay(c2.curTime - c2.lastYieldTime, c2.yields)
                   (+) YieldsOfStars(c2.dead, c2.curTime) (+) YieldsOfBins(c2, c2.lastYieldTime)]
      BY <1>6, <2>2 DEF ComputeYields, YieldsOfStars, YieldsOfBins, IsCluster, ClusterFields
    <3>2. ApplyDecay(c2.curTime - c2.lastYieldTime, c2.yields)
            (+) YieldsOfStars(c2.dead, c2.curTime) (+) YieldsOfBins(c2, c2.lastYieldTime) = released
      BY <1>6, <1>7
    <3> QED BY <1>8, <2>2, <3>1, <3>2
  <2> QED BY <2>1, <2>2
<1>10. PICK c4 : c4 = [c3 EXCEPT !.lastYieldTime = t]  OBVIOUS
<1>11. /\ IsCluster(c4) /\ Static(c4, c) /\ c4.curTime = t /\ c4.isoAge = t - c.formTime
       /\ c4.stars = alive /\ c4.dead = gone /\ c4.isDisrupted = c.isDisrupted
       /\ c4.yields = (IF ~sc.yields THEN c.yields ELSE released) /\ c4.lastYieldTime = t
       /\ c4.stochSN = c.stochSN /\ c4.nonStochSN = c.nonStochSN
       /\ c4.lastFeedbackTime = c.lastFeedbackTime
  <2>1. CASE sc.yields  BY <1>6, <1>8, <1>10, <2>1, ZenonT(60) DEF IsCluster, ClusterFields, Static
  <2>2. CASE ~sc.yields  BY <1>6, <1>8, <1>10, <2>2 DEF IsCluster, ClusterFields, Static
  <2> QED BY <2>1, <2>2
<1>12. PICK stoch, nonStoch : /\ stoch = c.stochSN (+) SNOfStars(gone)
                              /\ nonStoch = c.nonStochSN (+) SNOfBins(c4, c.lastFeedbackTime)
  OBVIOUS
<1>13. PICK c5 : c5 = [c4 EXCEPT !.stochSN = stoch, !.nonStochSN = nonStoch]  OBVIOUS
<1>14. ComputeFeedback(c4) = c5
  <2>1. ComputeFeedback(c4)
          = [c4 EXCEPT !.stochSN = c4.stochSN (+) SNOfStars(c4.dead),
                       !.nonStochSN = c4.nonStochSN (+) SNOfBins(c4, c4.lastFeedbackTime)]
    BY <1>11 DEF ComputeFeedback, SNOfStars, SNOfBins, IsCluster, ClusterFields
  <2>2. /\ c4.stochSN (+) SNOfStars(c4.dead) = stoch
        /\ c4.nonStochSN (+) SNOfBins(c4, c4.lastFeedbackTime) = nonStoch
    BY <1>11, <1>12
  <2> QED BY <1>13, <2>1, <2>2
<1>15. /\ IsCluster(c5) /\ Static(c5, c) /\ c5.curTime = t /\ c5.isoAge = t - c.formTime
       /\ c5.stars = alive /\ c5.dead = gone /\ c5.isDisrupted = c.isDisrupted
       /\ c5.yields = (IF ~sc.yields THEN c.yields ELSE released) /\ c5.lastYieldTime = t
       /\ c5.stochSN = stoch /\ c5.nonStochSN = nonStoch
  BY <1>11, <1>13, ZenonT(60) DEF IsCluster, ClusterFields, Static
<1>16. PICK gone2 : gone2 = (c.isDisrupted \/ t > c.disruptTime)  OBVIOUS
<1>17. PICK d : d = [c5 EXCEPT !.lastFeedbackTime = t,
                      !.specCurrent = FALSE, !.photCurrent = FALSE,
                      !.lbolCurrent = FALSE, !.windsCurrent = FALSE,
                      !.isDisrupted = gone2,
                      !.advanced = TRUE]
  OBVIOUS
<1>18. /\ IsCluster(d) /\ Static(d, c) /\ d.curTime = t /\ d.isoAge = t - c.formTime /\ d.advanced = TRUE
       /\ d.stars = alive /\ d.dead = gone /\ d.isDisrupted = gone2
       /\ d.yields = (IF ~sc.yields THEN c.yields ELSE released)
       /\ d.lastYieldTime = t /\ d.lastFeedbackTime = t
       /\ d.stochSN = stoch /\ d.nonStochSN = nonStoch
       /\ ~d.specCurrent /\ ~d.photCurrent /\ ~d.lbolCurrent /\ ~d.windsCurrent
  BY <1>15, <1>17, ZenonT(60) DEF IsCluster, ClusterFields, Static
<1>19. AdvanceCluster(c, t) = d
  <2>1. d = [c5 EXCEPT !.lastFeedbackTime = t,
                      !.specCurrent = FALSE, !.photCurrent = FALSE,
                      !.lbolCurrent = FALSE, !.windsCurrent = FALSE,
                      !.isDisrupted = @ \/ t > c.disruptTime,
                      !.advanced = TRUE]
    BY <1>15, <1>16, <1>17 DEF IsCluster, ClusterFields
  <2> QED BY <1>1, <1>5, <1>9, <1>10, <1>14, <2>1 DEF AdvanceCluster
<1>20. /\ \A last : DeadBins(c2, last) = DeadBins(d, last)
       /\ \A last : DeadBins(c4, last) = DeadBins(d, last)
  <2>1. /\ c2.curTime = d.curTime /\ c2.isoAge = d.isoAge
        /\ c2.formTime = d.formTime /\ c2.hasBins = d.hasBins
    BY <1>6, <1>18 DEF Static
  <2>2. /\ c4.curTime = d.curTime /\ c4.isoAge = d.isoAge
        /\ c4.formTime = d.formTime /\ c4.hasBins = d.hasBins
    BY <1>11, <1>18 DEF Static
  <2>3. ASSUME NEW last
        PROVE  DeadBins(c2, last) = DeadBins(d, last) /\ DeadBins(c4, last) = DeadBins(d, last)
    BY <2>1, <2>2 DEF DeadBins, NonStochDeadMassRanges
  <2> QED BY <2>3
<1>21. /\ YieldsOfBins(c2, c.lastYieldTime) = YieldsOfBins(d, c.lastYieldTime)
       /\ SNOfBins(c4, c.lastFeedbackTime) = SNOfBins(d, c.lastFeedbackTime)
  <2>1. /\ c2.uid = d.uid /\ c2.curTime = d.curTime /\ c2.formTime = d.formTime
        /\ c4.uid = d.uid
    BY <1>6, <1>11, <1>18 DEF Static
  <2>2. PICK last, bins : last = c.lastYieldTime /\ bins = DeadBins(d, last)  OBVIOUS
  <2>3. YieldsOfBins(c2, last) = YieldsOfBins(d, last)
    <3>1. DeadBins(c2, last) = bins  BY <1>20, <2>2
    <3> QED BY <2>1, <2>2, <3>1 DEF YieldsOfBins
  <2>4. SNOfBins(c4, c.lastFeedbackTime) = SNOfBins(d, c.lastFeedbackTime)
    <3>1. DeadBins(c4, c.lastFeedbackTime) = DeadBins(d, c.lastFeedbackTime)  BY <1>20
    <3> QED BY <2>1, <3>1 DEF SNOfBins
  <2> QED BY <2>2, <2>3, <2>4
<1>22. d.isDisrupted \in BOOLEAN /\ (d.isDisrupted <=> c.isDisrupted \/ t > c.disruptTime)
  BY <1>16, <1>18
<1> QED BY <1>3, <1>7, <1>12, <1>22, <1>18, <1>19, <1>21 DEF Advanced

\* The stars of a cluster are in the order of their deaths.
LEMMA StarsByDeath ==
  ASSUME TapeOk, sc \in Controls, NEW c, ClusterCore(c)
  PROVE  ByDeath(c.stars)
<1>1. \A x \in StarSrcs(c) : DeathAt(c, x) \in Nat  BY ClusterStars DEF ClusterCore, BirthKept
<1>2. ASSUME NEW s \in ToSet(c.stars) PROVE s.tDeath \in Nat
  <2>1. s.src \in StarSrcs(c)
    <3>1. s.src \in {r.src : r \in ToSet(c.stars)}  OBVIOUS
    <3> QED BY <3>1 DEF ClusterCore, StarsKept
  <2>2. s.tDeath = DeathAt(c, s.src)  BY DEF ClusterCore, StarsKept
  <2> QED BY <1>1, <2>1, <2>2
<1> QED BY <1>2 DEF ClusterCore, StarsKept, ByDeath

\* What a star's cluster knows of it does not depend on anything that changes.
LEMMA StaticKeeps ==
  ASSUME NEW c, NEW d, Static(d, c)
  PROVE  /\ StarSrcs(d) = StarSrcs(c) /\ BinSrcs(d) = BinSrcs(c) /\ Members(d) = Members(c)
         /\ \A x : DeathAt(d, x) = DeathAt(c, x)
<1>1. StarSrcs(d) = StarSrcs(c) /\ BinSrcs(d) = BinSrcs(c)
  BY DEF Static, StarSrcs, BinSrcs, BirthMasses
<1>2. \A x : DeathAt(d, x) = DeathAt(c, x)  BY DEF Static, DeathAt
<1>3. Members(d) = Members(c)  BY <1>1 DEF Static, Members
<1> QED BY <1>1, <1>2, <1>3

\* A cluster that is advanced keeps what it was born with, and has the stars that live on.
LEMMA AdvanceKeepsStars ==
  ASSUME TapeOk, sc \in Controls, NEW c, ClusterCore(c),
         NEW t \in Nat, c.curTime <= t, t <= MaxTime
  PROVE  LET d == AdvanceCluster(c, t)
         IN /\ ClusterCore(d) /\ Static(d, c) /\ d.curTime = t /\ d.advanced
            /\ CachesKept(d) \/ (d = c /\ c.advanced)
<1>1. CASE t = c.curTime /\ c.advanced
  <2>1. AdvanceCluster(c, t) = c  BY <1>1 DEF AdvanceCluster
  <2> QED BY <1>1, <2>1 DEF Static
<1>2. CASE ~(t = c.curTime /\ c.advanced)
  <2>1. PICK d : d = AdvanceCluster(c, t)  OBVIOUS
  <2>2. Advanced(d, c, t)  BY <1>2, <2>1, AdvanceIs DEF ClusterCore, BirthKept
  <2>3. BirthKept(d)  BY <2>2 DEF ClusterCore, BirthKept, Advanced, Static
  <2>4. d.advanced = TRUE  BY <2>2 DEF Advanced
  <2>5. TimesKept(d)
    <3>1. c.formTime \in Nat /\ c.curTime \in Nat /\ c.formTime <= c.curTime /\ c.disruptTime \in Nat
      BY DEF ClusterCore, BirthKept, TimesKept
    <3>2. d.isDisrupted \in BOOLEAN /\ (d.isDisrupted <=> t > c.disruptTime)
      BY <2>2, <3>1 DEF Advanced, ClusterCore, TimesKept
    <3>3. /\ d.curTime = t /\ d.formTime = c.formTime /\ d.isoAge = t - c.formTime
          /\ d.disruptTime = c.disruptTime /\ d.lastYieldTime = t /\ d.lastFeedbackTime = t
      BY <2>2 DEF Advanced, Static
    <3>4. c.formTime <= t  BY <3>1
    <3>5. d.curTime \in Nat /\ d.formTime <= d.curTime /\ d.curTime <= MaxTime  BY <3>3, <3>4
    <3>6. d.disruptTime \in Nat /\ (d.isDisrupted <=> d.curTime > d.disruptTime)
      BY <3>1, <3>2, <3>3
    <3> QED BY <2>4, <3>2, <3>3, <3>5, <3>6 DEF TimesKept
  <2>6. /\ StarSrcs(d) = StarSrcs(c)
        /\ \A x : DeathAt(d, x) = DeathAt(c, x)
    BY <2>2, StaticKeeps DEF Advanced
  <2>7. PICK old, new : old = c.stars /\ new = d.stars  OBVIOUS
  <2>8. ByDeath(old) /\ new = SubSeq(old, 1, Left(old, t))  BY <2>2, <2>7, StarsByDeath DEF Advanced
  <2>9. ByDeath(new) /\ ToSet(new) = {s \in ToSet(old) : s.tDeath >= t}  BY <2>8, LivingStars
  <2>10. \A s \in ToSet(old) : s.tDeath = DeathAt(c, s.src)  BY <2>7 DEF ClusterCore, StarsKept
  <2>11. {s.src : s \in ToSet(old)} = {x \in StarSrcs(c) : DeathAt(c, x) >= c.curTime}
    BY <2>7 DEF ClusterCore, StarsKept
  <2>12. {s.src : s \in ToSet(new)} = {x \in StarSrcs(c) : DeathAt(c, x) >= t}
    <3>1. ASSUME NEW s \in ToSet(new) PROVE s.src \in StarSrcs(c) /\ DeathAt(c, s.src) >= t
      BY <2>9, <2>10, <2>11
    <3>2. ASSUME NEW x \in StarSrcs(c), DeathAt(c, x) >= t PROVE \E s \in ToSet(new) : s.src = x
      <4>1. DeathAt(c, x) \in Nat /\ c.curTime \in Nat
        BY ClusterStars DEF ClusterCore, BirthKept, TimesKept
      <4>2. x \in {r.src : r \in ToSet(old)}  BY <2>11, <3>2, <4>1
      <4>3. PICK s \in ToSet(old) : s.src = x  BY <4>2
      <4> QED BY <2>9, <2>10, <3>2, <4>3
    <3> QED BY <3>1, <3>2
  <2>13. StarsKept(d)
    <3>1. \A s \in ToSet(new) : s.tDeath = DeathAt(d, s.src)  BY <2>6, <2>9, <2>10
    <3>2. d.curTime = t  BY <2>2 DEF Advanced
    <3>3. {s.src : s \in ToSet(new)} = {x \in StarSrcs(d) : DeathAt(d, x) >= d.curTime}
      BY <2>6, <2>12, <3>2
    <3> QED BY <2>7, <2>9, <3>1, <3>3 DEF StarsKept, ByDeath
  <2>14. CachesKept(d)  BY <2>2 DEF Advanced, CachesKept
  <2> QED BY <2>1, <2>2, <2>3, <2>5, <2>13, <2>14 DEF Advanced, ClusterCore
<1> QED BY <1>1, <1>2

\* The reconstruction constructor draws what the primary one drew.
LEMMA ReplayIsBirth ==
  ASSUME NEW mass, NEW p \in Nat
  PROVE  ReplayedDraws(mass, p) = BirthDraws(mass, p)
<1>1. CASE sc.extinct
  <2>1. p + 1 + 1 = p + 2 /\ p + 1 + 1 + 1 = p + 3  OBVIOUS
  <2> QED BY <1>1, <2>1 DEF ReplayedDraws, BirthDraws
<1>2. CASE ~sc.extinct  BY <1>2 DEF ReplayedDraws, BirthDraws
<1> QED BY <1>1, <1>2

StarsAtBirth(uid, time, masses) ==
  [i \in DOMAIN masses |-> [src |-> <<"star", uid, i, masses[i]>>,
                            tDeath |-> time + StarLifetimeClamped(masses[i])]]
StarsBorn(stars, uid, time, masses) ==
  /\ stars \in Seq(ToSet(stars))
  /\ {s.src : s \in ToSet(stars)} = {<<"star", uid, i, masses[i]>> : i \in DOMAIN masses}
  /\ \A s \in ToSet(stars) : s.tDeath = time + StarLifetimeClamped(s.src[4])
  /\ \A i, k \in DOMAIN stars : i <= k => stars[i].tDeath >= stars[k].tDeath
\* The stars of a new cluster are sorted by their deaths.
LEMMA BirthStars ==
  ASSUME NEW uid, NEW time \in Nat, NEW masses \in Seq(1 .. MaxMass)
  PROVE  StarsBorn(SortByDeathTimeDescending(StarsAtBirth(uid, time, masses)), uid, time, masses)
<1>1. PICK n \in Nat : n = Len(masses) /\ DOMAIN masses = 1 .. n  OBVIOUS
<1>2. PICK T : T = 1 .. MaxMass  OBVIOUS
<1>3. masses \in [1 .. n -> T]
  <2>1. masses \in Seq(T)  BY <1>2
  <2> QED BY <1>1, <2>1
<1>4. ASSUME NEW i \in 1 .. n PROVE StarLifetimeClamped(masses[i]) \in Nat
  <2>1. PICK m \in 1 .. MaxMass : m = masses[i]  BY <1>2, <1>3
  <2> QED BY <2>1, LifetimesAreNat
<1>5. PICK s : s = StarsAtBirth(uid, time, masses)  OBVIOUS
<1>6. /\ DOMAIN s = 1 .. n
      /\ \A i \in 1 .. n : /\ s[i].src = <<"star", uid, i, masses[i]>>
                           /\ s[i].tDeath = time + StarLifetimeClamped(masses[i])
  BY <1>1, <1>5 DEF StarsAtBirth
<1>7. s \in Seq(ToSet(s)) /\ Len(s) = n
  <2>1. s = [i \in 1 .. n |-> s[i]] /\ \A i \in 1 .. n : s[i] \in ToSet(s)
    BY <1>1, <1>5, <1>6 DEF StarsAtBirth, ToSet
  <2>2. PICK S : S = ToSet(s)  OBVIOUS
  <2>3. s \in [1 .. n -> S]  BY <2>1, <2>2
  <2>4. s \in Seq(S) /\ Len(s) = n  BY <2>3
  <2> QED BY <2>2, <2>4
<1>8. PICK key : key = [i \in 1 .. n |-> -s[i].tDeath]  OBVIOUS
<1>9. \A i \in 1 .. n : s[i].tDeath \in Nat /\ key[i] = -s[i].tDeath  BY <1>4, <1>6, <1>8
<1>10. key \in [1 .. n -> Int]  BY <1>8, <1>9
<1>11. PICK t : t = Sorted(s, key)  OBVIOUS
<1>12. SortByDeathTimeDescending(s) = t  BY <1>6, <1>8, <1>11 DEF SortByDeathTimeDescending
<1>13. t \in Seq(ToSet(s)) /\ Len(t) = n /\ \E f : SortedBy(t, s, key, n, f)
  BY <1>7, <1>10, <1>11, SortedIs
<1>14. PICK f : SortedBy(t, s, key, n, f)  BY <1>13
<1>15. DOMAIN t = 1 .. n  BY <1>13
<1>16. /\ \A p \in 1 .. n : f[p] \in 1 .. n /\ t[p] = s[f[p]]
       /\ \A i \in 1 .. n : \E p \in 1 .. n : f[p] = i
       /\ \A p, q \in 1 .. n : p <= q => key[f[p]] <= key[f[q]]
  BY <1>14 DEF SortedBy
<1>17. t \in Seq(ToSet(t))  BY <1>13, <1>15 DEF ToSet
<1>18. {r.src : r \in ToSet(t)} = {<<"star", uid, i, masses[i]>> : i \in DOMAIN masses}
  <2>1. ASSUME NEW p \in 1 .. n PROVE t[p].src \in {<<"star", uid, i, masses[i]>> : i \in 1 .. n}
    <3>1. PICK i \in 1 .. n : i = f[p] /\ t[p] = s[i]  BY <1>16
    <3>2. s[i].src = <<"star", uid, i, masses[i]>>  BY <1>6
    <3> QED BY <3>1, <3>2
  <2>2. ASSUME NEW i \in 1 .. n PROVE \E p \in 1 .. n : t[p].src = <<"star", uid, i, masses[i]>>
    <3>1. PICK p \in 1 .. n : f[p] = i  BY <1>16
    <3> QED BY <1>6, <1>16, <3>1
  <2>3. ToSet(t) = {t[p] : p \in 1 .. n}  BY <1>15 DEF ToSet
  <2>4. ASSUME NEW x, x \in {r.src : r \in ToSet(t)}
        PROVE  x \in {<<"star", uid, i, masses[i]>> : i \in 1 .. n}
    <3>1. PICK r \in ToSet(t) : x = r.src  BY <2>4
    <3>2. PICK p \in 1 .. n : r = t[p]  BY <2>3
    <3> QED BY <2>1, <3>1, <3>2
  <2>5. ASSUME NEW i \in 1 .. n PROVE <<"star", uid, i, masses[i]>> \in {r.src : r \in ToSet(t)}
    <3>1. PICK p \in 1 .. n : t[p].src = <<"star", uid, i, masses[i]>>  BY <2>2
    <3>2. t[p] \in ToSet(t)  BY <2>3
    <3> QED BY <3>1, <3>2
  <2> QED BY <1>1, <2>4, <2>5
<1>19. ASSUME NEW r \in ToSet(t) PROVE r.tDeath = time + StarLifetimeClamped(r.src[4])
  <2>1. PICK p \in 1 .. n : r = t[p]  BY <1>15 DEF ToSet
  <2>2. PICK i \in 1 .. n : r = s[i]  BY <1>16, <2>1
  <2>3. r.src[4] = masses[i]  BY <1>6, <2>2
  <2> QED BY <1>6, <2>2, <2>3
<1>20. ASSUME NEW i \in 1 .. n, NEW k \in 1 .. n, i <= k PROVE t[i].tDeath >= t[k].tDeath
  <2>1. PICK a \in 1 .. n : a = f[i] /\ t[i] = s[a]  BY <1>16
  <2>2. PICK b \in 1 .. n : b = f[k] /\ t[k] = s[b]  BY <1>16
  <2>3. key[a] <= key[b]  BY <1>16, <1>20, <2>1, <2>2
  <2>4. s[a].tDeath \in Nat /\ s[b].tDeath \in Nat /\ key[a] = -s[a].tDeath /\ key[b] = -s[b].tDeath
    BY <1>9
  <2>5. s[a].tDeath >= s[b].tDeath  BY <2>3, <2>4
  <2> QED BY <2>1, <2>2, <2>5
<1> QED BY <1>5, <1>12, <1>15, <1>17, <1>18, <1>19, <1>20 DEF StarsBorn

Fresh(c) ==
  /\ c.curTime = c.formTime /\ c.advanced = FALSE
  /\ {s.src : s \in ToSet(c.stars)} = StarSrcs(c)
  /\ c.yields = EmptyBag /\ c.stochSN = EmptyBag /\ c.nonStochSN = EmptyBag
IsBirth(c, uid, mass, time, rngState) ==
  /\ ClusterCore(c) /\ Fresh(c)
  /\ c.uid = uid /\ c.targetMass = mass /\ c.formTime = time /\ c.rngState = rngState
\* What either constructor builds, from the draws of a generator's state.
LEMMA ConstructedIs ==
  ASSUME TapeOk, sc \in Controls, NEW uid \in Nat, NEW mass \in Nat, NEW time \in Nat \ {0},
         time <= MaxTime, MaxTime < Never, NEW rngState \in Nat, NEW p \in Nat
  PROVE  IsBirth(Constructed(uid, mass, time, rngState, BirthDraws(mass, rngState), p),
                 uid, mass, time, rngState)
<1>1. PICK draws : draws = BirthDraws(mass, rngState)  OBVIOUS
<1>2. PICK masses : masses = Sorted(draws.masses, draws.masses)  OBVIOUS
<1>3. masses \in Seq(1 .. MaxMass)  BY <1>1, <1>2, BirthDrawsOk
<1>4. PICK born : born = StarsAtBirth(uid, time, masses)  OBVIOUS
<1>5. PICK stars : stars = SortByDeathTimeDescending(born)  OBVIOUS
<1>6. /\ stars \in Seq(ToSet(stars))
      /\ {s.src : s \in ToSet(stars)} = {<<"star", uid, i, masses[i]>> : i \in DOMAIN masses}
      /\ \A s \in ToSet(stars) : s.tDeath = time + StarLifetimeClamped(s.src[4])
      /\ \A i, k \in DOMAIN stars : i <= k => stars[i].tDeath >= stars[k].tDeath
  <2>1. StarsBorn(stars, uid, time, masses)  BY <1>3, <1>4, <1>5, BirthStars
  <2> QED BY <2>1 DEF StarsBorn
<1>7. PICK birthMass, hasBins : birthMass = Total(draws.masses) /\ hasBins = (mass > StochMass(mass))
  OBVIOUS
<1>8. PICK end : end = IF sc.clf THEN time + DrawAt(p, 0, 2) ELSE Never  OBVIOUS
<1>9. end \in Nat /\ time <= end
  <2>1. CASE sc.clf
    <3>1. PICK r \in 0 .. 2 : r = DrawAt(p, 0, 2)  BY DrawAtInRange
    <3> QED BY <1>8, <2>1, <3>1
  <2>2. CASE ~sc.clf  BY <1>8, <2>2, GalaxyAssumption DEF Never
  <2> QED BY <2>1, <2>2
<1>10. PICK none, nothing : none = NoSpec /\ nothing = EmptyBag  OBVIOUS
<1>11. PICK c : c =
     [uid |-> uid, targetMass |-> mass, formTime |-> time, rngState |-> rngState,
      feH |-> draws.feH, aV |-> draws.aV, avNeb |-> draws.avNeb,
      stars |-> stars, dead |-> << >>,
      birthMass |-> birthMass,
      hasBins |-> hasBins,
      disruptTime |-> end,
      curTime |-> time, isDisrupted |-> FALSE, advanced |-> FALSE, isoAge |-> 0,
      spec |-> none, specCurrent |-> TRUE,
      phot |-> none, photCurrent |-> TRUE,
      lbol |-> {}, lbolCurrent |-> TRUE,
      winds |-> {}, windsCurrent |-> TRUE,
      yields |-> nothing, lastYieldTime |-> 0,
      stochSN |-> nothing, nonStochSN |-> nothing, lastFeedbackTime |-> 0]
  OBVIOUS
<1>12. c = Constructed(uid, mass, time, rngState, BirthDraws(mass, rngState), p)
  BY <1>1, <1>2, <1>4, <1>5, <1>7, <1>8, <1>10, <1>11 DEF Constructed, StarsAtBirth
<1>13. IsCluster(c)  BY <1>11 DEF IsCluster, ClusterFields
<1>14. /\ c.uid = uid /\ c.targetMass = mass /\ c.formTime = time /\ c.rngState = rngState
       /\ c.feH = draws.feH /\ c.aV = draws.aV /\ c.avNeb = draws.avNeb
       /\ c.stars = stars /\ c.birthMass = birthMass /\ c.hasBins = hasBins /\ c.disruptTime = end
       /\ c.curTime = time /\ c.isDisrupted = FALSE /\ c.advanced = FALSE /\ c.isoAge = 0
       /\ c.yields = EmptyBag /\ c.lastYieldTime = 0
       /\ c.stochSN = EmptyBag /\ c.nonStochSN = EmptyBag /\ c.lastFeedbackTime = 0
  BY <1>10, <1>11
<1>15. BirthKept(c)  BY <1>1, <1>7, <1>13, <1>14 DEF BirthKept
<1>16. TimesKept(c)
  <2>1. ~(c.curTime > c.disruptTime) /\ c.isDisrupted = FALSE  BY <1>9, <1>14
  <2>2. c.curTime - c.formTime = 0  BY <1>14
  <2>3. c.curTime \in Nat /\ c.formTime <= c.curTime /\ c.curTime <= MaxTime  BY <1>14
  <2> QED BY <1>9, <1>14, <2>1, <2>2, <2>3 DEF TimesKept
<1>17. BirthMasses(c) = masses  BY <1>1, <1>2, <1>14 DEF BirthMasses
<1>18. {s.src : s \in ToSet(stars)} = StarSrcs(c)  BY <1>6, <1>14, <1>17 DEF StarSrcs
<1>19. StarsKept(c)
  <2>1. \A x \in StarSrcs(c) : DeathAt(c, x) \in Nat /\ DeathAt(c, x) > c.formTime
    BY <1>14, ClusterStars
  <2>2. {x \in StarSrcs(c) : DeathAt(c, x) >= c.curTime} = StarSrcs(c)  BY <1>14, <2>1
  <2>3. \A s \in ToSet(stars) : s.tDeath = DeathAt(c, s.src)  BY <1>6, <1>14 DEF DeathAt
  <2> QED BY <1>6, <1>14, <1>18, <2>2, <2>3 DEF StarsKept
<1>20. Fresh(c)  BY <1>14, <1>18 DEF Fresh
<1> QED BY <1>12, <1>14, <1>15, <1>16, <1>19, <1>20 DEF ClusterCore, IsBirth

IsMade(made) ==
  made = [clusters |-> made.clusters, field |-> made.field, next |-> made.next, uid |-> made.uid]
Forming(t) ==
  /\ TapeOk /\ sc \in Controls /\ curTime \in Nat /\ t \in Nat /\ curTime < t /\ t <= MaxTime
NewBorn(c, uid, t) ==
  /\ ClusterCore(c) /\ Fresh(c) /\ c.uid = uid /\ c.formTime \in curTime + 1 .. t

\* One more cluster forms.
LEMMA FormClusterIs ==
  ASSUME NEW t, Forming(t), NEW made, IsMade(made), made.next \in Nat, made.uid \in Nat,
         NEW mass \in Nat
  PROVE  \E c : \E next \in Nat :
           /\ FormCluster(made, mass, t)
                = [clusters |-> Append(made.clusters, c), field |-> made.field, next |-> next,
                   uid |-> made.uid + 1]
           /\ NewBorn(c, made.uid, t)
<1>1. PICK time : time = DrawAt(made.next, curTime + 1, t)  OBVIOUS
<1>2. time \in curTime + 1 .. t  BY <1>1, DrawAtInRange DEF Forming
<1>3. time \in Nat \ {0} /\ time <= MaxTime /\ MaxTime < Never
  BY <1>2, GalaxyAssumption DEF Forming
<1>4. PICK p \in Nat : p = made.next + 1  OBVIOUS
<1>5. PICK draws : draws = BirthDraws(mass, p)  OBVIOUS
<1>6. draws.next \in Nat  BY <1>4, <1>5, BirthDrawsOk DEF Forming
<1>7. PICK c : c = Constructed(made.uid, mass, time, p, draws, draws.next)  OBVIOUS
<1>8. ClusterCore(c) /\ Fresh(c) /\ c.uid = made.uid /\ c.formTime = time
  <2>1. PICK uid \in Nat : uid = made.uid  OBVIOUS
  <2>2. PICK q \in Nat : q = draws.next  BY <1>6
  <2>3. IsBirth(Constructed(uid, mass, time, p, BirthDraws(mass, p), q), uid, mass, time, p)
    BY <1>3, ConstructedIs DEF Forming
  <2>4. IsBirth(c, uid, mass, time, p)  BY <1>5, <1>7, <2>1, <2>2, <2>3
  <2> QED BY <2>1, <2>4 DEF IsBirth
<1>9. PICK next \in Nat : next = AfterDisruption(draws.next)  BY <1>6 DEF AfterDisruption
<1>10. NewCluster(made.uid, mass, time, made.next + 1) = [cluster |-> c, next |-> next]
  BY <1>4, <1>5, <1>7, <1>9 DEF NewCluster, DrawnCluster
<1>11. FormCluster(made, mass, t)
         = [made EXCEPT !.clusters = Append(made.clusters, c), !.next = next, !.uid = made.uid + 1]
  <2>1. PICK new : new = [cluster |-> c, next |-> next]  OBVIOUS
  <2>2. FormCluster(made, mass, t) = ClusterAdded(made, new)  BY <1>1, <1>10, <2>1 DEF FormCluster
  <2>3. ClusterAdded(made, new)
          = [made EXCEPT !.clusters = Append(made.clusters, new.cluster), !.next = new.next,
                         !.uid = made.uid + 1]
    BY DEF ClusterAdded, IsMade
  <2> QED BY <2>1, <2>2, <2>3
<1>12. FormCluster(made, mass, t)
         = [clusters |-> Append(made.clusters, c), field |-> made.field, next |-> next,
            uid |-> made.uid + 1]
  BY <1>11 DEF IsMade
<1> QED BY <1>2, <1>8, <1>12 DEF NewBorn

ClustersBorn(cs, uid, k, t) ==
  /\ cs \in Seq(ToSet(cs)) /\ Len(cs) = k
  /\ \A i \in 1 .. k : NewBorn(cs[i], uid + i - 1, t)
ClustersMade(made, none, k, t) ==
  /\ IsMade(made) /\ made.next \in Nat /\ made.uid = none.uid + k /\ made.field = none.field
  /\ ClustersBorn(made.clusters, none.uid, k, t)
\* A sequence that grows holds what it held, and what is new.
LEMMA AppendIs ==
  ASSUME NEW s, s \in Seq(ToSet(s)), NEW k \in Nat, Len(s) = k, NEW x
  PROVE  /\ Append(s, x) \in Seq(ToSet(Append(s, x))) /\ Len(Append(s, x)) = k + 1
         /\ ToSet(Append(s, x)) = ToSet(s) \cup {x}
         /\ Append(s, x)[k + 1] = x
         /\ \A i \in 1 .. k : Append(s, x)[i] = s[i]
<1>1. PICK S : S = ToSet(s) \cup {x}  OBVIOUS
<1>2. s \in Seq(S) /\ x \in S  BY <1>1
<1>3. PICK t : t = Append(s, x)  OBVIOUS
<1>4. t \in Seq(S) /\ Len(t) = k + 1 /\ t[k + 1] = x /\ \A i \in 1 .. k : t[i] = s[i]  BY <1>2, <1>3
<1>5. DOMAIN t = 1 .. k + 1 /\ DOMAIN s = 1 .. k  BY <1>2, <1>4
<1>6. ToSet(t) = S
  <2>1. ASSUME NEW i \in 1 .. k + 1 PROVE t[i] \in S
    BY <1>4
  <2>2. ASSUME NEW i \in 1 .. k PROVE s[i] \in ToSet(t)
    BY <1>4, <1>5 DEF ToSet
  <2>3. x \in ToSet(t)  BY <1>4, <1>5 DEF ToSet
  <2> QED BY <1>1, <1>5, <2>1, <2>2, <2>3 DEF ToSet
<1> QED BY <1>1, <1>3, <1>4, <1>6

\* The clusters of one step, of the masses drawn.
LEMMA ClustersFormedIs ==
  ASSUME NEW t, NEW none, IsMade(none), none.next \in Nat, none.uid \in Nat,
         none.clusters = <<>>, NEW masses \in Seq(Nat), NEW n \in Nat, Len(masses) = n,
         n # 0 => Forming(t)
  PROVE  ClustersMade(ClustersFormed(none, masses, t), none, n, t)
<1>0. PICK f : ClustersFormedRun(f, none, masses, t, n)  BY ClustersFormedSteps
<1>1. /\ ClustersFormed(none, masses, t) = f[n]
      /\ f[0] = none
      /\ \A i \in 1 .. n : f[i] = FormCluster(f[i - 1], masses[i], t)
  BY <1>0 DEF ClustersFormedRun
<1> DEFINE S == {k \in Nat : k <= n => ClustersMade(f[k], none, k, t)}
<1>2. 0 \in S
  <2>1. ClustersMade(none, none, 0, t)  BY DEF ClustersMade, ClustersBorn, ToSet
  <2> QED BY <1>1, <2>1
<1>3. ASSUME NEW k \in Nat, k \in S PROVE k + 1 \in S
  <2> SUFFICES ASSUME k + 1 <= n PROVE ClustersMade(f[k + 1], none, k + 1, t)
    OBVIOUS
  <2>1. PICK i \in 1 .. n : i = k + 1 /\ i - 1 = k  OBVIOUS
  <2>2. PICK made, mass : made = f[k] /\ mass = masses[i]  OBVIOUS
  <2>3. ClustersMade(made, none, k, t) /\ mass \in Nat  BY <1>3, <2>2
  <2>4. f[k + 1] = FormCluster(made, mass, t)  BY <1>1, <2>1, <2>2
  <2>5. made.uid \in Nat /\ made.next \in Nat /\ IsMade(made) /\ made.uid = none.uid + k
    BY <2>3 DEF ClustersMade
  <2>6. \E c : \E next \in Nat :
           /\ FormCluster(made, mass, t)
                = [clusters |-> Append(made.clusters, c), field |-> made.field, next |-> next,
                   uid |-> made.uid + 1]
           /\ NewBorn(c, made.uid, t)
    <3>1. Forming(t)  OBVIOUS
    <3> QED BY <2>3, <2>5, <3>1, FormClusterIs
  <2>7. PICK c, next : /\ next \in Nat
           /\ f[k + 1]
                = [clusters |-> Append(made.clusters, c), field |-> made.field, next |-> next,
                   uid |-> made.uid + 1]
           /\ NewBorn(c, made.uid, t)
    BY <2>4, <2>6
  <2>8. PICK cs : cs = made.clusters  OBVIOUS
  <2>9. cs \in Seq(ToSet(cs)) /\ Len(cs) = k /\ \A j \in 1 .. k : NewBorn(cs[j], none.uid + j - 1, t)
    BY <2>3, <2>8 DEF ClustersMade, ClustersBorn
  <2>10. PICK ds : ds = Append(cs, c)  OBVIOUS
  <2>11. /\ ds \in Seq(ToSet(ds)) /\ Len(ds) = k + 1 /\ ds[k + 1] = c
         /\ \A j \in 1 .. k : ds[j] = cs[j]
    BY <2>9, <2>10, AppendIs, SMTT(30)
  <2>12. ASSUME NEW j \in 1 .. k + 1 PROVE NewBorn(ds[j], none.uid + j - 1, t)
    <3>1. CASE j = k + 1
      <4>1. none.uid + j - 1 = made.uid  BY <2>5, <3>1
      <4> QED BY <2>7, <2>11, <3>1, <4>1
    <3>2. CASE j # k + 1
      <4>1. j \in 1 .. k  BY <3>2
      <4> QED BY <2>9, <2>11, <4>1
    <3> QED BY <3>1, <3>2
  <2>13. ClustersBorn(ds, none.uid, k + 1, t)  BY <2>11, <2>12 DEF ClustersBorn
  <2>14. PICK new : new = f[k + 1]  OBVIOUS
  <2>15. /\ IsMade(new) /\ new.clusters = ds /\ new.field = none.field /\ new.next = next
         /\ new.uid = made.uid + 1
    BY <2>3, <2>7, <2>8, <2>10, <2>14 DEF IsMade, ClustersMade
  <2>16. new.uid = none.uid + (k + 1)
    <3>1. PICK u \in Nat : u = none.uid  OBVIOUS
    <3> QED BY <2>5, <2>15, <3>1, SMTT(30)
  <2> QED BY <2>7, <2>13, <2>14, <2>15, <2>16 DEF ClustersMade
<1> HIDE DEF S
<1>4. \A k \in Nat : k \in S => k + 1 \in S  BY <1>3
<1>5. Nat \subseteq S  BY <1>2, <1>4, SetInduction
<1>6. n \in S  BY <1>5
<1> QED BY <1>1, <1>6 DEF S

NewField(s, i, t) ==
  /\ \E m \in 1 .. MaxMass : s.src = <<"field", curTime, i, m>>
  /\ s.formTime \in curTime + 1 .. t
  /\ s.deathTime = s.formTime + StarLifetimeClamped(s.src[4])
FieldBornIn(fs, k, t) ==
  /\ fs \in Seq(ToSet(fs)) /\ Len(fs) = k
  /\ \A i \in 1 .. k : NewField(fs[i], i, t)
FieldMade(made, before, k, t) ==
  /\ IsMade(made) /\ made.next \in Nat /\ made.uid = before.uid /\ made.clusters = before.clusters
  /\ FieldBornIn(made.field, k, t)

\* One more field star forms.
LEMMA FormFieldStarIs ==
  ASSUME NEW t, Forming(t), NEW made, IsMade(made), made.next \in Nat, NEW k \in Nat,
         FieldBornIn(made.field, k, t), NEW mass \in 1 .. MaxMass
  PROVE  FieldMade(FormFieldStar(made, mass, t), made, k + 1, t)
<1>1. PICK time : time = DrawAt(made.next, curTime + 1, t)  OBVIOUS
<1>2. time \in curTime + 1 .. t  BY <1>1, DrawAtInRange DEF Forming
<1>3. PICK feH, aV : /\ feH = DrawAt(made.next + 1, 0, 1)
                     /\ aV = IF sc.extinct THEN DrawAt(made.next + 2, 1, 2) ELSE 0
  OBVIOUS
<1>4. PICK next \in Nat : next = IF sc.extinct THEN made.next + 3 ELSE made.next + 2  OBVIOUS
<1>5. PICK old : old = made.field  OBVIOUS
<1>6. old \in Seq(ToSet(old)) /\ Len(old) = k /\ \A i \in 1 .. k : NewField(old[i], i, t)
  BY <1>5 DEF FieldBornIn
<1>7. PICK death : death = time + StarLifetimeClamped(mass)  OBVIOUS
<1>8. PICK star : star = [src |-> <<"field", curTime, k + 1, mass>>, feh |-> feH, formTime |-> time,
                          deathTime |-> death, aV |-> aV]
  OBVIOUS
<1>9. NewField(star, k + 1, t)
  <2>1. star.src = <<"field", curTime, k + 1, mass>> /\ star.formTime = time /\ star.deathTime = death
    BY <1>8
  <2>2. star.src[4] = mass  BY <2>1
  <2> QED BY <1>2, <1>7, <2>1, <2>2 DEF NewField
<1>10. FormFieldStar(made, mass, t) = [made EXCEPT !.field = Append(old, star), !.next = next]
  <2>1. star = NewFieldStar(made, mass, time)
    <3>1. Len(made.field) + 1 = k + 1  BY <1>5, <1>6
    <3>2. NewFieldStar(made, mass, time)
            = [src |-> <<"field", curTime, k + 1, mass>>, feh |-> feH, formTime |-> time,
               deathTime |-> death, aV |-> aV]
      BY <1>3, <1>7, <3>1 DEF NewFieldStar
    <3> QED BY <1>8, <3>2
  <2>2. FormFieldStar(made, mass, t)
          = [made EXCEPT !.field = Append(@, star), !.next = IF sc.extinct THEN @ + 3 ELSE @ + 2]
    BY <1>1, <2>1 DEF FormFieldStar
  <2>3. FormFieldStar(made, mass, t)
          = [made EXCEPT !.field = Append(made.field, star),
                         !.next = IF sc.extinct THEN made.next + 3 ELSE made.next + 2]
    BY <2>2 DEF IsMade
  <2> QED BY <1>4, <1>5, <2>3
<1>11. PICK fs : fs = Append(old, star)  OBVIOUS
<1>12. /\ fs \in Seq(ToSet(fs)) /\ Len(fs) = k + 1 /\ fs[k + 1] = star
       /\ \A j \in 1 .. k : fs[j] = old[j]
  BY <1>6, <1>11, AppendIs
<1>13. ASSUME NEW j \in 1 .. k + 1 PROVE NewField(fs[j], j, t)
  <2>1. CASE j = k + 1  BY <1>9, <1>12, <2>1
  <2>2. CASE j # k + 1
    <3>1. j \in 1 .. k  BY <2>2
    <3> QED BY <1>6, <1>12, <3>1
  <2> QED BY <2>1, <2>2
<1>14. FieldBornIn(fs, k + 1, t)  BY <1>12, <1>13 DEF FieldBornIn
<1>15. PICK new : new = FormFieldStar(made, mass, t)  OBVIOUS
<1>16. /\ IsMade(new) /\ new.next = next /\ new.uid = made.uid /\ new.clusters = made.clusters
       /\ new.field = fs
  BY <1>10, <1>11, <1>15 DEF IsMade
<1> QED BY <1>4, <1>14, <1>15, <1>16 DEF FieldMade

\* The field stars of one step, of the masses drawn.
LEMMA FieldFormedIs ==
  ASSUME NEW t, NEW made, IsMade(made), made.next \in Nat, made.field = <<>>,
         NEW masses \in Seq(1 .. MaxMass), NEW n \in Nat, Len(masses) = n, n # 0 => Forming(t)
  PROVE  FieldMade(FieldFormed(made, masses, t), made, n, t)
<1>0. PICK f : FieldFormedRun(f, made, masses, t, n)  BY FieldFormedSteps
<1>1. /\ FieldFormed(made, masses, t) = f[n]
      /\ f[0] = made
      /\ \A i \in 1 .. n : f[i] = FormFieldStar(f[i - 1], masses[i], t)
  BY <1>0 DEF FieldFormedRun
<1> DEFINE S == {k \in Nat : k <= n => FieldMade(f[k], made, k, t)}
<1>2. 0 \in S
  <2>1. FieldMade(made, made, 0, t)  BY DEF FieldMade, FieldBornIn, ToSet
  <2> QED BY <1>1, <2>1
<1>3. ASSUME NEW k \in Nat, k \in S PROVE k + 1 \in S
  <2> SUFFICES ASSUME k + 1 <= n PROVE FieldMade(f[k + 1], made, k + 1, t)
    OBVIOUS
  <2>1. PICK i \in 1 .. n : i = k + 1 /\ i - 1 = k  OBVIOUS
  <2>2. PICK old, mass : old = f[k] /\ mass = masses[i]  OBVIOUS
  <2>3. mass \in 1 .. MaxMass
    <3>1. PICK T : T = 1 .. MaxMass  OBVIOUS
    <3>2. masses \in Seq(T) /\ i \in 1 .. Len(masses)  BY <3>1
    <3>3. masses[i] \in T  BY <3>2
    <3> QED BY <2>2, <3>1, <3>3
  <2>4. FieldMade(old, made, k, t)  BY <1>3, <2>2
  <2>5. f[k + 1] = FormFieldStar(old, mass, t)  BY <1>1, <2>1, <2>2
  <2>6. IsMade(old) /\ old.next \in Nat /\ FieldBornIn(old.field, k, t) /\ Forming(t)
    BY <2>4 DEF FieldMade
  <2>7. FieldMade(f[k + 1], old, k + 1, t)  BY <2>3, <2>5, <2>6, FormFieldStarIs
  <2> QED BY <2>4, <2>7 DEF FieldMade
<1> HIDE DEF S
<1>4. \A k \in Nat : k \in S => k + 1 \in S  BY <1>3
<1>5. Nat \subseteq S  BY <1>2, <1>4, SetInduction
<1>6. n \in S  BY <1>5
<1> QED BY <1>1, <1>6 DEF S

\* A target of 0 is overshot by the first draw, which is not kept.
LEMMA DrawNothing ==
  ASSUME TapeOk, NEW p \in Nat, NEW lo \in Nat, NEW hi \in Nat, lo >= 1
  PROVE  DrawTarget(p, 0, lo, hi).sample = <<>>
<1>1. CASE lo > hi  BY <1>1 DEF DrawTarget
<1>2. CASE lo <= hi
  <2>1. PICK before, after : before = Draws(p, 0, lo, hi) /\ after = Draws(p, 1, lo, hi)  OBVIOUS
  <2>2. /\ before \in Seq(lo .. hi) /\ Len(before) = 0
        /\ after \in Seq(lo .. hi) /\ Len(after) = 1
    <3>1. Draws(p, 0, lo, hi) \in Seq(lo .. hi) /\ Len(Draws(p, 0, lo, hi)) = 0
      BY <1>2, DrawsInRange
    <3>2. Draws(p, 1, lo, hi) \in Seq(lo .. hi) /\ Len(Draws(p, 1, lo, hi)) = 1
      <4>1. PICK n \in Nat : n = 1  OBVIOUS
      <4>2. Draws(p, n, lo, hi) \in Seq(lo .. hi) /\ Len(Draws(p, n, lo, hi)) = n
        BY <1>2, DrawsInRange
      <4> QED BY <4>1, <4>2
    <3> QED BY <2>1, <3>1, <3>2
  <2>3. before = <<>>  BY <2>2
  <2>4. Total(before) = 0
    <3>1. PICK f : TotalRun(f, before, 0)  BY <2>2, TotalSteps
    <3> QED BY <3>1 DEF TotalRun
  <2>5. Total(after) \in Nat /\ Total(after) >= 1
    <3>1. after \in Seq(Nat) /\ \A i \in 1 .. Len(after) : after[i] >= 1  BY <2>2
    <3> QED BY <2>2, <3>1, TotalIsNat
  <2>6. PICK o : o = Overshoot(p, 0, lo, hi)  OBVIOUS
  <2>7. o \in 1 .. 1
    <3>1. Draws(p, 1 - 1, lo, hi) = before  BY <2>1
    <3>2. Total(Draws(p, 1 - 1, lo, hi)) <= 0 /\ Total(Draws(p, 1, lo, hi)) > 0
      BY <2>1, <2>4, <2>5, <3>1
    <3>3. \E n \in 1 .. 0 + 1 : /\ Total(Draws(p, n - 1, lo, hi)) <= 0
                                /\ Total(Draws(p, n, lo, hi)) > 0
      BY <3>2
    <3>4. o \in 1 .. 0 + 1  BY <2>6, <3>3 DEF Overshoot
    <3> QED BY <3>4
  <2>8. o = 1 /\ o - 1 = 0  BY <2>7
  <2>9. Draws(p, o, lo, hi) = after /\ Draws(p, o - 1, lo, hi) = before  BY <2>1, <2>8
  <2>10. ~(Total(after) - 0 < 0 - Total(before))  BY <2>4, <2>5
  <2>11. ~(Total(Draws(p, o, lo, hi)) - 0 < 0 - Total(Draws(p, o - 1, lo, hi)))  BY <2>9, <2>10
  <2>12. DrawTarget(p, 0, lo, hi).sample = Draws(p, o - 1, lo, hi)
    BY <1>2, <2>6, <2>11 DEF DrawTarget
  <2> QED BY <2>3, <2>9, <2>12
<1> QED BY <1>1, <1>2

\* Where time may be, and what is known of the generator and the ID service.
Ready(t) ==
  /\ TapeOk /\ sc \in Controls /\ curTime \in Nat /\ t \in Nat /\ curTime <= t /\ t <= MaxTime
  /\ rate \in Nat /\ rng \in Nat /\ nextUid \in Nat
FieldSorted(fs, t) ==
  /\ fs \in Seq(ToSet(fs))
  /\ \A s \in ToSet(fs) : \E i \in Nat : NewField(s, i, t)
  /\ \A r, s \in ToSet(fs) : r.src = s.src => r = s
  /\ \A i, j \in DOMAIN fs : i <= j => fs[i].formTime <= fs[j].formTime
FormedIs(formed, t) ==
  /\ \E k \in Nat : formed.uid = nextUid + k /\ ClustersBorn(formed.clusters, nextUid, k, t)
  /\ formed.next \in Nat
  /\ FieldSorted(formed.field, t)

\* Field stars formed one after another are different, also in the order of their times.
LEMMA FieldSortedIs ==
  ASSUME NEW t \in Nat, curTime \in Nat, NEW fs, NEW k \in Nat, FieldBornIn(fs, k, t)
  PROVE  FieldSorted(Sorted(fs, [i \in DOMAIN fs |-> fs[i].formTime]), t)
<1>1. PICK T : T = ToSet(fs)  OBVIOUS
<1>2. fs \in Seq(T) /\ Len(fs) = k /\ DOMAIN fs = 1 .. k /\ \A i \in 1 .. k : NewField(fs[i], i, t)
  BY <1>1 DEF FieldBornIn
<1>3. PICK key : key = [i \in 1 .. k |-> fs[i].formTime]  OBVIOUS
<1>4. \A i \in 1 .. k : fs[i].formTime \in Int
  <2> TAKE i \in 1 .. k
  <2>1. PICK time : time = fs[i].formTime  OBVIOUS
  <2>2. time \in curTime + 1 .. t  BY <1>2, <2>1 DEF NewField
  <2> QED BY <2>1, <2>2
<1>5. key \in [1 .. k -> Int] /\ \A i \in 1 .. k : key[i] = fs[i].formTime  BY <1>3, <1>4
<1>6. PICK s : s = Sorted(fs, key)  OBVIOUS
<1>7. s \in Seq(T) /\ Len(s) = k /\ \E f : SortedBy(s, fs, key, k, f)  BY <1>2, <1>5, <1>6, SortedIs
<1>8. PICK f : SortedBy(s, fs, key, k, f)  BY <1>7
<1>9. /\ \A p \in 1 .. k : f[p] \in 1 .. k /\ s[p] = fs[f[p]]
      /\ \A p, q \in 1 .. k : p <= q => key[f[p]] <= key[f[q]]
  BY <1>8 DEF SortedBy
<1>10. DOMAIN s = 1 .. k  BY <1>7
<1>11. s \in Seq(ToSet(s))
  <2>1. PICK S : S = ToSet(s)  OBVIOUS
  <2>2. s \in [1 .. k -> S]  BY <1>7, <1>10, <2>1 DEF ToSet
  <2> QED BY <2>1, <2>2
<1>12. ASSUME NEW r \in ToSet(s) PROVE \E i \in 1 .. k : r = fs[i]
  <2>1. PICK p \in 1 .. k : r = s[p]  BY <1>10 DEF ToSet
  <2> QED BY <1>9, <2>1
<1>13. ASSUME NEW r \in ToSet(s) PROVE \E i \in Nat : NewField(r, i, t)
  <2>1. PICK i \in 1 .. k : r = fs[i]  BY <1>12
  <2>2. i \in Nat /\ NewField(r, i, t)  BY <1>2, <2>1
  <2> QED BY <2>2
<1>14. ASSUME NEW q \in ToSet(s), NEW r \in ToSet(s), q.src = r.src PROVE q = r
  <2>1. PICK i \in 1 .. k : q = fs[i]  BY <1>12
  <2>2. PICK j \in 1 .. k : r = fs[j]  BY <1>12
  <2>3. PICK m \in 1 .. MaxMass : q.src = <<"field", curTime, i, m>>  BY <1>2, <2>1 DEF NewField
  <2>4. PICK n \in 1 .. MaxMass : r.src = <<"field", curTime, j, n>>  BY <1>2, <2>2 DEF NewField
  <2>5. i = j
    <3>1. q.src[3] = i /\ r.src[3] = j  BY <2>3, <2>4
    <3> QED BY <1>14, <3>1
  <2> QED BY <2>1, <2>2, <2>5
<1>15. ASSUME NEW i \in 1 .. k, NEW j \in 1 .. k, i <= j PROVE s[i].formTime <= s[j].formTime
  <2>1. PICK a \in 1 .. k : a = f[i] /\ s[i] = fs[a]  BY <1>9
  <2>2. PICK b \in 1 .. k : b = f[j] /\ s[j] = fs[b]  BY <1>9
  <2>3. key[a] <= key[b]  BY <1>9, <1>15, <2>1, <2>2
  <2> QED BY <1>5, <2>1, <2>2, <2>3
<1>16. FieldSorted(s, t)  BY <1>10, <1>11, <1>13, <1>14, <1>15 DEF FieldSorted
<1> QED BY <1>2, <1>3, <1>6, <1>16

\* The masses drawn for a step, of which there are none if nothing is to form.
LEMMA MassesDrawn ==
  ASSUME TapeOk, NEW p \in Nat, NEW target \in Nat, NEW lo \in Nat, NEW hi \in Nat, lo >= 1
  PROVE  /\ DrawTarget(p, target, lo, hi).sample \in Seq(lo .. hi)
         /\ DrawTarget(p, target, lo, hi).next \in Nat
         /\ target = 0 => DrawTarget(p, target, lo, hi).sample = <<>>
<1>1. target = 0 => DrawTarget(p, 0, lo, hi).sample = <<>>  BY DrawNothing
<1> QED BY <1>1, DrawTargetInRange

\* What forms in a step, of the masses drawn.
LEMMA FormedOfIs ==
  ASSUME NEW t, Ready(t), NEW clusterMasses \in Seq(Nat), NEW fieldMasses, fieldMasses.next \in Nat,
         fieldMasses.sample \in Seq(1 .. MaxMass),
         t = curTime => clusterMasses = <<>> /\ fieldMasses.sample = <<>>
  PROVE  /\ FormedIs(FormedOf(clusterMasses, fieldMasses, t), t)
         /\ fieldMasses.sample = <<>> => FormedOf(clusterMasses, fieldMasses, t).field = <<>>
<1>1. PICK none : none = [clusters |-> << >>, field |-> << >>, next |-> fieldMasses.next, uid |-> nextUid]
  OBVIOUS
<1>2. IsMade(none) /\ none.next \in Nat /\ none.uid = nextUid /\ none.clusters = <<>> /\ none.field = <<>>
  BY <1>1 DEF IsMade
<1>3. PICK n \in Nat : n = Len(clusterMasses)  OBVIOUS
<1>4. PICK masses : masses = fieldMasses.sample  OBVIOUS
<1>5. PICK k \in Nat : k = Len(masses)  BY <1>4
<1>6. t # curTime => Forming(t)  BY DEF Forming, Ready
<1>7. (n # 0 => Forming(t)) /\ (k # 0 => Forming(t))  BY <1>3, <1>4, <1>5, <1>6
<1>8. PICK made : made = ClustersFormed(none, clusterMasses, t)  OBVIOUS
<1>9. ClustersMade(made, none, n, t)
  <2>1. none.uid \in Nat  BY <1>2 DEF Ready
  <2> QED BY <1>2, <1>3, <1>7, <1>8, <2>1, ClustersFormedIs
<1>10. /\ IsMade(made) /\ made.next \in Nat /\ made.uid = nextUid + n /\ made.field = <<>>
       /\ ClustersBorn(made.clusters, nextUid, n, t)
  BY <1>2, <1>9 DEF ClustersMade
<1>11. PICK full : full = FieldFormed(made, masses, t)  OBVIOUS
<1>12. FieldMade(full, made, k, t)  BY <1>4, <1>5, <1>7, <1>10, <1>11, FieldFormedIs
<1>13. /\ IsMade(full) /\ full.next \in Nat /\ full.uid = made.uid /\ full.clusters = made.clusters
       /\ FieldBornIn(full.field, k, t)
  BY <1>12 DEF FieldMade
<1>14. PICK fs : fs = full.field  OBVIOUS
<1>15. PICK sorted : sorted = Sorted(fs, [i \in DOMAIN fs |-> fs[i].formTime])  OBVIOUS
<1>16. FieldSorted(sorted, t)
  <2>1. t \in Nat /\ curTime \in Nat  BY DEF Ready
  <2> QED BY <1>13, <1>14, <1>15, <2>1, FieldSortedIs
<1>17. PICK formed : formed = [full EXCEPT !.field = sorted]  OBVIOUS
<1>18. FormedOf(clusterMasses, fieldMasses, t) = formed
  BY <1>1, <1>4, <1>8, <1>11, <1>14, <1>15, <1>17 DEF FormedOf, SortedByFormTime
<1>19. formed.uid = full.uid /\ formed.clusters = full.clusters /\ formed.next = full.next
       /\ formed.field = sorted
  BY <1>13, <1>17 DEF IsMade
<1>20. ASSUME masses = <<>> PROVE sorted = <<>>
  <2>1. k = 0  BY <1>5, <1>20
  <2>2. fs \in Seq(ToSet(fs)) /\ Len(fs) = 0  BY <1>13, <1>14, <2>1 DEF FieldBornIn
  <2>3. DOMAIN fs = {}  BY <2>2
  <2>4. DOMAIN sorted = {}  BY <1>15, <2>3 DEF Sorted
  <2>5. sorted \in Seq(ToSet(sorted))  BY <1>16 DEF FieldSorted
  <2> QED BY <2>4, <2>5
<1> QED BY <1>4, <1>10, <1>13, <1>16, <1>18, <1>19, <1>20 DEF FormedIs

\* What forms in a step.
LEMMA FormationIs ==
  ASSUME NEW t, Ready(t)
  PROVE  FormedIs(Formation(t), t) /\ (sc.fCluster = 2 => Formation(t).field = <<>>)
<1>1. /\ TapeOk /\ sc \in Controls /\ curTime \in Nat /\ t \in Nat /\ curTime <= t
      /\ rate \in Nat /\ rng \in Nat
  BY DEF Ready
<1>2. PICK mass \in Nat : mass = NewMass(t) /\ (t = curTime => mass = 0)
  <2>1. PICK d \in Nat : d = t - curTime  BY <1>1
  <2>2. PICK r \in Nat : r = rate  BY <1>1
  <2>3. r * d \in Nat /\ (d = 0 => r * d = 0)
    <3>1. r * d \in Nat  OBVIOUS
    <3>2. d = 0 => r * d = 0
      <4>1. r * 0 = 0  OBVIOUS
      <4> QED BY <4>1
    <3> QED BY <3>1, <3>2
  <2>4. t = curTime => d = 0  BY <1>1, <2>1
  <2> QED BY <2>1, <2>2, <2>3, <2>4 DEF NewMass
<1>3. PICK share : share = sc.fCluster  OBVIOUS
<1>4. share \in 0 .. 2  BY <1>1, <1>3, ControlsAssumption
<1>5. PICK a \in Nat : a = (mass * share) \div 2 /\ (t = curTime => a = 0)
  <2>1. share = 0 \/ share = 1 \/ share = 2  BY <1>4
  <2>2. mass * share \in Nat /\ (mass = 0 => mass * share = 0)  BY <2>1
  <2> QED BY <1>2, <2>2
<1>6. PICK b \in Nat : b = (mass * (2 - share)) \div 2 /\ (t = curTime \/ share = 2 => b = 0)
  <2>1. 2 - share = 0 \/ 2 - share = 1 \/ 2 - share = 2  BY <1>4
  <2>2. mass * (2 - share) \in Nat /\ (mass = 0 \/ share = 2 => mass * (2 - share) = 0)  BY <2>1
  <2> QED BY <1>2, <2>2
<1>7. PICK stoch \in Nat : stoch = StochMass(b) /\ (t = curTime \/ share = 2 => stoch = 0)
  <2>1. StochMass(b) \in Nat /\ (b = 0 => StochMass(b) = 0)  BY <1>1, StochMassIsNat
  <2> QED BY <1>6, <2>1
<1>8. PICK drawn : drawn = DrawTarget(rng, a, MinCluster, MaxCluster)  OBVIOUS
<1>9. drawn.sample \in Seq(MinCluster .. MaxCluster) /\ drawn.next \in Nat /\ (t = curTime => drawn.sample = <<>>)
  <2>1. MinCluster \in Nat /\ MinCluster >= 1 /\ MaxCluster \in Nat  BY GalaxyAssumption
  <2>2. PICK p \in Nat : p = rng  BY <1>1
  <2>3. PICK lo \in Nat, hi \in Nat : lo = MinCluster /\ hi = MaxCluster /\ lo >= 1  BY <2>1
  <2>4. /\ DrawTarget(p, a, lo, hi).sample \in Seq(lo .. hi)
        /\ DrawTarget(p, a, lo, hi).next \in Nat
        /\ a = 0 => DrawTarget(p, a, lo, hi).sample = <<>>
    <3>1. TapeOk  BY <1>1
    <3>2. lo >= 1  BY <2>3
    <3> QED BY <3>1, <3>2, MassesDrawn
  <2> QED BY <1>5, <1>8, <2>2, <2>3, <2>4
<1>10. PICK clusterMasses : clusterMasses = drawn.sample  OBVIOUS
<1>11. clusterMasses \in Seq(Nat)
  <2>1. PICK T : T = MinCluster .. MaxCluster  OBVIOUS
  <2>2. clusterMasses \in Seq(T)  BY <1>9, <1>10, <2>1
  <2>3. \A x \in T : x \in Nat  BY <2>1, GalaxyAssumption
  <2> QED BY <2>2, <2>3
<1>12. PICK stars : stars = DrawTarget(drawn.next, stoch, sc.minStoch, MaxMass)  OBVIOUS
<1>13. PICK lo \in Nat : lo = sc.minStoch /\ lo >= 1 /\ MaxMass \in Nat
  <2>1. MaxMass \in Nat  BY TracksAssumption
  <2>2. sc.minStoch \in 1 .. MaxMass + 1  BY <1>1, ControlsAssumption
  <2> QED BY <2>1, <2>2
<1>14. stars.sample \in Seq(lo .. MaxMass) /\ stars.next \in Nat /\ (t = curTime \/ share = 2 => stars.sample = <<>>)
  <2>1. PICK p \in Nat, hi \in Nat : p = drawn.next /\ hi = MaxMass  BY <1>9, <1>13
  <2>2. /\ DrawTarget(p, stoch, lo, hi).sample \in Seq(lo .. hi)
        /\ DrawTarget(p, stoch, lo, hi).next \in Nat
        /\ stoch = 0 => DrawTarget(p, stoch, lo, hi).sample = <<>>
    <3>1. TapeOk  BY <1>1
    <3>2. lo >= 1  BY <1>13
    <3> QED BY <3>1, <3>2, MassesDrawn
  <2> QED BY <1>7, <1>12, <1>13, <2>1, <2>2
<1>15. PICK s : s = stars.sample  OBVIOUS
<1>16. s \in Seq(1 .. MaxMass)
  <2>1. PICK T, U : T = lo .. MaxMass /\ U = 1 .. MaxMass  OBVIOUS
  <2>2. s \in Seq(T)  BY <1>14, <1>15, <2>1
  <2>3. \A x \in T : x \in U  BY <1>13, <2>1
  <2>4. s \in Seq(U)  BY <2>2, <2>3
  <2> QED BY <2>1, <2>4
<1>17. /\ FormedIs(FormedOf(clusterMasses, stars, t), t)
       /\ share = 2 => FormedOf(clusterMasses, stars, t).field = <<>>
  BY <1>9, <1>10, <1>11, <1>14, <1>15, <1>16, FormedOfIs
<1>18. Formation(t) = FormedAfter(drawn, t)  BY <1>2, <1>3, <1>5, <1>8 DEF Formation
<1>19. FormedAfter(drawn, t) = FormedOf(clusterMasses, stars, t)
  BY <1>2, <1>3, <1>6, <1>7, <1>10, <1>12 DEF FormedAfter
<1> QED BY <1>3, <1>17, <1>18, <1>19

AdvancedTo(d, c, t) ==
  /\ ClusterCore(d) /\ Static(d, c) /\ d.curTime = t /\ d.advanced
  /\ CachesKept(d) \/ (d = c /\ c.advanced)
\* What is known of a cluster that has been advanced.
LEMMA AdvancedIs ==
  ASSUME TapeOk, sc \in Controls, NEW c, ClusterCore(c), NEW t \in Nat, c.curTime <= t, t <= MaxTime
  PROVE  AdvancedTo(AdvanceCluster(c, t), c, t)
BY AdvanceKeepsStars DEF AdvancedTo

Distinct(l) ==
  /\ l \in Seq(ToSet(l)) /\ IsInjective(l)
  /\ \A c, d \in ToSet(l) : c.uid = d.uid => c = d
AgedList(a, l, t) ==
  /\ Distinct(a) /\ Len(a) = Len(l)
  /\ ToSet(a) = {AdvanceCluster(c, t) : c \in ToSet(l)}
  /\ \A c \in ToSet(l) : AdvancedTo(AdvanceCluster(c, t), c, t)

\* Advancing the clusters of a list makes no two of them one.
LEMMA AgedIs ==
  ASSUME TapeOk, sc \in Controls, NEW l, Distinct(l), NEW t \in Nat, t <= MaxTime,
         \A c \in ToSet(l) : ClusterCore(c) /\ c.curTime <= t
  PROVE  AgedList(Aged(l, t), l, t)
<1>1. PICK n \in Nat : n = Len(l) /\ DOMAIN l = 1 .. n  BY DEF Distinct
<1>2. PICK a : a = Aged(l, t)  OBVIOUS
<1>3. DOMAIN a = 1 .. n /\ \A i \in 1 .. n : a[i] = AdvanceCluster(l[i], t)
  BY <1>1, <1>2 DEF Aged, Each
<1>4. \A i \in 1 .. n : l[i] \in ToSet(l)  BY <1>1 DEF ToSet
<1>5. \A c \in ToSet(l) : AdvancedTo(AdvanceCluster(c, t), c, t)  BY AdvancedIs
<1>6. \A c \in ToSet(l) : AdvanceCluster(c, t).uid = c.uid  BY <1>5 DEF AdvancedTo, Static
<1>7. ToSet(a) = {AdvanceCluster(c, t) : c \in ToSet(l)}
  <2>1. ToSet(a) = {a[i] : i \in 1 .. n} /\ ToSet(l) = {l[i] : i \in 1 .. n}
    BY <1>1, <1>3 DEF ToSet
  <2> QED BY <1>3, <2>1
<1>8. a \in Seq(ToSet(a)) /\ Len(a) = n
  <2>1. PICK S : S = ToSet(a)  OBVIOUS
  <2>2. \A i \in 1 .. n : a[i] \in S  BY <1>3, <2>1 DEF ToSet
  <2>3. a = [i \in 1 .. n |-> a[i]]  BY <1>1, <1>2 DEF Aged, Each
  <2>4. a \in [1 .. n -> S]  BY <2>2, <2>3
  <2>5. a \in Seq(S) /\ Len(a) = n  BY <2>4
  <2> QED BY <2>1, <2>5
<1>9. ASSUME NEW i \in 1 .. n, NEW j \in 1 .. n, a[i] = a[j] PROVE i = j
  <2>1. a[i].uid = l[i].uid /\ a[j].uid = l[j].uid  BY <1>3, <1>4, <1>6
  <2>2. l[i] = l[j]  BY <1>4, <1>9, <2>1 DEF Distinct
  <2> QED BY <1>1, <2>2 DEF Distinct, IsInjective
<1>10. IsInjective(a)  BY <1>3, <1>9 DEF IsInjective
<1>11. ASSUME NEW c \in ToSet(a), NEW d \in ToSet(a), c.uid = d.uid PROVE c = d
  <2>1. PICK x \in ToSet(l) : c = AdvanceCluster(x, t)  BY <1>7
  <2>2. PICK y \in ToSet(l) : d = AdvanceCluster(y, t)  BY <1>7
  <2>3. x.uid = y.uid  BY <1>6, <1>11, <2>1, <2>2
  <2> QED BY <2>1, <2>2, <2>3 DEF Distinct
<1> QED BY <1>1, <1>2, <1>5, <1>7, <1>8, <1>10, <1>11 DEF AgedList, Distinct

\* What is picked of a list of different clusters.
LEMMA PickedClusters ==
  ASSUME NEW l, Distinct(l)
  PROVE  /\ Distinct(Staying(l)) /\ ToSet(Staying(l)) = {c \in ToSet(l) : ~c.isDisrupted}
         /\ Distinct(Leaving(l)) /\ ToSet(Leaving(l)) = {c \in ToSet(l) : c.isDisrupted}
<1>1. PICK T : T = ToSet(l)  OBVIOUS
<1>2. l \in Seq(T) /\ IsInjective(l) /\ T = {l[i] : i \in DOMAIN l}  BY <1>1 DEF Distinct, ToSet
<1>3. \A s : Range(s) = ToSet(s)  BY DEF Range, ToSet
<1>4. ASSUME NEW places, NEW U, U = {l[i] : i \in {k \in DOMAIN l : k \in places}}
      PROVE  Distinct(Picked(l, places)) /\ ToSet(Picked(l, places)) = U
  <2>1. PICK p : p = Picked(l, places)  OBVIOUS
  <2>2. p \in Seq(T) /\ Range(p) = U /\ IsInjective(p)  BY <1>2, <1>4, <2>1, PickedElements
  <2>3. ToSet(p) = U  BY <1>3, <2>2
  <2>4. p \in Seq(U)
    <3>1. \A i \in 1 .. Len(p) : p[i] \in U  BY <2>2, <2>3 DEF ToSet
    <3> QED BY <2>2, <3>1
  <2>5. U \subseteq ToSet(l)  BY <1>1, <1>2, <1>4
  <2> QED BY <2>1, <2>2, <2>3, <2>4, <2>5 DEF Distinct
<1>5. ToSet(Staying(l)) = {c \in ToSet(l) : ~c.isDisrupted} /\ Distinct(Staying(l))
  <2>1. PICK places : places = {i \in DOMAIN l : ~l[i].isDisrupted}  OBVIOUS
  <2>2. {l[i] : i \in {k \in DOMAIN l : k \in places}} = {c \in ToSet(l) : ~c.isDisrupted}
    BY <1>1, <1>2, <2>1
  <2> QED
    <3>1. Picked(l, places) = Staying(l)  BY <2>1 DEF Staying
    <3>2. PICK U : U = {c \in ToSet(l) : ~c.isDisrupted}  OBVIOUS
    <3>3. Distinct(Picked(l, places)) /\ ToSet(Picked(l, places)) = U  BY <1>4, <2>2, <3>2
    <3> QED BY <3>1, <3>2, <3>3
<1>6. ToSet(Leaving(l)) = {c \in ToSet(l) : c.isDisrupted} /\ Distinct(Leaving(l))
  <2>1. PICK places : places = {i \in DOMAIN l : l[i].isDisrupted}  OBVIOUS
  <2>2. {l[i] : i \in {k \in DOMAIN l : k \in places}} = {c \in ToSet(l) : c.isDisrupted}
    BY <1>1, <1>2, <2>1
  <2> QED
    <3>1. Picked(l, places) = Leaving(l)  BY <2>1 DEF Leaving
    <3>2. PICK U : U = {c \in ToSet(l) : c.isDisrupted}  OBVIOUS
    <3>3. Distinct(Picked(l, places)) /\ ToSet(Picked(l, places)) = U  BY <1>4, <2>2, <3>2
    <3> QED BY <3>1, <3>2, <3>3
<1> QED BY <1>5, <1>6

\* Two lists without a cluster in common, one after the other.
LEMMA JoinedClusters ==
  ASSUME NEW a, Distinct(a), NEW b, Distinct(b), \A c \in ToSet(a) : \A d \in ToSet(b) : c.uid # d.uid
  PROVE  Distinct(a \o b) /\ ToSet(a \o b) = ToSet(a) \cup ToSet(b)
<1>1. PICK T : T = ToSet(a) \cup ToSet(b)  OBVIOUS
<1>2. a \in Seq(T) /\ b \in Seq(T)  BY <1>1 DEF Distinct
<1>3. \A s : Range(s) = ToSet(s)  BY DEF Range, ToSet
<1>4. PICK j : j = a \o b  OBVIOUS
<1>5. /\ j \in Seq(T) /\ Range(j) = Range(a) \cup Range(b)
      /\ IsInjective(a) /\ IsInjective(b) /\ Range(a) \cap Range(b) = {} => IsInjective(j)
  BY <1>2, <1>4, JoinedElements
<1>6. Range(a) \cap Range(b) = {}  BY <1>3
<1>7. ToSet(j) = T /\ IsInjective(j)  BY <1>1, <1>3, <1>5, <1>6 DEF Distinct
<1>8. ASSUME NEW c \in T, NEW d \in T, c.uid = d.uid PROVE c = d
  <2>1. CASE c \in ToSet(a) /\ d \in ToSet(a)  BY <1>8, <2>1 DEF Distinct
  <2>2. CASE c \in ToSet(b) /\ d \in ToSet(b)  BY <1>8, <2>2 DEF Distinct
  <2>3. ~(c \in ToSet(a) /\ d \in ToSet(b)) /\ ~(c \in ToSet(b) /\ d \in ToSet(a))  BY <1>8
  <2> QED BY <1>1, <2>1, <2>2, <2>3
<1> QED BY <1>1, <1>4, <1>5, <1>7, <1>8 DEF Distinct

ClusterOk(c, now, uid) ==
  ClusterCore(c) /\ CachesKept(c) /\ c.curTime = now /\ c.advanced /\ c.uid < uid
\* The clusters of the two lists at a time, before the cluster that will get ID uid.
ListsOk(cs, ds, now, uid) ==
  /\ Distinct(cs) /\ Distinct(ds)
  /\ \A c \in ToSet(cs) : ClusterOk(c, now, uid) /\ ~c.isDisrupted
  /\ \A c \in ToSet(ds) : ClusterOk(c, now, uid) /\ c.isDisrupted
  /\ \A c \in ToSet(cs) : \A d \in ToSet(ds) : c.uid # d.uid
ListsAged(cs2, ds2, cs, ds, formed, t) ==
  /\ ListsOk(cs2, ds2, t, formed.uid)
  /\ ToSet(cs2) \cup ToSet(ds2)
       = {AdvanceCluster(c, t) : c \in ToSet(cs) \cup ToSet(ds) \cup ToSet(formed.clusters)}
  /\ \A c \in ToSet(cs) \cup ToSet(ds) \cup ToSet(formed.clusters) : AdvancedTo(AdvanceCluster(c, t), c, t)

\* The clusters that form get IDs no cluster has.
LEMMA NewClusters ==
  ASSUME NEW t, NEW uid \in Nat, NEW k \in Nat, NEW cs, ClustersBorn(cs, uid, k, t)
  PROVE  /\ Distinct(cs)
         /\ \A c \in ToSet(cs) : /\ ClusterCore(c) /\ Fresh(c) /\ c.formTime \in curTime + 1 .. t
                                 /\ c.uid \in uid .. uid + k - 1
<1>1. cs \in Seq(ToSet(cs)) /\ Len(cs) = k /\ DOMAIN cs = 1 .. k  BY DEF ClustersBorn
<1>2. \A i \in 1 .. k : NewBorn(cs[i], uid + i - 1, t)  BY DEF ClustersBorn
<1>3. ASSUME NEW i \in 1 .. k, NEW j \in 1 .. k, cs[i].uid = cs[j].uid PROVE i = j
  <2>1. cs[i].uid = uid + i - 1 /\ cs[j].uid = uid + j - 1  BY <1>2 DEF NewBorn
  <2>2. uid + i - 1 = uid + j - 1  BY <1>3, <2>1
  <2> QED BY <2>2
<1>4. ToSet(cs) = {cs[i] : i \in 1 .. k}  BY <1>1 DEF ToSet
<1>5. Distinct(cs)
  <2>1. IsInjective(cs)  BY <1>1, <1>3 DEF IsInjective
  <2>2. ASSUME NEW c \in ToSet(cs), NEW d \in ToSet(cs), c.uid = d.uid PROVE c = d
    BY <1>3, <1>4, <2>2
  <2> QED BY <1>1, <2>1, <2>2 DEF Distinct
<1>6. ASSUME NEW c \in ToSet(cs)
      PROVE  /\ ClusterCore(c) /\ Fresh(c) /\ c.formTime \in curTime + 1 .. t
             /\ c.uid \in uid .. uid + k - 1
  <2>1. PICK i \in 1 .. k : c = cs[i]  BY <1>4
  <2>2. NewBorn(c, uid + i - 1, t)  BY <1>2, <2>1
  <2>3. uid + i - 1 \in uid .. uid + k - 1  OBVIOUS
  <2> QED BY <2>2, <2>3 DEF NewBorn
<1> QED BY <1>5, <1>6

\* Clusters age and disrupt, and others form: the two lists stay what they are.
LEMMA ListsAdvance ==
  ASSUME NEW t, Ready(t), NEW cs, NEW ds, ListsOk(cs, ds, curTime, nextUid), NEW formed, FormedIs(formed, t)
  PROVE  ListsAged(Staying(Aged(cs \o formed.clusters, t)),
                   Aged(ds, t) \o Leaving(Aged(cs \o formed.clusters, t)), cs, ds, formed, t)
<1>1. /\ TapeOk /\ sc \in Controls /\ curTime \in Nat /\ t \in Nat /\ curTime <= t /\ t <= MaxTime
      /\ nextUid \in Nat
  BY DEF Ready
<1>2. PICK k \in Nat : formed.uid = nextUid + k /\ ClustersBorn(formed.clusters, nextUid, k, t)
  BY DEF FormedIs
<1>3. PICK fc : fc = formed.clusters  OBVIOUS
<1>4. /\ Distinct(fc)
      /\ \A c \in ToSet(fc) : /\ ClusterCore(c) /\ Fresh(c) /\ c.formTime \in curTime + 1 .. t
                              /\ c.uid \in nextUid .. nextUid + k - 1
  BY <1>1, <1>2, <1>3, NewClusters
<1>5. \A c \in ToSet(fc) : c.curTime <= t /\ c.uid >= nextUid /\ c.uid < formed.uid
  <2> TAKE c \in ToSet(fc)
  <2>1. PICK time, uid : time = c.formTime /\ uid = c.uid  OBVIOUS
  <2>2. time \in curTime + 1 .. t /\ uid \in nextUid .. nextUid + k - 1 /\ c.curTime = time
    BY <1>4, <2>1 DEF Fresh
  <2>3. time <= t /\ uid >= nextUid /\ uid < nextUid + k  BY <1>1, <2>2
  <2> QED BY <1>2, <2>1, <2>2, <2>3
<1>6. \A c \in ToSet(cs) \cup ToSet(ds) :
        ClusterCore(c) /\ c.curTime = curTime /\ c.uid \in Nat /\ c.uid < nextUid /\ c.uid < formed.uid
  <2> TAKE c \in ToSet(cs) \cup ToSet(ds)
  <2>1. ClusterCore(c) /\ c.curTime = curTime /\ c.uid < nextUid  BY DEF ListsOk, ClusterOk
  <2>2. PICK uid \in Nat : uid = c.uid  BY <2>1 DEF ClusterCore, BirthKept
  <2>3. uid < nextUid + k  BY <1>1, <2>1, <2>2
  <2> QED BY <1>2, <2>1, <2>2, <2>3
<1>7. PICK all : all = cs \o fc  OBVIOUS
<1>8. Distinct(all) /\ ToSet(all) = ToSet(cs) \cup ToSet(fc)
  <2>1. ASSUME NEW c \in ToSet(cs), NEW d \in ToSet(fc) PROVE c.uid # d.uid
    <3>1. c.uid \in Nat /\ c.uid < nextUid /\ d.uid >= nextUid  BY <1>5, <1>6
    <3>2. d.uid \in Int  BY <1>1, <1>4
    <3> QED BY <1>1, <3>1, <3>2
  <2>2. Distinct(cs)  BY DEF ListsOk
  <2> QED BY <1>4, <1>7, <2>1, <2>2, JoinedClusters
<1>9. PICK aged : aged = Aged(all, t)  OBVIOUS
<1>10. AgedList(aged, all, t)
  <2>1. \A c \in ToSet(all) : ClusterCore(c) /\ c.curTime <= t  BY <1>1, <1>4, <1>5, <1>6, <1>8
  <2> QED BY <1>1, <1>8, <1>9, <2>1, AgedIs
<1>11. PICK old : old = Aged(ds, t)  OBVIOUS
<1>12. AgedList(old, ds, t)
  <2>1. \A c \in ToSet(ds) : ClusterCore(c) /\ c.curTime <= t  BY <1>1, <1>6
  <2>2. Distinct(ds)  BY DEF ListsOk
  <2> QED BY <1>1, <1>11, <2>1, <2>2, AgedIs
<1>13. \A c \in ToSet(cs) \cup ToSet(ds) \cup ToSet(fc) : AdvancedTo(AdvanceCluster(c, t), c, t)
  BY <1>8, <1>10, <1>12 DEF AgedList
<1>14. PICK stay, leave : stay = Staying(aged) /\ leave = Leaving(aged)  OBVIOUS
<1>15. /\ Distinct(stay) /\ ToSet(stay) = {c \in ToSet(aged) : ~c.isDisrupted}
       /\ Distinct(leave) /\ ToSet(leave) = {c \in ToSet(aged) : c.isDisrupted}
  BY <1>10, <1>14, PickedClusters DEF AgedList
<1>16. ASSUME NEW c \in ToSet(cs) \cup ToSet(fc), NEW d \in ToSet(ds) PROVE c.uid # d.uid
  <2>1. CASE c \in ToSet(cs)  BY <2>1 DEF ListsOk
  <2>2. CASE c \in ToSet(fc)
    <3>1. d.uid \in Nat /\ d.uid < nextUid /\ c.uid >= nextUid  BY <1>5, <1>6, <2>2
    <3>2. c.uid \in Int  BY <1>1, <1>4, <2>2
    <3> QED BY <1>1, <3>1, <3>2
  <2> QED BY <2>1, <2>2
<1>17. ASSUME NEW c \in ToSet(aged), NEW d \in ToSet(old) PROVE c.uid # d.uid
  <2>1. PICK x \in ToSet(cs) \cup ToSet(fc) : c = AdvanceCluster(x, t)  BY <1>8, <1>10 DEF AgedList
  <2>2. PICK y \in ToSet(ds) : d = AdvanceCluster(y, t)  BY <1>12 DEF AgedList
  <2>3. c.uid = x.uid /\ d.uid = y.uid  BY <1>13, <2>1, <2>2 DEF AdvancedTo, Static
  <2> QED BY <1>16, <2>3
<1>18. PICK joined : joined = old \o leave  OBVIOUS
<1>19. Distinct(joined) /\ ToSet(joined) = ToSet(old) \cup ToSet(leave)
  <2>1. \A c \in ToSet(old) : \A d \in ToSet(leave) : c.uid # d.uid  BY <1>15, <1>17
  <2> QED BY <1>12, <1>15, <1>18, <2>1, JoinedClusters DEF AgedList
<1>20. ASSUME NEW x \in ToSet(cs) \cup ToSet(ds) \cup ToSet(fc), NEW d, d = AdvanceCluster(x, t)
       PROVE  ClusterOk(d, t, formed.uid)
  <2>1. AdvancedTo(d, x, t)  BY <1>13, <1>20
  <2>2. d.uid < formed.uid
    <3>1. x.uid < formed.uid  BY <1>5, <1>6
    <3> QED BY <2>1, <3>1 DEF AdvancedTo, Static
  <2>3. CachesKept(d)
    <3>1. CASE d = x /\ x.advanced
      <4>1. x \notin ToSet(fc)  BY <1>4, <3>1 DEF Fresh
      <4> QED BY <3>1, <4>1 DEF ListsOk, ClusterOk
    <3> QED BY <2>1, <3>1 DEF AdvancedTo
  <2> QED BY <2>1, <2>2, <2>3 DEF AdvancedTo, ClusterOk
<1>21. \A d \in ToSet(aged) \cup ToSet(old) : ClusterOk(d, t, formed.uid)
  <2> TAKE d \in ToSet(aged) \cup ToSet(old)
  <2>1. PICK x \in ToSet(cs) \cup ToSet(ds) \cup ToSet(fc) : d = AdvanceCluster(x, t)
    BY <1>8, <1>10, <1>12 DEF AgedList
  <2> QED BY <1>20, <2>1
<1>22. ASSUME NEW d \in ToSet(old) PROVE d.isDisrupted
  <2>1. PICK x \in ToSet(ds) : d = AdvanceCluster(x, t)  BY <1>12 DEF AgedList
  <2>2. TimesKept(x) /\ x.isDisrupted /\ x.curTime = curTime  BY <1>6 DEF ListsOk, ClusterCore
  <2>3. TimesKept(d) /\ d.curTime = t /\ d.disruptTime = x.disruptTime
    BY <1>13, <2>1 DEF AdvancedTo, ClusterCore, Static
  <2>4. PICK end \in Nat : end = x.disruptTime  BY <2>2 DEF TimesKept
  <2>5. curTime > end  BY <2>2, <2>4 DEF TimesKept
  <2>6. t > end  BY <1>1, <2>5
  <2> QED BY <2>3, <2>4, <2>6 DEF TimesKept
<1>23. ListsOk(stay, joined, t, formed.uid)
  <2>1. ASSUME NEW c \in ToSet(stay), NEW d \in ToSet(joined) PROVE c.uid # d.uid
    <3>1. CASE d \in ToSet(old)  BY <1>15, <1>17, <3>1
    <3>2. CASE d \in ToSet(leave)
      <4>1. c \in ToSet(aged) /\ d \in ToSet(aged) /\ c # d  BY <1>15, <3>2
      <4>2. Distinct(aged)  BY <1>10 DEF AgedList
      <4> QED BY <4>1, <4>2 DEF Distinct
    <3> QED BY <1>19, <3>1, <3>2
  <2> QED BY <1>15, <1>19, <1>21, <1>22, <2>1 DEF ListsOk
<1>24. ToSet(stay) \cup ToSet(joined)
         = {AdvanceCluster(c, t) : c \in ToSet(cs) \cup ToSet(ds) \cup ToSet(fc)}
  <2>1. ToSet(stay) \cup ToSet(joined) = ToSet(aged) \cup ToSet(old)  BY <1>15, <1>19
  <2>2. ToSet(aged) = {AdvanceCluster(c, t) : c \in ToSet(cs) \cup ToSet(fc)}
    BY <1>8, <1>10 DEF AgedList
  <2>3. ToSet(old) = {AdvanceCluster(c, t) : c \in ToSet(ds)}  BY <1>12 DEF AgedList
  <2> QED BY <2>1, <2>2, <2>3
<1> QED BY <1>3, <1>7, <1>9, <1>11, <1>13, <1>14, <1>18, <1>23, <1>24 DEF ListsAged

\* The field stars of the census.
FieldOf(cens) == {x \in cens : x.src[1] = "field"}
FieldCensusOk(F, now) ==
  /\ \A x \in F : /\ x = [src |-> x.src, born |-> x.born] /\ x.born \in 1 .. now
                  /\ x.src[1] = "field" /\ x.src[2] \in Nat /\ x.src[2] < now /\ x.src[4] \in 1 .. MaxMass
  /\ \A x, y \in F : x.src = y.src => x = y
StarOf(s) == [src |-> s.src, born |-> s.formTime]
StarsOf(fs) == {StarOf(s) : s \in ToSet(fs)}
FieldListOk(fs, F, now) ==
  /\ fs \in Seq(ToSet(fs))
  /\ StarsOf(fs) = {x \in F : DeathOf(x) >= now}
  /\ \A s \in ToSet(fs) : s.deathTime = DeathOf(StarOf(s))
  /\ \A i, j \in DOMAIN fs : i <= j => fs[i].formTime <= fs[j].formTime
FieldAged(alive, dead, fs, F, new, t) ==
  /\ FieldCensusOk(F \cup StarsOf(new), t)
  /\ FieldListOk(alive, F \cup StarsOf(new), t)
  /\ StarsOf(dead) = {x \in F \cup StarsOf(new) : DeathOf(x) < t /\ ~(x \in F /\ DeathOf(x) < curTime)}
  /\ \A s \in ToSet(dead) : s.deathTime = DeathOf(StarOf(s))

\* Field stars that form are in the census with their times.
LEMMA NewFieldStars ==
  ASSUME NEW t \in Nat, curTime \in Nat, NEW new, FieldSorted(new, t)
  PROVE  /\ \A x \in StarsOf(new) :
              /\ x = [src |-> x.src, born |-> x.born] /\ x.born \in curTime + 1 .. t
              /\ x.src[1] = "field" /\ x.src[2] = curTime /\ x.src[4] \in 1 .. MaxMass
              /\ DeathOf(x) \in Nat /\ DeathOf(x) > x.born
         /\ \A x, y \in StarsOf(new) : x.src = y.src => x = y
         /\ \A s \in ToSet(new) : s.deathTime = DeathOf(StarOf(s))
<1>1. ASSUME NEW s \in ToSet(new)
      PROVE  /\ s.formTime \in curTime + 1 .. t /\ s.src[1] = "field" /\ s.src[2] = curTime
             /\ s.src[4] \in 1 .. MaxMass /\ s.deathTime = DeathOf(StarOf(s))
  <2>1. PICK i \in Nat : NewField(s, i, t)  BY DEF FieldSorted
  <2>2. PICK m \in 1 .. MaxMass : s.src = <<"field", curTime, i, m>>  BY <2>1 DEF NewField
  <2>3. s.src[1] = "field" /\ s.src[2] = curTime /\ s.src[4] = m  BY <2>2
  <2>4. s.deathTime = s.formTime + StarLifetimeClamped(s.src[4]) /\ s.formTime \in curTime + 1 .. t
    BY <2>1 DEF NewField
  <2>5. DeathOf(StarOf(s)) = s.formTime + StarLifetimeClamped(s.src[4])  BY DEF DeathOf, StarOf
  <2> QED BY <2>3, <2>4, <2>5
<1>2. ASSUME NEW x \in StarsOf(new)
      PROVE  /\ x = [src |-> x.src, born |-> x.born] /\ x.born \in curTime + 1 .. t
             /\ x.src[1] = "field" /\ x.src[2] = curTime /\ x.src[4] \in 1 .. MaxMass
             /\ DeathOf(x) \in Nat /\ DeathOf(x) > x.born
  <2>1. PICK s \in ToSet(new) : x = [src |-> s.src, born |-> s.formTime]  BY DEF StarsOf, StarOf
  <2>2. x.src = s.src /\ x.born = s.formTime  BY <2>1
  <2>3. PICK m \in 1 .. MaxMass : m = s.src[4]  BY <1>1
  <2>4. PICK life \in Nat : life = StarLifetimeClamped(m) /\ life >= 1  BY LifetimesAreNat
  <2>5. PICK born : born = x.born  OBVIOUS
  <2>6. born \in curTime + 1 .. t  BY <1>1, <2>2, <2>5
  <2>7. DeathOf(x) = born + life  BY <2>2, <2>3, <2>4, <2>5 DEF DeathOf
  <2>8. born + life \in Nat /\ born + life > born  BY <2>4, <2>6
  <2> QED BY <1>1, <2>1, <2>2, <2>5, <2>7, <2>8
<1>3. ASSUME NEW x \in StarsOf(new), NEW y \in StarsOf(new), x.src = y.src PROVE x = y
  <2>1. PICK r \in ToSet(new) : x = [src |-> r.src, born |-> r.formTime]  BY DEF StarsOf, StarOf
  <2>2. PICK s \in ToSet(new) : y = [src |-> s.src, born |-> s.formTime]  BY DEF StarsOf, StarOf
  <2>3. r.src = s.src  BY <1>3, <2>1, <2>2
  <2>4. r = s  BY <2>3 DEF FieldSorted
  <2> QED BY <2>1, <2>2, <2>4
<1> QED BY <1>1, <1>2, <1>3

\* The field stars of the lists are in the census, with their times.
LEMMA OldFieldStars ==
  ASSUME NEW F, NEW now \in Nat, FieldCensusOk(F, now)
  PROVE  \A x \in F : DeathOf(x) \in Nat /\ x.born \in Nat /\ x.born <= now
<1> TAKE x \in F
<1>1. PICK m \in 1 .. MaxMass : m = x.src[4]  BY DEF FieldCensusOk
<1>2. PICK life \in Nat : life = StarLifetimeClamped(m)  BY LifetimesAreNat
<1>3. PICK born : born = x.born  OBVIOUS
<1>4. born \in 1 .. now  BY <1>3 DEF FieldCensusOk
<1>5. DeathOf(x) = born + life  BY <1>1, <1>2, <1>3 DEF DeathOf
<1>6. born + life \in Nat /\ born \in Nat /\ born <= now  BY <1>4
<1> QED BY <1>3, <1>5, <1>6

\* Field stars die and others form: the list stays what it is, and those that die are the
\* ones that had not died before.
LEMMA FieldAdvance ==
  ASSUME NEW t, Ready(t), NEW F, NEW fs, FieldCensusOk(F, curTime), FieldListOk(fs, F, curTime),
         NEW new, FieldSorted(new, t)
  PROVE  FieldAged(FieldAlive(fs \o new, t), FieldDead(fs \o new, t), fs, F, new, t)
<1>1. curTime \in Nat /\ t \in Nat /\ curTime <= t  BY DEF Ready
<1>2. PICK G : G = F \cup StarsOf(new)  OBVIOUS
<1>3. /\ \A x \in StarsOf(new) :
           /\ x = [src |-> x.src, born |-> x.born] /\ x.born \in curTime + 1 .. t
           /\ x.src[1] = "field" /\ x.src[2] = curTime /\ x.src[4] \in 1 .. MaxMass
           /\ DeathOf(x) \in Nat /\ DeathOf(x) > x.born
      /\ \A x, y \in StarsOf(new) : x.src = y.src => x = y
      /\ \A s \in ToSet(new) : s.deathTime = DeathOf(StarOf(s))
  BY <1>1, NewFieldStars
<1>4. FieldCensusOk(G, t)
  <2>1. ASSUME NEW x \in G
        PROVE  /\ x = [src |-> x.src, born |-> x.born] /\ x.born \in 1 .. t
               /\ x.src[1] = "field" /\ x.src[2] \in Nat /\ x.src[2] < t /\ x.src[4] \in 1 .. MaxMass
    <3>1. PICK born, place : born = x.born /\ place = x.src[2]  OBVIOUS
    <3>2. CASE x \in F
      <4>1. born \in 1 .. curTime /\ place \in Nat /\ place < curTime
        BY <3>1, <3>2 DEF FieldCensusOk
      <4>2. born \in 1 .. t /\ place < t  BY <1>1, <4>1
      <4> QED BY <3>1, <3>2, <4>1, <4>2 DEF FieldCensusOk
    <3>3. CASE x \in StarsOf(new)
      <4>1. born \in curTime + 1 .. t /\ place = curTime  BY <1>3, <3>1, <3>3
      <4>2. born \in 1 .. t /\ place \in Nat /\ place < t  BY <1>1, <4>1
      <4> QED BY <1>3, <3>1, <3>3, <4>2
    <3> QED BY <1>2, <3>2, <3>3
  <2>2. ASSUME NEW x \in G, NEW y \in G, x.src = y.src PROVE x = y
    <3>1. \A z \in F : z.src[2] # curTime  BY <1>1 DEF FieldCensusOk
    <3>2. \A z \in StarsOf(new) : z.src[2] = curTime  BY <1>3
    <3>3. (x \in F /\ y \in F) \/ (x \in StarsOf(new) /\ y \in StarsOf(new))
      BY <1>2, <2>2, <3>1, <3>2
    <3> QED BY <1>3, <2>2, <3>3 DEF FieldCensusOk
  <2> QED BY <2>1, <2>2 DEF FieldCensusOk
<1>5. PICK all : all = fs \o new  OBVIOUS
<1>6. PICK n \in Nat, k \in Nat : n = Len(fs) /\ k = Len(new) /\ DOMAIN fs = 1 .. n /\ DOMAIN new = 1 .. k
  BY DEF FieldListOk, FieldSorted
<1>7. PICK T : T = ToSet(fs) \cup ToSet(new)  OBVIOUS
<1>8. fs \in Seq(T) /\ new \in Seq(T)  BY <1>7 DEF FieldListOk, FieldSorted
<1>9. /\ all \in Seq(T) /\ Len(all) = n + k
      /\ \A p \in 1 .. n : all[p] = fs[p]
      /\ \A p \in n + 1 .. n + k : all[p] = new[p - n]
  BY <1>5, <1>6, <1>8, ConcatElements DEF Joined
<1>11. ToSet(all) = T
  <2>1. \A s : Range(s) = ToSet(s)  BY DEF Range, ToSet
  <2>2. Range(all) = Range(fs) \cup Range(new)  BY <1>5, <1>8, JoinedElements
  <2> QED BY <1>7, <2>1, <2>2
<1>12. \A s \in T : s.deathTime = DeathOf(StarOf(s)) /\ StarOf(s) \in G
  <2> TAKE s \in T
  <2>1. CASE s \in ToSet(fs)
    <3>1. StarOf(s) \in StarsOf(fs)  BY <2>1 DEF StarsOf
    <3> QED BY <1>2, <2>1, <3>1 DEF FieldListOk
  <2>2. CASE s \in ToSet(new)
    <3>1. StarOf(s) \in StarsOf(new)  BY <2>2 DEF StarsOf
    <3> QED BY <1>2, <1>3, <2>2, <3>1
  <2> QED BY <1>7, <2>1, <2>2
<1>13. \A x \in G : DeathOf(x) \in Nat /\ x.born \in Nat  BY <1>1, <1>4, OldFieldStars
<1>14. {StarOf(s) : s \in T} = {x \in G : ~(x \in F /\ DeathOf(x) < curTime)}
  <2>1. {StarOf(s) : s \in T} = StarsOf(fs) \cup StarsOf(new)  BY <1>7 DEF StarsOf
  <2>2. StarsOf(fs) = {x \in F : DeathOf(x) >= curTime}  BY DEF FieldListOk
  <2>3. ASSUME NEW x \in StarsOf(new) PROVE ~(DeathOf(x) < curTime)
    <3>1. PICK born, death : born = x.born /\ death = DeathOf(x)  OBVIOUS
    <3>2. born \in curTime + 1 .. t /\ death \in Nat /\ death > born  BY <1>3, <3>1
    <3>3. ~(death < curTime)  BY <1>1, <3>2
    <3> QED BY <3>1, <3>3
  <2>4. \A x \in F : DeathOf(x) >= curTime <=> ~(DeathOf(x) < curTime)  BY <1>1, <1>2, <1>13
  <2> QED BY <1>2, <2>1, <2>2, <2>3, <2>4
<1>15. PICK placesAlive, placesDead :
         /\ placesAlive = {i \in DOMAIN all : all[i].deathTime >= t}
         /\ placesDead = {i \in DOMAIN all : all[i].deathTime < t}
  OBVIOUS
<1>16. PICK alive, dead : alive = Picked(all, placesAlive) /\ dead = Picked(all, placesDead)
  OBVIOUS
<1>17. alive = FieldAlive(all, t) /\ dead = FieldDead(all, t)
  BY <1>15, <1>16 DEF FieldAlive, FieldDead
<1>18. \A s : Range(s) = ToSet(s)  BY DEF Range, ToSet
<1>19. ToSet(alive) = {s \in T : s.deathTime >= t}
  <2>1. Range(alive) = {all[i] : i \in {j \in DOMAIN all : j \in placesAlive}}
    BY <1>9, <1>16, PickedElements, SMTT(30)
  <2>2. T = {all[i] : i \in DOMAIN all}  BY <1>11 DEF ToSet
  <2> QED BY <1>15, <1>18, <2>1, <2>2
<1>20. ToSet(dead) = {s \in T : s.deathTime < t}
  <2>1. Range(dead) = {all[i] : i \in {j \in DOMAIN all : j \in placesDead}}
    BY <1>9, <1>16, PickedElements
  <2>2. T = {all[i] : i \in DOMAIN all}  BY <1>11 DEF ToSet
  <2> QED BY <1>15, <1>18, <2>1, <2>2
<1>21. StarsOf(alive) = {x \in G : DeathOf(x) >= t}
  <2>1. StarsOf(alive) = {StarOf(s) : s \in {r \in T : DeathOf(StarOf(r)) >= t}}
    BY <1>12, <1>19 DEF StarsOf
  <2>2. StarsOf(alive) = {x \in {StarOf(s) : s \in T} : DeathOf(x) >= t}  BY <2>1
  <2>3. ASSUME NEW x \in G, DeathOf(x) >= t PROVE ~(DeathOf(x) < curTime)
    <3>1. PICK death \in Nat : death = DeathOf(x)  BY <1>13
    <3> QED BY <1>1, <2>3, <3>1
  <2> QED BY <1>14, <2>2, <2>3
<1>22. StarsOf(dead) = {x \in G : DeathOf(x) < t /\ ~(x \in F /\ DeathOf(x) < curTime)}
  <2>1. StarsOf(dead) = {StarOf(s) : s \in {r \in T : DeathOf(StarOf(r)) < t}}
    BY <1>12, <1>20 DEF StarsOf
  <2>2. StarsOf(dead) = {x \in {StarOf(s) : s \in T} : DeathOf(x) < t}  BY <2>1
  <2> QED BY <1>14, <2>2
<1>23. ASSUME NEW i \in 1 .. n + k, NEW j \in 1 .. n + k, i <= j PROVE all[i].formTime <= all[j].formTime
  <2>1. CASE j \in 1 .. n
    <3>1. i \in 1 .. n  BY <1>23, <2>1
    <3> QED BY <1>6, <1>9, <1>23, <2>1, <3>1 DEF FieldListOk
  <2>2. CASE i \in n + 1 .. n + k
    <3>1. j \in n + 1 .. n + k  BY <1>23, <2>2
    <3>2. PICK a \in 1 .. k : a = i - n  BY <2>2
    <3>3. PICK b \in 1 .. k : b = j - n  BY <3>1
    <3>4. a <= b  BY <1>23, <3>2, <3>3
    <3>5. all[i] = new[a] /\ all[j] = new[b]  BY <1>9, <2>2, <3>1, <3>2, <3>3
    <3> QED BY <1>6, <3>4, <3>5 DEF FieldSorted
  <2>3. CASE i \in 1 .. n /\ j \in n + 1 .. n + k
    <3>1. PICK b \in 1 .. k : b = j - n  BY <2>3
    <3>2. all[i] = fs[i] /\ all[j] = new[b]  BY <1>9, <2>3, <3>1
    <3>3. fs[i] \in ToSet(fs) /\ new[b] \in ToSet(new)  BY <1>6, <2>3 DEF ToSet
    <3>4. StarOf(fs[i]) \in F /\ StarOf(new[b]) \in StarsOf(new)  BY <3>3 DEF FieldListOk, StarsOf
    <3>5. StarOf(fs[i]).born = fs[i].formTime /\ StarOf(new[b]).born = new[b].formTime
      BY DEF StarOf
    <3>6. PICK x, y : x = fs[i].formTime /\ y = new[b].formTime  OBVIOUS
    <3>7. x \in 1 .. curTime /\ y \in curTime + 1 .. t  BY <1>3, <3>4, <3>5, <3>6 DEF FieldCensusOk
    <3>8. x <= y  BY <1>1, <3>7
    <3> QED BY <3>2, <3>6, <3>8
  <2> QED BY <2>1, <2>2, <2>3
<1>24. alive \in Seq(T) /\ \E g : PickedBy(alive, all, placesAlive, n + k, g)
  <2>1. PICK l \in Nat : l = n + k  OBVIOUS
  <2>2. Len(all) = l  BY <1>9, <2>1
  <2>3. Picked(all, placesAlive) \in Seq(T) /\ \E g : PickedBy(Picked(all, placesAlive), all, placesAlive, l, g)
    BY <1>9, <2>2, PickedIs
  <2> QED BY <1>16, <2>1, <2>3
<1>25. PICK g : PickedBy(alive, all, placesAlive, n + k, g)  BY <1>24
<1>26. PICK a \in Nat : a = Len(alive) /\ DOMAIN alive = 1 .. a  BY <1>24
<1>27. ASSUME NEW i \in 1 .. a, NEW j \in 1 .. a, i <= j PROVE alive[i].formTime <= alive[j].formTime
  <2>1. /\ g[i] \in 1 .. n + k /\ g[j] \in 1 .. n + k
        /\ alive[i] = all[g[i]] /\ alive[j] = all[g[j]]
        /\ (i < j => g[i] < g[j])
    BY <1>25, <1>26 DEF PickedBy
  <2>2. g[i] <= g[j]
    <3>1. CASE i = j  BY <2>1, <3>1
    <3>2. CASE i # j
      <4>1. i < j  BY <1>27, <3>2
      <4> QED BY <2>1, <4>1
    <3> QED BY <3>1, <3>2
  <2> QED BY <1>23, <2>1, <2>2
<1>28. alive \in Seq(ToSet(alive))
  <2>1. PICK S : S = ToSet(alive)  OBVIOUS
  <2>2. \A i \in 1 .. a : alive[i] \in S  BY <1>26, <2>1 DEF ToSet
  <2> QED BY <1>24, <1>26, <2>1, <2>2
<1>29. FieldListOk(alive, G, t)
  <2>1. \A s \in ToSet(alive) : s.deathTime = DeathOf(StarOf(s))  BY <1>12, <1>19
  <2> QED BY <1>21, <1>26, <1>27, <1>28, <2>1 DEF FieldListOk
<1>30. \A s \in ToSet(dead) : s.deathTime = DeathOf(StarOf(s))  BY <1>12, <1>20
<1> QED BY <1>2, <1>4, <1>5, <1>17, <1>22, <1>29, <1>30 DEF FieldAged

GalFields ==
  {"clusters", "disrupted", "fieldStars", "fieldProps", "spec", "specCurrent", "phot", "photCurrent",
   "lbol", "lbolCurrent", "lbolCts", "lbolCtsCurrent", "winds", "windsCurrent"}
IsGal(g) == DOMAIN g = GalFields /\ g = [f \in GalFields |-> g[f]]

SlotsAt(now) == SlotsBorn(0, now)
ClustersOf(g) == ToSet(g.clusters) \cup ToSet(g.disrupted)
MembersOf(S) == UNION {Members(c) : c \in S}
CensusIs(cens, S, now) == cens = MembersOf(S) \cup FieldOf(cens) \cup SlotsAt(now)

Base ==
  /\ TapeOk /\ sc \in Controls /\ curTime \in Nat /\ curTime <= MaxTime
  /\ rate \in Nat /\ rng \in Nat /\ nextUid \in Nat
PopInv ==
  /\ Base /\ IsGal(gal)
  /\ ListsOk(gal.clusters, gal.disrupted, curTime, nextUid)
  /\ CensusIs(census, ClustersOf(gal), curTime)
  /\ FieldCensusOk(FieldOf(census), curTime)
  /\ FieldListOk(gal.fieldStars, FieldOf(census), curTime)
  /\ gal.fieldProps = FieldStarProps(gal.fieldStars, curTime)

\* What a cluster's invariants say does not change unless the tape or the controls do.
LEMMA Unchanging ==
  ASSUME tape' = tape, sc' = sc
  PROVE  /\ \A c : ClusterCore(c)' <=> ClusterCore(c)
         /\ \A c : CachesKept(c)' <=> CachesKept(c)
         /\ \A c : Members(c)' = Members(c)
         /\ \A now : SlotsAt(now)' = SlotsAt(now)
<1>1. \A m, p : BirthDraws(m, p)' = BirthDraws(m, p)
  <2>1. \A m : StochMass(m)' = StochMass(m)  BY DEF StochMass, MassAbove
  <2>2. \A p, m, lo, hi : DrawTarget(p, m, lo, hi)' = DrawTarget(p, m, lo, hi)
    BY DEF DrawTarget, Overshoot, Draws, DrawAt
  <2>3. \A p, lo, hi : DrawAt(p, lo, hi)' = DrawAt(p, lo, hi)  BY DEF DrawAt
  <2> QED BY <2>1, <2>2, <2>3 DEF BirthDraws
<1>2. \A c : BirthMasses(c)' = BirthMasses(c)  BY <1>1 DEF BirthMasses
<1>3. ASSUME NEW c PROVE ClusterCore(c)' <=> ClusterCore(c)
  <2>1. BirthKept(c)' <=> BirthKept(c)  BY <1>1 DEF BirthKept
  <2>2. TimesKept(c)' <=> TimesKept(c)  BY DEF TimesKept
  <2>3. StarsKept(c)' <=> StarsKept(c)
    <3>1. StarSrcs(c)' = StarSrcs(c)  BY <1>2 DEF StarSrcs
    <3> QED BY <3>1 DEF StarsKept, DeathAt
  <2> QED BY <2>1, <2>2, <2>3 DEF ClusterCore
<1>4. ASSUME NEW c PROVE CachesKept(c)' <=> CachesKept(c)
  BY DEF CachesKept, ClusterSpecIs, LightOf, StarsShining, BinsShining
<1>5. ASSUME NEW c PROVE Members(c)' = Members(c)
  BY <1>2 DEF Members, StarSrcs, BinSrcs
<1>6. ASSUME NEW now PROVE SlotsAt(now)' = SlotsAt(now)
  BY DEF SlotsAt, SlotsBorn, HasContinuous
<1> QED BY <1>3, <1>4, <1>5, <1>6

\* The clusters of a galaxy, listed.
LEMMA ListedIs ==
  ASSUME NEW g, NEW now, NEW uid, ListsOk(g.clusters, g.disrupted, now, uid)
  PROVE  Distinct(Listed(g)) /\ ToSet(Listed(g)) = ClustersOf(g)
<1>1. PICK cs, ds : cs = g.clusters /\ ds = g.disrupted  OBVIOUS
<1>2. Distinct(cs) /\ Distinct(ds) /\ \A c \in ToSet(cs) : \A d \in ToSet(ds) : c.uid # d.uid
  BY <1>1 DEF ListsOk
<1>3. Distinct(cs \o ds) /\ ToSet(cs \o ds) = ToSet(cs) \cup ToSet(ds)  BY <1>2, JoinedClusters
<1> QED BY <1>1, <1>3 DEF Listed, ClustersOf

\* A new cluster's members are what is said to be born in it.
LEMMA BornIsMembers ==
  ASSUME NEW c, Fresh(c)
  PROVE  BornInCluster(c) = Members(c)
<1>1. {[src |-> s.src, born |-> c.formTime] : s \in ToSet(c.stars)}
        = {[src |-> x, born |-> c.formTime] : x \in {s.src : s \in ToSet(c.stars)}}
  OBVIOUS
<1>2. {s.src : s \in ToSet(c.stars)} = StarSrcs(c)  BY DEF Fresh
<1>3. {[src |-> <<"bin", c.uid, 0, m>>, born |-> c.formTime] :
            m \in IF c.hasBins THEN 1 .. sc.minStoch - 1 ELSE {}}
        = {[src |-> x, born |-> c.formTime] : x \in BinSrcs(c)}
  BY DEF BinSrcs
<1>4. BornInCluster(c) = {[src |-> x, born |-> c.formTime] : x \in StarSrcs(c)}
                           \cup {[src |-> x, born |-> c.formTime] : x \in BinSrcs(c)}
  BY <1>1, <1>2, <1>3 DEF BornInCluster
<1> QED BY <1>4 DEF Members

\* Nothing of a cluster is in the field, nor are the slots.
LEMMA KindsApart ==
  ASSUME TapeOk, sc \in Controls
  PROVE  /\ \A c : ClusterCore(c) =>
              \A x \in Members(c) : x.src[1] \in {"star", "bin"} /\ x.src[2] = c.uid
         /\ \A now : \A x \in SlotsAt(now) : x.src[1] = "slot"
<1>1. ASSUME NEW c, ClusterCore(c), NEW x \in Members(c) PROVE x.src[1] \in {"star", "bin"} /\ x.src[2] = c.uid
  <2>1. PICK y \in StarSrcs(c) \cup BinSrcs(c) : x = [src |-> y, born |-> c.formTime]
    BY DEF Members
  <2>2. x.src = y  BY <2>1
  <2>3. c.targetMass \in Nat /\ c.rngState \in Nat /\ c.formTime \in Nat
    BY <1>1 DEF ClusterCore, BirthKept
  <2>4. /\ \A z \in StarSrcs(c) : z[1] = "star" /\ z[2] = c.uid
        /\ \A z \in BinSrcs(c) : z[1] = "bin" /\ z[2] = c.uid
    BY <2>3, ClusterStars
  <2>5. y[1] \in {"star", "bin"} /\ y[2] = c.uid  BY <2>1, <2>4
  <2> QED BY <2>2, <2>5
<1>2. ASSUME NEW now, NEW x \in SlotsAt(now) PROVE x.src[1] = "slot"
  <2>1. PICK s, m : x = [src |-> <<"slot", s, 0, m>>, born |-> s]  BY DEF SlotsAt, SlotsBorn
  <2>2. x.src = <<"slot", s, 0, m>>  BY <2>1
  <2> QED BY <2>2
<1> QED BY <1>1, <1>2

\* The members of several clusters.
LEMMA MembersOfIs ==
  ASSUME NEW S, NEW x
  PROVE  x \in MembersOf(S) <=> \E c \in S : x \in Members(c)
BY DEF MembersOf

CensusAged(cens, S, new, t) ==
  CensusIs(cens, S, t) /\ FieldOf(cens) = FieldOf(census) \cup StarsOf(new)

\* What forms is what the census takes note of.
LEMMA CensusAdvance ==
  ASSUME NEW t, Ready(t), NEW S, CensusIs(census, S, curTime), \A c \in S : ClusterCore(c),
         NEW formed, FormedIs(formed, t),
         \A c \in S \cup ToSet(formed.clusters) : AdvancedTo(AdvanceCluster(c, t), c, t)
  PROVE  CensusAged(census \cup Born(t, formed),
                    {AdvanceCluster(c, t) : c \in S \cup ToSet(formed.clusters)}, formed.field, t)
<1>1. TapeOk /\ sc \in Controls /\ curTime \in Nat /\ t \in Nat /\ curTime <= t /\ nextUid \in Nat
  BY DEF Ready
<1>2. PICK fc : fc = ToSet(formed.clusters)  OBVIOUS
<1>3. \A c \in fc : ClusterCore(c) /\ Fresh(c)
  <2>1. PICK k \in Nat : ClustersBorn(formed.clusters, nextUid, k, t)  BY DEF FormedIs
  <2> QED BY <1>1, <1>2, <2>1, NewClusters
<1>4. BornInClusters(formed.clusters) = MembersOf(fc)
  BY <1>2, <1>3, BornIsMembers DEF BornInClusters, MembersOf
<1>5. BornInField(formed.field) = StarsOf(formed.field)  BY DEF BornInField, StarsOf, StarOf
<1>6. PICK slots : slots = SlotsBorn(curTime, t)  OBVIOUS
<1>7. SlotsAt(curTime) \cup slots = SlotsAt(t)
  <2>1. CASE HasContinuous
    <3>1. PICK M, A, B, C : M = 1 .. sc.minStoch - 1 /\ A = 0 + 1 .. curTime /\ B = curTime + 1 .. t /\ C = 0 + 1 .. t
      OBVIOUS
    <3>2. A \cup B = C  BY <1>1, <3>1
    <3>3. /\ SlotsAt(curTime) = {[src |-> <<"slot", s, 0, m>>, born |-> s] : s \in A, m \in M}
          /\ SlotsAt(t) = {[src |-> <<"slot", s, 0, m>>, born |-> s] : s \in C, m \in M}
          /\ slots = {[src |-> <<"slot", s, 0, m>>, born |-> s] : s \in B, m \in M}
      BY <1>6, <2>1, <3>1 DEF SlotsAt, SlotsBorn
    <3> QED BY <3>2, <3>3
  <2>2. CASE ~HasContinuous  BY <1>6, <2>2 DEF SlotsAt, SlotsBorn
  <2> QED BY <2>1, <2>2
<1>8. Born(t, formed) = MembersOf(fc) \cup StarsOf(formed.field) \cup slots
  BY <1>4, <1>5, <1>6 DEF Born
<1>9. PICK S2 : S2 = {AdvanceCluster(c, t) : c \in S \cup fc}  OBVIOUS
<1>10. \A c \in S \cup fc : Members(AdvanceCluster(c, t)) = Members(c)
  <2> TAKE c \in S \cup fc
  <2>1. PICK d : d = AdvanceCluster(c, t)  OBVIOUS
  <2>2. Static(d, c)  BY <1>2, <2>1 DEF AdvancedTo
  <2> QED BY <2>1, <2>2, StaticKeeps
<1>11. MembersOf(S2) = MembersOf(S) \cup MembersOf(fc)
  <2>1. ASSUME NEW x, x \in MembersOf(S2)
        PROVE  x \in MembersOf(S) \cup MembersOf(fc)
    <3>1. PICK d \in S2 : x \in Members(d)  BY <2>1, MembersOfIs
    <3>2. PICK c \in S \cup fc : d = AdvanceCluster(c, t)  BY <1>9
    <3>3. x \in Members(c)  BY <1>10, <3>1, <3>2
    <3> QED BY <3>2, <3>3, MembersOfIs
  <2>2. ASSUME NEW c \in S \cup fc, NEW x \in Members(c) PROVE x \in MembersOf(S2)
    <3>1. PICK d : d = AdvanceCluster(c, t)  OBVIOUS
    <3>2. d \in S2 /\ x \in Members(d)  BY <1>9, <1>10, <3>1
    <3> QED BY <3>2, MembersOfIs
  <2> QED BY <2>1, <2>2, MembersOfIs
<1>12. PICK cens : cens = census \cup Born(t, formed)  OBVIOUS
<1>13. cens = MembersOf(S2) \cup FieldOf(census) \cup StarsOf(formed.field) \cup SlotsAt(t)
  BY <1>7, <1>8, <1>11, <1>12 DEF CensusIs
<1>14. /\ \A x \in MembersOf(S2) : x.src[1] # "field"
       /\ \A x \in SlotsAt(t) : x.src[1] # "field"
  <2>1. \A c \in S2 : ClusterCore(c)  BY <1>2, <1>9 DEF AdvancedTo
  <2> QED BY <1>1, <2>1, KindsApart, MembersOfIs
<1>15. \A x \in StarsOf(formed.field) : x.src[1] = "field"
  <2>1. FieldSorted(formed.field, t)  BY DEF FormedIs
  <2> QED BY <1>1, <2>1, NewFieldStars
<1>16. FieldOf(cens) = FieldOf(census) \cup StarsOf(formed.field)
  BY <1>13, <1>14, <1>15 DEF FieldOf
<1> QED BY <1>2, <1>9, <1>12, <1>13, <1>16 DEF CensusAged, CensusIs

\* A cluster of which results have been asked.
Touched(d, c) == IsCluster(d) /\ Same(d, c) /\ (CachesKept(c) => CachesKept(d))
TouchedList(k, l) ==
  /\ k \in Seq(ToSet(k)) /\ Len(k) = Len(l)
  /\ \A i \in 1 .. Len(l) : Touched(k[i], l[i])
Clusters(l) == l \in Seq(ToSet(l)) /\ \A c \in ToSet(l) : IsCluster(c)

\* The places of a list.
LEMMA ListPlaces ==
  ASSUME NEW l, l \in Seq(ToSet(l))
  PROVE  \E n \in Nat : /\ n = Len(l) /\ DOMAIN l = 1 .. n /\ ToSet(l) = {l[i] : i \in 1 .. n}
                        /\ \A i \in 1 .. n : l[i] \in ToSet(l)
BY DEF ToSet

\* A function on the places of a list is a list of what it gives.
LEMMA ListFrom ==
  ASSUME NEW n \in Nat, NEW k, DOMAIN k = 1 .. n, k = [i \in 1 .. n |-> k[i]]
  PROVE  k \in Seq(ToSet(k)) /\ Len(k) = n
<1>1. PICK S : S = ToSet(k)  OBVIOUS
<1>2. \A i \in 1 .. n : k[i] \in S  BY <1>1 DEF ToSet
<1>3. k \in [1 .. n -> S]  BY <1>2
<1>4. k \in Seq(S) /\ Len(k) = n  BY <1>3
<1> QED BY <1>1, <1>4

\* Lists of which results have been asked hold the same clusters otherwise.
LEMMA TouchedKeeps ==
  ASSUME NEW l, Distinct(l), NEW k, TouchedList(k, l)
  PROVE  /\ Distinct(k)
         /\ \A d \in ToSet(k) : \E c \in ToSet(l) : Touched(d, c)
         /\ \A c \in ToSet(l) : \E d \in ToSet(k) : Touched(d, c)
<1>1. PICK n \in Nat : /\ n = Len(l) /\ DOMAIN l = 1 .. n /\ ToSet(l) = {l[i] : i \in 1 .. n}
                       /\ \A i \in 1 .. n : l[i] \in ToSet(l)
  BY ListPlaces DEF Distinct
<1>2. PICK m \in Nat : /\ m = Len(k) /\ DOMAIN k = 1 .. m /\ ToSet(k) = {k[i] : i \in 1 .. m}
                       /\ \A i \in 1 .. m : k[i] \in ToSet(k)
  BY ListPlaces DEF TouchedList
<1>3. m = n /\ \A i \in 1 .. n : Touched(k[i], l[i])  BY <1>1, <1>2 DEF TouchedList
<1>4. \A i \in 1 .. n : k[i].uid = l[i].uid  BY <1>3 DEF Touched, Same, Static
<1>5. ASSUME NEW i \in 1 .. n, NEW j \in 1 .. n, k[i].uid = k[j].uid PROVE i = j
  <2>1. l[i] = l[j]  BY <1>1, <1>4, <1>5, ZenonT(60) DEF Distinct
  <2> QED BY <1>1, <2>1 DEF Distinct, IsInjective
<1>6. IsInjective(k)  BY <1>2, <1>3, <1>5 DEF IsInjective
<1>7. ASSUME NEW c \in ToSet(k), NEW d \in ToSet(k), c.uid = d.uid PROVE c = d
  <2>1. PICK i \in 1 .. n : c = k[i]  BY <1>2, <1>3
  <2>2. PICK j \in 1 .. n : d = k[j]  BY <1>2, <1>3
  <2> QED BY <1>5, <1>7, <2>1, <2>2
<1>8. Distinct(k)  BY <1>6, <1>7 DEF Distinct, TouchedList
<1>9. ASSUME NEW d \in ToSet(k) PROVE \E c \in ToSet(l) : Touched(d, c)
  <2>1. PICK i \in 1 .. n : d = k[i]  BY <1>2, <1>3
  <2> QED BY <1>1, <1>3, <2>1
<1>10. ASSUME NEW c \in ToSet(l) PROVE \E d \in ToSet(k) : Touched(d, c)
  <2>1. PICK i \in 1 .. n : c = l[i]  BY <1>1
  <2> QED BY <1>2, <1>3, <2>1
<1> QED BY <1>8, <1>9, <1>10

\* Asking for results changes nothing else in the two lists of clusters.
LEMMA ListsTouched ==
  ASSUME NEW cs, NEW ds, NEW now, NEW uid, ListsOk(cs, ds, now, uid),
         NEW cs2, TouchedList(cs2, cs), NEW ds2, TouchedList(ds2, ds)
  PROVE  /\ ListsOk(cs2, ds2, now, uid)
         /\ MembersOf(ToSet(cs2) \cup ToSet(ds2)) = MembersOf(ToSet(cs) \cup ToSet(ds))
<1>1. Distinct(cs) /\ Distinct(ds)  BY DEF ListsOk
<1>2. /\ Distinct(cs2)
      /\ \A d \in ToSet(cs2) : \E c \in ToSet(cs) : Touched(d, c)
      /\ \A c \in ToSet(cs) : \E d \in ToSet(cs2) : Touched(d, c)
  BY <1>1, TouchedKeeps
<1>3. /\ Distinct(ds2)
      /\ \A d \in ToSet(ds2) : \E c \in ToSet(ds) : Touched(d, c)
      /\ \A c \in ToSet(ds) : \E d \in ToSet(ds2) : Touched(d, c)
  BY <1>1, TouchedKeeps
<1>4. ASSUME NEW c, ClusterOk(c, now, uid), NEW d, Touched(d, c)
      PROVE  ClusterOk(d, now, uid) /\ d.uid = c.uid /\ d.isDisrupted = c.isDisrupted
  <2>1. Same(d, c) /\ IsCluster(d) /\ CachesKept(d) /\ ClusterCore(c)
    BY <1>4 DEF ClusterOk, Touched
  <2>2. ClusterCore(d)  BY <2>1, SameKeeps
  <2>3. d.uid = c.uid /\ d.curTime = c.curTime /\ d.advanced = c.advanced /\ d.isDisrupted = c.isDisrupted
    BY <2>1 DEF Same, Static
  <2> QED BY <1>4, <2>1, <2>2, <2>3 DEF ClusterOk
<1>5. ASSUME NEW c, NEW d, Touched(d, c) PROVE Members(d) = Members(c)
  BY <1>5, SameKeeps DEF Touched
<1>6. ASSUME NEW d \in ToSet(cs2) PROVE ClusterOk(d, now, uid) /\ ~d.isDisrupted
  <2>1. PICK c \in ToSet(cs) : Touched(d, c)  BY <1>2
  <2>2. ClusterOk(c, now, uid) /\ ~c.isDisrupted  BY DEF ListsOk
  <2> QED BY <1>4, <2>1, <2>2
<1>7. ASSUME NEW d \in ToSet(ds2) PROVE ClusterOk(d, now, uid) /\ d.isDisrupted
  <2>1. PICK c \in ToSet(ds) : Touched(d, c)  BY <1>3
  <2>2. ClusterOk(c, now, uid) /\ c.isDisrupted  BY DEF ListsOk
  <2> QED BY <1>4, <2>1, <2>2
<1>8. ASSUME NEW c \in ToSet(cs2), NEW d \in ToSet(ds2) PROVE c.uid # d.uid
  <2>1. PICK x \in ToSet(cs) : Touched(c, x)  BY <1>2
  <2>2. PICK y \in ToSet(ds) : Touched(d, y)  BY <1>3
  <2>3. x.uid # y.uid  BY DEF ListsOk
  <2> QED BY <2>1, <2>2, <2>3 DEF Touched, Same, Static
<1>9. ListsOk(cs2, ds2, now, uid)  BY <1>2, <1>3, <1>6, <1>7, <1>8 DEF ListsOk
<1>10. PICK S, S2 : S = ToSet(cs) \cup ToSet(ds) /\ S2 = ToSet(cs2) \cup ToSet(ds2)  OBVIOUS
<1>11. ASSUME NEW x PROVE x \in MembersOf(S2) <=> x \in MembersOf(S)
  <2>1. ASSUME NEW d \in S2, x \in Members(d) PROVE x \in MembersOf(S)
    <3>1. PICK c \in S : Touched(d, c)  BY <1>2, <1>3, <1>10
    <3> QED BY <1>5, <2>1, <3>1, MembersOfIs
  <2>2. ASSUME NEW c \in S, x \in Members(c) PROVE x \in MembersOf(S2)
    <3>1. PICK d \in S2 : Touched(d, c)  BY <1>2, <1>3, <1>10
    <3> QED BY <1>5, <2>2, <3>1, MembersOfIs
  <2> QED BY <2>1, <2>2, MembersOfIs
<1> QED BY <1>9, <1>10, <1>11

\* What is asked of nobody is not touched.
LEMMA UntouchedList ==
  ASSUME NEW l, Clusters(l)
  PROVE  TouchedList(l, l)
<1>1. PICK n \in Nat : /\ n = Len(l) /\ \A i \in 1 .. n : l[i] \in ToSet(l)
  BY ListPlaces DEF Clusters
<1>2. \A c : IsCluster(c) => Touched(c, c)  BY DEF Touched, Same, Static
<1> QED BY <1>1, <1>2 DEF TouchedList, Clusters
\* One result after the other.
LEMMA TouchedTwice ==
  ASSUME NEW l, NEW k, TouchedList(k, l), NEW j, TouchedList(j, k)
  PROVE  TouchedList(j, l)
<1>1. \A b, c, d : Touched(d, c) /\ Touched(c, b) => Touched(d, b)  BY DEF Touched, Same, Static
<1> QED BY <1>1 DEF TouchedList

\* A spectrum, a luminosity or winds of every cluster.
LEMMA EachTouched ==
  ASSUME NEW l, Clusters(l)
  PROVE  /\ TouchedList(Each(WithSpec, l), l) /\ Clusters(Each(WithSpec, l))
         /\ TouchedList(Each(WithLbol, l), l) /\ Clusters(Each(WithLbol, l))
         /\ TouchedList(Each(WithWinds, l), l) /\ Clusters(Each(WithWinds, l))
<1>1. PICK n \in Nat : /\ n = Len(l) /\ DOMAIN l = 1 .. n /\ \A i \in 1 .. n : l[i] \in ToSet(l)
  BY ListPlaces DEF Clusters
<1>2. \A i \in 1 .. n : IsCluster(l[i])  BY <1>1 DEF Clusters
<1>3. ASSUME NEW k, DOMAIN k = 1 .. n, k = [i \in 1 .. n |-> k[i]], \A i \in 1 .. n : Touched(k[i], l[i])
      PROVE  TouchedList(k, l) /\ Clusters(k)
  <2>1. k \in Seq(ToSet(k)) /\ Len(k) = n  BY <1>3, ListFrom
  <2>2. \A c \in ToSet(k) : IsCluster(c)  BY <1>3 DEF ToSet, Touched
  <2> QED BY <1>1, <1>3, <2>1, <2>2 DEF TouchedList, Clusters
<1>4. TouchedList(Each(WithSpec, l), l) /\ Clusters(Each(WithSpec, l))
  <2>1. PICK k : k = [i \in 1 .. n |-> WithSpec(l[i])]  OBVIOUS
  <2>2. \A i \in 1 .. n : Touched(k[i], l[i])  BY <1>2, <2>1, WithSpecKeeps DEF Touched
  <2>3. Each(WithSpec, l) = k  BY <1>1, <2>1 DEF Each
  <2> QED BY <1>3, <2>1, <2>2, <2>3
<1>5. TouchedList(Each(WithLbol, l), l) /\ Clusters(Each(WithLbol, l))
  <2>1. PICK k : k = [i \in 1 .. n |-> WithLbol(l[i])]  OBVIOUS
  <2>2. \A i \in 1 .. n : Touched(k[i], l[i])  BY <1>2, <2>1, WithLbolKeeps DEF Touched
  <2>3. Each(WithLbol, l) = k  BY <1>1, <2>1 DEF Each
  <2> QED BY <1>3, <2>1, <2>2, <2>3
<1>6. TouchedList(Each(WithWinds, l), l) /\ Clusters(Each(WithWinds, l))
  <2>1. PICK k : k = [i \in 1 .. n |-> WithWinds(l[i])]  OBVIOUS
  <2>2. \A i \in 1 .. n : Touched(k[i], l[i])  BY <1>2, <2>1, WithWindsKeeps DEF Touched
  <2>3. Each(WithWinds, l) = k  BY <1>1, <2>1 DEF Each
  <2> QED BY <1>3, <2>1, <2>2, <2>3
<1> QED BY <1>4, <1>5, <1>6

GalOk(g) == IsGal(g) /\ Clusters(g.clusters) /\ Clusters(g.disrupted)
GalTouched(h, g) ==
  /\ GalOk(h)
  /\ TouchedList(h.clusters, g.clusters) /\ TouchedList(h.disrupted, g.disrupted)
  /\ h.fieldStars = g.fieldStars /\ h.fieldProps = g.fieldProps
\* Two galaxies with the same lists.
SameLists(h, g) ==
  /\ IsGal(h) /\ h.clusters = g.clusters /\ h.disrupted = g.disrupted
  /\ h.fieldStars = g.fieldStars /\ h.fieldProps = g.fieldProps

\* A galaxy with the lists of another has been asked nothing.
LEMMA GalUntouched ==
  ASSUME NEW g, GalOk(g), NEW h, SameLists(h, g)
  PROVE  GalTouched(h, g)
BY UntouchedList DEF GalOk, GalTouched, SameLists

\* Results asked of a galaxy twice.
LEMMA GalTouchedTwice ==
  ASSUME NEW g, NEW h, GalTouched(h, g), NEW k, GalTouched(k, h)
  PROVE  GalTouched(k, g)
BY TouchedTwice DEF GalTouched

\* Every cluster is asked.
LEMMA AllAsked ==
  ASSUME NEW g, GalOk(g)
  PROVE  /\ GalTouched([g EXCEPT !.clusters = Each(WithSpec, @), !.disrupted = Each(WithSpec, @)], g)
         /\ GalTouched([g EXCEPT !.clusters = Each(WithLbol, @), !.disrupted = Each(WithLbol, @)], g)
         /\ GalTouched([g EXCEPT !.clusters = Each(WithWinds, @), !.disrupted = Each(WithWinds, @)], g)
<1>1. PICK cs, ds : cs = g.clusters /\ ds = g.disrupted  OBVIOUS
<1>2. Clusters(cs) /\ Clusters(ds)  BY <1>1 DEF GalOk
<1>3. ASSUME NEW cs2, NEW ds2, TouchedList(cs2, cs), TouchedList(ds2, ds), Clusters(cs2), Clusters(ds2),
             NEW h, h = [g EXCEPT !.clusters = cs2, !.disrupted = ds2]
      PROVE  GalTouched(h, g)
  <2>1. IsGal(g)  BY DEF GalOk
  <2>2. /\ IsGal(h) /\ h.clusters = cs2 /\ h.disrupted = ds2
        /\ h.fieldStars = g.fieldStars /\ h.fieldProps = g.fieldProps
    BY <1>3, <2>1 DEF IsGal, GalFields
  <2> QED BY <1>1, <1>3, <2>2 DEF GalTouched, GalOk
<1>4. GalTouched([g EXCEPT !.clusters = Each(WithSpec, @), !.disrupted = Each(WithSpec, @)], g)
  <2>1. PICK cs2, ds2 : cs2 = Each(WithSpec, cs) /\ ds2 = Each(WithSpec, ds)  OBVIOUS
  <2>2. TouchedList(cs2, cs) /\ Clusters(cs2) /\ TouchedList(ds2, ds) /\ Clusters(ds2)
    BY <1>2, <2>1, EachTouched
  <2>3. [g EXCEPT !.clusters = Each(WithSpec, @), !.disrupted = Each(WithSpec, @)]
          = [g EXCEPT !.clusters = cs2, !.disrupted = ds2]
    BY <1>1, <2>1 DEF GalOk, IsGal, GalFields
  <2> QED BY <1>3, <2>2, <2>3
<1>5. GalTouched([g EXCEPT !.clusters = Each(WithLbol, @), !.disrupted = Each(WithLbol, @)], g)
  <2>1. PICK cs2, ds2 : cs2 = Each(WithLbol, cs) /\ ds2 = Each(WithLbol, ds)  OBVIOUS
  <2>2. TouchedList(cs2, cs) /\ Clusters(cs2) /\ TouchedList(ds2, ds) /\ Clusters(ds2)
    BY <1>2, <2>1, EachTouched
  <2>3. [g EXCEPT !.clusters = Each(WithLbol, @), !.disrupted = Each(WithLbol, @)]
          = [g EXCEPT !.clusters = cs2, !.disrupted = ds2]
    BY <1>1, <2>1 DEF GalOk, IsGal, GalFields
  <2> QED BY <1>3, <2>2, <2>3
<1>6. GalTouched([g EXCEPT !.clusters = Each(WithWinds, @), !.disrupted = Each(WithWinds, @)], g)
  <2>1. PICK cs2, ds2 : cs2 = Each(WithWinds, cs) /\ ds2 = Each(WithWinds, ds)  OBVIOUS
  <2>2. TouchedList(cs2, cs) /\ Clusters(cs2) /\ TouchedList(ds2, ds) /\ Clusters(ds2)
    BY <1>2, <2>1, EachTouched
  <2>3. [g EXCEPT !.clusters = Each(WithWinds, @), !.disrupted = Each(WithWinds, @)]
          = [g EXCEPT !.clusters = cs2, !.disrupted = ds2]
    BY <1>1, <2>1 DEF GalOk, IsGal, GalFields
  <2> QED BY <1>3, <2>2, <2>3
<1> QED BY <1>4, <1>5, <1>6

\* No stars make an empty bag.
LEMMA BagOfNothing == SetToBag({}) = EmptyBag
BY DEF EmptyBag

Parted(bags, sets, n) ==
  /\ Len(bags) = n
  /\ \A i \in 1 .. n : bags[i] = SetToBag(sets[i])
  /\ \A i, k \in 1 .. n : i < k => sets[i] \cap sets[k] = {}

\* The same, for a sequence of sets.
LEMMA SumOfParts ==
  ASSUME NEW n \in Nat, NEW bags, NEW sets, Parted(bags, sets, n)
  PROVE  SumOf(bags) = SetToBag(UNION {sets[i] : i \in 1 .. n})
<1>1. /\ Len(bags) = n
      /\ \A i \in 1 .. n : bags[i] = SetToBag(sets[i])
      /\ \A i, k \in 1 .. n : i < k => sets[i] \cap sets[k] = {}
  BY DEF Parted
<1> QED BY <1>1, SumOfSets

\* Bags that each hold a set of one cluster, nothing in common to two, add up to all.
LEMMA SumOverSets ==
  ASSUME NEW l, Distinct(l), NEW n, n = Len(l), NEW sets,
         \A c, d \in ToSet(l) : c.uid # d.uid => sets[c] \cap sets[d] = {},
         NEW bags, bags = [i \in 1 .. n |-> SetToBag(sets[l[i]])]
  PROVE  SumOf(bags) = SetToBag(UNION {sets[c] : c \in ToSet(l)})
<1>1. PICK m \in Nat : /\ m = Len(l) /\ DOMAIN l = 1 .. m /\ ToSet(l) = {l[i] : i \in 1 .. m}
                       /\ \A i \in 1 .. m : l[i] \in ToSet(l)
  BY ListPlaces DEF Distinct
<1>2. n = m  BY <1>1
<1>3. PICK parts : parts = [i \in 1 .. m |-> sets[l[i]]]  OBVIOUS
<1>4. DOMAIN bags = 1 .. m /\ \A i \in 1 .. m : bags[i] = SetToBag(parts[i])  BY <1>2, <1>3
<1>5. Len(bags) = m
  <2>1. bags = [i \in 1 .. m |-> bags[i]]  BY <1>2
  <2> QED BY <1>4, <2>1, ListFrom
<1>6. ASSUME NEW i \in 1 .. m, NEW k \in 1 .. m, i < k PROVE parts[i] \cap parts[k] = {}
  <2>0. i # k  BY <1>6
  <2>1. l[i] # l[k]
    <3>1. \A a, b \in DOMAIN l : l[a] = l[b] => a = b  BY DEF Distinct, IsInjective
    <3> QED BY <1>1, <2>0, <3>1
  <2>2. l[i].uid # l[k].uid  BY <1>1, <2>1 DEF Distinct
  <2>3. parts[i] = sets[l[i]] /\ parts[k] = sets[l[k]]  BY <1>3
  <2> QED BY <1>1, <2>2, <2>3
<1>7. SumOf(bags) = SetToBag(UNION {parts[i] : i \in 1 .. m})
  <2>1. \A i \in 1 .. m : bags[i] = SetToBag(parts[i])  BY <1>4
  <2>2. \A i, k \in 1 .. m : i < k => parts[i] \cap parts[k] = {}  BY <1>6
  <2>3. Len(bags) = m  BY <1>5
  <2>4. Parted(bags, parts, m)  BY <2>1, <2>2, <2>3 DEF Parted
  <2> QED BY <2>4, SumOfParts
<1>8. {parts[i] : i \in 1 .. m} = {sets[c] : c \in ToSet(l)}
  <2>1. \A i \in 1 .. m : parts[i] = sets[l[i]]  BY <1>3
  <2>2. \A c \in ToSet(l) : \E i \in 1 .. m : c = l[i]  BY <1>1
  <2>3. ASSUME NEW S \in {parts[i] : i \in 1 .. m} PROVE S \in {sets[c] : c \in ToSet(l)}
    BY <1>1, <2>1
  <2>4. ASSUME NEW S \in {sets[c] : c \in ToSet(l)} PROVE S \in {parts[i] : i \in 1 .. m}
    BY <2>1, <2>2
  <2> QED BY <2>3, <2>4
<1> QED BY <1>7, <1>8

\* Bags that each hold the light of one cluster add up to all.
LEMMA SumOverList ==
  ASSUME NEW l, Distinct(l), NEW n, n = Len(l), NEW sets,
         \A c \in ToSet(l) : \A x \in sets[c] : x[1][2] = c.uid,
         NEW bags, bags = [i \in 1 .. n |-> SetToBag(sets[l[i]])]
  PROVE  SumOf(bags) = SetToBag(UNION {sets[c] : c \in ToSet(l)})
<1>1. \A c, d \in ToSet(l) : c.uid # d.uid => sets[c] \cap sets[d] = {}  OBVIOUS
<1> QED BY <1>1, SumOverSets

\* The light of the clusters, and that of the field.
LightIn(S) == UNION {LightOf(c) : c \in S}
ExtinctIn(S) == UNION {Extinguished(LightOf(c), c.aV) : c \in S}
NebExtinctIn(S) == UNION {Extinguished(LightOf(c), c.avNeb) : c \in S}
FieldLit(g) ==
  {<<g.fieldStars[j].src, g.fieldProps[j]>> : j \in {i \in DOMAIN g.fieldStars : g.fieldProps[i] # NoProps}}
SlotLit(t) ==
  IF ~HasContinuous THEN {}
  ELSE UNION {{<< <<"slot", s, 0, m>>, t - s>> : m \in LiveMasses(t - s) \cap 1 .. sc.minStoch - 1} : s \in 1 .. t}
Rest(g) == FieldLit(g) \cup SlotLit(curTime)
AllLit(g) == LightIn(ClustersOf(g)) \cup Rest(g)
ExtinctLit(g) == ExtinctIn(ClustersOf(g)) \cup Extinguished(Rest(g), 0)
NebExtinctLit(g) == NebExtinctIn(ClustersOf(g)) \cup Extinguished(Rest(g), 0)

\* The light of a cluster is that of its stars and bins.
LEMMA LightIsOfCluster ==
  ASSUME TapeOk, sc \in Controls, NEW c, ClusterCore(c)
  PROVE  \A y \in LightOf(c) : y = <<y[1], y[2]>> /\ y[1][1] \in {"star", "bin"} /\ y[1][2] = c.uid
<1> TAKE y \in LightOf(c)
<1>1. PICK src \in StarsShining(c) \cup BinsShining(c) : y = <<src, c.isoAge>>  BY DEF LightOf
<1>2. src[1] \in {"star", "bin"} /\ src[2] = c.uid
  <2>1. CASE src \in StarsShining(c)
    <3>1. src \in StarSrcs(c)
      <4>1. PICK s \in ToSet(c.stars) : src = s.src  BY <2>1 DEF StarsShining
      <4>2. {r.src : r \in ToSet(c.stars)} \subseteq StarSrcs(c)  BY DEF ClusterCore, StarsKept
      <4> QED BY <4>1, <4>2
    <3>2. c.targetMass \in Nat /\ c.rngState \in Nat /\ c.formTime \in Nat
      BY DEF ClusterCore, BirthKept
    <3> QED BY <3>1, <3>2, ClusterStars
  <2>2. CASE src \in BinsShining(c)
    <3>1. PICK m : src = <<"bin", c.uid, 0, m>>  BY <2>2 DEF BinsShining
    <3> QED BY <3>1
  <2> QED BY <1>1, <2>1, <2>2
<1>3. y[1] = src /\ y[2] = c.isoAge  BY <1>1
<1> QED BY <1>1, <1>2, <1>3

\* What the field and the slots give is theirs.
LEMMA RestIsNotCluster ==
  ASSUME NEW g, \A i \in DOMAIN g.fieldStars : g.fieldStars[i].src[1] = "field"
  PROVE  /\ \A y \in FieldLit(g) : y = <<y[1], y[2]>> /\ y[1][1] = "field"
         /\ \A t : \A y \in SlotLit(t) : y = <<y[1], y[2]>> /\ y[1][1] = "slot"
<1>1. ASSUME NEW y \in FieldLit(g) PROVE y = <<y[1], y[2]>> /\ y[1][1] = "field"
  <2>1. PICK j \in DOMAIN g.fieldStars : y = <<g.fieldStars[j].src, g.fieldProps[j]>>
    BY DEF FieldLit
  <2> QED BY <2>1
<1>2. ASSUME NEW t, NEW y \in SlotLit(t) PROVE y = <<y[1], y[2]>> /\ y[1][1] = "slot"
  <2>1. PICK s, m : y = << <<"slot", s, 0, m>>, t - s>>  BY DEF SlotLit
  <2>2. y[1] = <<"slot", s, 0, m>> /\ y[2] = t - s  BY <2>1
  <2> QED BY <2>1, <2>2
<1> QED BY <1>1, <1>2

\* The light that is summed does not depend on what has been asked for.
LEMMA LightTouched ==
  ASSUME NEW g, NEW h, GalTouched(h, g), Distinct(g.clusters), Distinct(g.disrupted)
  PROVE  /\ AllLit(h) = AllLit(g) /\ ExtinctLit(h) = ExtinctLit(g) /\ NebExtinctLit(h) = NebExtinctLit(g)
         /\ Rest(h) = Rest(g) /\ FieldLit(h) = FieldLit(g)
<1>1. FieldLit(h) = FieldLit(g) /\ Rest(h) = Rest(g)  BY DEF FieldLit, Rest, GalTouched
<1>2. \A c, d : Touched(d, c) => LightOf(d) = LightOf(c) /\ d.aV = c.aV /\ d.avNeb = c.avNeb
  BY SameKeeps DEF Touched, Same, Static
<1>3. PICK S, U : S = ClustersOf(g) /\ U = ClustersOf(h)  OBVIOUS
<1>4. (\A d \in U : \E c \in S : Touched(d, c)) /\ (\A c \in S : \E d \in U : Touched(d, c))
  <2>1. /\ \A d \in ToSet(h.clusters) : \E c \in ToSet(g.clusters) : Touched(d, c)
        /\ \A c \in ToSet(g.clusters) : \E d \in ToSet(h.clusters) : Touched(d, c)
    BY TouchedKeeps DEF GalTouched
  <2>2. /\ \A d \in ToSet(h.disrupted) : \E c \in ToSet(g.disrupted) : Touched(d, c)
        /\ \A c \in ToSet(g.disrupted) : \E d \in ToSet(h.disrupted) : Touched(d, c)
    BY TouchedKeeps DEF GalTouched
  <2> QED BY <1>3, <2>1, <2>2 DEF ClustersOf
<1>5. {LightOf(c) : c \in U} = {LightOf(c) : c \in S}  BY <1>2, <1>4
<1>6. {Extinguished(LightOf(c), c.aV) : c \in U} = {Extinguished(LightOf(c), c.aV) : c \in S}
  BY <1>2, <1>4
<1>7. {Extinguished(LightOf(c), c.avNeb) : c \in U} = {Extinguished(LightOf(c), c.avNeb) : c \in S}
  BY <1>2, <1>4
<1> QED
  BY <1>1, <1>3, <1>5, <1>6, <1>7 DEF AllLit, ExtinctLit, NebExtinctLit, LightIn, ExtinctIn, NebExtinctIn

\* The clusters of a list are summed over one by one.
LEMMA SumsOverClusters ==
  ASSUME NEW g, NEW l, l = Listed(g)
  PROVE  /\ SumOverClusters(LAMBDA c : c.spec.plain, g) = SumOf([i \in DOMAIN l |-> SetToBag(l[i].spec.plain)])
         /\ SumOverClusters(LAMBDA c : c.spec.extinct, g) = SumOf([i \in DOMAIN l |-> SetToBag(l[i].spec.extinct)])
         /\ SumOverClusters(LAMBDA c : c.spec.neb, g) = SumOf([i \in DOMAIN l |-> SetToBag(l[i].spec.neb)])
         /\ SumOverClusters(LAMBDA c : c.spec.nebExtinct, g)
              = SumOf([i \in DOMAIN l |-> SetToBag(l[i].spec.nebExtinct)])
         /\ SumOverClusters(LAMBDA c : c.lbol, g) = SumOf([i \in DOMAIN l |-> SetToBag(l[i].lbol)])
         /\ SumOverClusters(LAMBDA c : c.winds, g) = SumOf([i \in DOMAIN l |-> SetToBag(l[i].winds)])
BY DEF SumOverClusters, Each

\* The light of the clusters of a list adds up to that of all of them.
LEMMA LightSums ==
  ASSUME TapeOk, sc \in Controls, NEW l, Distinct(l), \A c \in ToSet(l) : ClusterCore(c)
  PROVE  /\ SumOf([i \in DOMAIN l |-> SetToBag(LightOf(l[i]))]) = SetToBag(LightIn(ToSet(l)))
         /\ SumOf([i \in DOMAIN l |-> SetToBag(Extinguished(LightOf(l[i]), l[i].aV))])
              = SetToBag(ExtinctIn(ToSet(l)))
         /\ SumOf([i \in DOMAIN l |-> SetToBag(Extinguished(LightOf(l[i]), l[i].avNeb))])
              = SetToBag(NebExtinctIn(ToSet(l)))
<1>1. PICK n \in Nat : n = Len(l) /\ DOMAIN l = 1 .. n /\ \A i \in 1 .. n : l[i] \in ToSet(l)
  BY ListPlaces DEF Distinct
<1>2. \A c \in ToSet(l) : \A y \in LightOf(c) : y[1][2] = c.uid  BY LightIsOfCluster
<1>3. SumOf([i \in DOMAIN l |-> SetToBag(LightOf(l[i]))]) = SetToBag(LightIn(ToSet(l)))
  <2>1. PICK sets : sets = [c \in ToSet(l) |-> LightOf(c)]  OBVIOUS
  <2>2. PICK bags : bags = [i \in 1 .. n |-> SetToBag(sets[l[i]])]  OBVIOUS
  <2>3. \A c \in ToSet(l) : sets[c] = LightOf(c)  BY <2>1
  <2>4. \A c \in ToSet(l) : \A x \in sets[c] : x[1][2] = c.uid  BY <1>2, <2>3
  <2>5. SumOf(bags) = SetToBag(UNION {sets[c] : c \in ToSet(l)})  BY <1>1, <2>2, <2>4, SumOverList
  <2>6. bags = [i \in DOMAIN l |-> SetToBag(LightOf(l[i]))]  BY <1>1, <2>2, <2>3
  <2>7. {sets[c] : c \in ToSet(l)} = {LightOf(c) : c \in ToSet(l)}  BY <2>3
  <2> QED BY <2>5, <2>6, <2>7 DEF LightIn
<1>5. SumOf([i \in DOMAIN l |-> SetToBag(Extinguished(LightOf(l[i]), l[i].aV))]) = SetToBag(ExtinctIn(ToSet(l)))
  <2>1. PICK sets : sets = [c \in ToSet(l) |-> Extinguished(LightOf(c), c.aV)]  OBVIOUS
  <2>2. PICK bags : bags = [i \in 1 .. n |-> SetToBag(sets[l[i]])]  OBVIOUS
  <2>3. \A c \in ToSet(l) : sets[c] = Extinguished(LightOf(c), c.aV)  BY <2>1
  <2>4. \A c \in ToSet(l) : \A x \in sets[c] : x[1][2] = c.uid  BY <1>2, <2>3 DEF Extinguished
  <2>5. SumOf(bags) = SetToBag(UNION {sets[c] : c \in ToSet(l)})  BY <1>1, <2>2, <2>4, SumOverList
  <2>6. bags = [i \in DOMAIN l |-> SetToBag(Extinguished(LightOf(l[i]), l[i].aV))]
    BY <1>1, <2>2, <2>3
  <2>7. {sets[c] : c \in ToSet(l)} = {Extinguished(LightOf(c), c.aV) : c \in ToSet(l)}  BY <2>3
  <2> QED BY <2>5, <2>6, <2>7 DEF ExtinctIn
<1>6. SumOf([i \in DOMAIN l |-> SetToBag(Extinguished(LightOf(l[i]), l[i].avNeb))]) = SetToBag(NebExtinctIn(ToSet(l)))
  <2>1. PICK sets : sets = [c \in ToSet(l) |-> Extinguished(LightOf(c), c.avNeb)]  OBVIOUS
  <2>2. PICK bags : bags = [i \in 1 .. n |-> SetToBag(sets[l[i]])]  OBVIOUS
  <2>3. \A c \in ToSet(l) : sets[c] = Extinguished(LightOf(c), c.avNeb)  BY <2>1
  <2>4. \A c \in ToSet(l) : \A x \in sets[c] : x[1][2] = c.uid  BY <1>2, <2>3 DEF Extinguished
  <2>5. SumOf(bags) = SetToBag(UNION {sets[c] : c \in ToSet(l)})  BY <1>1, <2>2, <2>4, SumOverList
  <2>6. bags = [i \in DOMAIN l |-> SetToBag(Extinguished(LightOf(l[i]), l[i].avNeb))]
    BY <1>1, <2>2, <2>3
  <2>7. {sets[c] : c \in ToSet(l)} = {Extinguished(LightOf(c), c.avNeb) : c \in ToSet(l)}  BY <2>3
  <2> QED BY <2>5, <2>6, <2>7 DEF NebExtinctIn
<1> QED BY <1>3, <1>5, <1>6

\* What is said of the light a galaxy has summed.
GalSpecIs(g, spec) ==
  /\ spec.plain = SetToBag(AllLit(g))
  /\ sc.nebular => spec.neb = SetToBag(AllLit(g))
  /\ sc.extinct => spec.extinct = SetToBag(ExtinctLit(g))
  /\ sc.extinct /\ sc.nebular => spec.nebExtinct = SetToBag(NebExtinctLit(g))
CtsKept(g) == g.lbolCtsCurrent => g.lbolCts = SetToBag(SlotLit(curTime))
GalSums(g) ==
  /\ g.specCurrent /\ sc.specsyn => GalSpecIs(g, g.spec)
  /\ g.photCurrent /\ sc.filters => GalSpecIs(g, g.phot)
  /\ g.lbolCurrent /\ sc.computeLbol => g.lbol = SetToBag(AllLit(g))
  /\ CtsKept(g)
  /\ g.windsCurrent => g.winds = SetToBag(AllLit(g))
\* A galaxy's clusters at one time, and its field.
GalPop(g) ==
  /\ TapeOk /\ sc \in Controls /\ IsGal(g)
  /\ \E now, uid : ListsOk(g.clusters, g.disrupted, now, uid)
  /\ \A i \in DOMAIN g.fieldStars : g.fieldStars[i].src[1] = "field"
  /\ sc.fCluster = 2 => Rest(g) = {}

\* The clusters of a galaxy whose results are summed.
LEMMA SumsOfGalaxy ==
  ASSUME NEW g, GalPop(g)
  PROVE  /\ (\A c \in ClustersOf(g) : ClusterSpecIs(c, c.spec)) =>
              /\ SumOverClusters(LAMBDA c : c.spec.plain, g) = SetToBag(LightIn(ClustersOf(g)))
              /\ sc.nebular => SumOverClusters(LAMBDA c : c.spec.neb, g) = SetToBag(LightIn(ClustersOf(g)))
              /\ sc.extinct => SumOverClusters(LAMBDA c : c.spec.extinct, g) = SetToBag(ExtinctIn(ClustersOf(g)))
              /\ sc.extinct /\ sc.nebular =>
                   SumOverClusters(LAMBDA c : c.spec.nebExtinct, g) = SetToBag(NebExtinctIn(ClustersOf(g)))
         /\ (\A c \in ClustersOf(g) : c.lbol = LightOf(c)) =>
              SumOverClusters(LAMBDA c : c.lbol, g) = SetToBag(LightIn(ClustersOf(g)))
         /\ (\A c \in ClustersOf(g) : c.winds = LightOf(c)) =>
              SumOverClusters(LAMBDA c : c.winds, g) = SetToBag(LightIn(ClustersOf(g)))
<1>1. PICK l, now, uid : l = Listed(g) /\ ListsOk(g.clusters, g.disrupted, now, uid)  BY DEF GalPop
<1>2. Distinct(l) /\ ToSet(l) = ClustersOf(g)  BY <1>1, ListedIs
<1>3. \A c \in ToSet(l) : ClusterCore(c)  BY <1>1, <1>2 DEF ListsOk, ClusterOk, ClustersOf
<1>4. \A i \in DOMAIN l : l[i] \in ToSet(l)  BY <1>2, ListPlaces DEF Distinct
<1>5. TapeOk /\ sc \in Controls  BY DEF GalPop
<1>6. ASSUME \A c \in ToSet(l) : ClusterSpecIs(c, c.spec)
      PROVE  /\ SumOf([i \in DOMAIN l |-> SetToBag(l[i].spec.plain)]) = SetToBag(LightIn(ToSet(l)))
             /\ sc.nebular => SumOf([i \in DOMAIN l |-> SetToBag(l[i].spec.neb)]) = SetToBag(LightIn(ToSet(l)))
             /\ sc.extinct => SumOf([i \in DOMAIN l |-> SetToBag(l[i].spec.extinct)]) = SetToBag(ExtinctIn(ToSet(l)))
             /\ sc.extinct /\ sc.nebular =>
                  SumOf([i \in DOMAIN l |-> SetToBag(l[i].spec.nebExtinct)]) = SetToBag(NebExtinctIn(ToSet(l)))
  <2>1. \A i \in DOMAIN l : ClusterSpecIs(l[i], l[i].spec)  BY <1>4, <1>6
  <2>2. [i \in DOMAIN l |-> SetToBag(l[i].spec.plain)] = [i \in DOMAIN l |-> SetToBag(LightOf(l[i]))]
    BY <2>1 DEF ClusterSpecIs
  <2>3. sc.nebular => [i \in DOMAIN l |-> SetToBag(l[i].spec.neb)] = [i \in DOMAIN l |-> SetToBag(LightOf(l[i]))]
    BY <2>1 DEF ClusterSpecIs
  <2>4. sc.extinct => [i \in DOMAIN l |-> SetToBag(l[i].spec.extinct)]
                        = [i \in DOMAIN l |-> SetToBag(Extinguished(LightOf(l[i]), l[i].aV))]
    BY <2>1 DEF ClusterSpecIs
  <2>5. sc.extinct /\ sc.nebular => [i \in DOMAIN l |-> SetToBag(l[i].spec.nebExtinct)]
                        = [i \in DOMAIN l |-> SetToBag(Extinguished(LightOf(l[i]), l[i].avNeb))]
    BY <2>1 DEF ClusterSpecIs
  <2> QED BY <1>2, <1>3, <1>5, <2>2, <2>3, <2>4, <2>5, LightSums
<1>7. ASSUME \A c \in ToSet(l) : c.lbol = LightOf(c)
      PROVE  SumOf([i \in DOMAIN l |-> SetToBag(l[i].lbol)]) = SetToBag(LightIn(ToSet(l)))
  <2>1. [i \in DOMAIN l |-> SetToBag(l[i].lbol)] = [i \in DOMAIN l |-> SetToBag(LightOf(l[i]))]
    BY <1>4, <1>7
  <2> QED BY <1>2, <1>3, <1>5, <2>1, LightSums
<1>8. ASSUME \A c \in ToSet(l) : c.winds = LightOf(c)
      PROVE  SumOf([i \in DOMAIN l |-> SetToBag(l[i].winds)]) = SetToBag(LightIn(ToSet(l)))
  <2>1. [i \in DOMAIN l |-> SetToBag(l[i].winds)] = [i \in DOMAIN l |-> SetToBag(LightOf(l[i]))]
    BY <1>4, <1>8
  <2> QED BY <1>2, <1>3, <1>5, <2>1, LightSums
<1> QED BY <1>1, <1>2, <1>6, <1>7, <1>8, SumsOverClusters, SMTT(30)

\* A galaxy of which results have been asked has the same stars.
LEMMA GalPopTouched ==
  ASSUME NEW g, GalPop(g), NEW h, GalTouched(h, g)
  PROVE  /\ GalPop(h)
         /\ AllLit(h) = AllLit(g) /\ ExtinctLit(h) = ExtinctLit(g) /\ NebExtinctLit(h) = NebExtinctLit(g)
         /\ Rest(h) = Rest(g) /\ FieldLit(h) = FieldLit(g)
<1>1. PICK now, uid : ListsOk(g.clusters, g.disrupted, now, uid)  BY DEF GalPop
<1>2. Distinct(g.clusters) /\ Distinct(g.disrupted)  BY <1>1 DEF ListsOk
<1>3. /\ AllLit(h) = AllLit(g) /\ ExtinctLit(h) = ExtinctLit(g) /\ NebExtinctLit(h) = NebExtinctLit(g)
      /\ Rest(h) = Rest(g) /\ FieldLit(h) = FieldLit(g)
  BY <1>2, LightTouched
<1>4. ListsOk(h.clusters, h.disrupted, now, uid)  BY <1>1, ListsTouched DEF GalTouched
<1>5. IsGal(h) /\ h.fieldStars = g.fieldStars  BY DEF GalTouched, GalOk
<1> QED BY <1>3, <1>4, <1>5 DEF GalPop

\* The clusters of a galaxy are clusters.
LEMMA GalPopOk ==
  ASSUME NEW g, GalPop(g)
  PROVE  GalOk(g)
BY DEF GalPop, GalOk, ListsOk, Clusters, Distinct, ClusterOk, ClusterCore, BirthKept

\* The light of the field, and what it adds up to with that of the clusters.
LEMMA RestSums ==
  ASSUME NEW g, GalPop(g)
  PROVE  /\ IntegrateCts(curTime) = SetToBag(SlotLit(curTime)) /\ FieldLight(g) = SetToBag(FieldLit(g))
         /\ IntegrateCts(curTime) (+) FieldLight(g) = SetToBag(Rest(g))
         /\ SetToBag(LightIn(ClustersOf(g))) (+) SetToBag(Rest(g)) = SetToBag(AllLit(g))
         /\ Expected(SetToBag(Rest(g))) = SetToBag(Extinguished(Rest(g), 0))
         /\ SetToBag(ExtinctIn(ClustersOf(g))) (+) SetToBag(Extinguished(Rest(g), 0)) = SetToBag(ExtinctLit(g))
         /\ SetToBag(NebExtinctIn(ClustersOf(g))) (+) SetToBag(Extinguished(Rest(g), 0))
              = SetToBag(NebExtinctLit(g))
         /\ SetToBag(LightIn(ClustersOf(g))) (+) SetToBag(SlotLit(curTime)) (+) SetToBag(FieldLit(g))
              = SetToBag(AllLit(g))
         /\ SetToBag(LightIn(ClustersOf(g))) (+) SetToBag(FieldLit(g)) (+) SetToBag(SlotLit(curTime))
              = SetToBag(AllLit(g))
<1>1. /\ \A y \in FieldLit(g) : y = <<y[1], y[2]>> /\ y[1][1] = "field"
      /\ \A y \in SlotLit(curTime) : y = <<y[1], y[2]>> /\ y[1][1] = "slot"
  BY RestIsNotCluster DEF GalPop
<1>2. \A c \in ClustersOf(g) : \A y \in LightOf(c) : y = <<y[1], y[2]>> /\ y[1][1] \in {"star", "bin"}
  BY LightIsOfCluster DEF GalPop, ListsOk, ClusterOk, ClustersOf
<1>3. PICK A, F, S : A = LightIn(ClustersOf(g)) /\ F = FieldLit(g) /\ S = SlotLit(curTime)  OBVIOUS
<1>4. \A y \in A : y[1][1] \in {"star", "bin"}  BY <1>2, <1>3 DEF LightIn
<1>5. A \cap F = {} /\ A \cap S = {} /\ F \cap S = {}  BY <1>1, <1>3, <1>4
<1>6. IntegrateCts(curTime) = SetToBag(S)  BY <1>3, BagOfNothing DEF IntegrateCts, SlotLit
<1>7. FieldLight(g) = SetToBag(F)  BY <1>3 DEF FieldLight, FieldLit
<1>8. Rest(g) = F \cup S /\ AllLit(g) = A \cup F \cup S  BY <1>3 DEF Rest, AllLit
<1>9. SetToBag(S) (+) SetToBag(F) = SetToBag(Rest(g))
  <2>1. SetToBag(S) (+) SetToBag(F) = SetToBag(S \cup F)  BY <1>5, BagsOfSets
  <2>2. S \cup F = Rest(g)  BY <1>8
  <2> QED BY <2>1, <2>2
<1>10. SetToBag(A) (+) SetToBag(Rest(g)) = SetToBag(AllLit(g))
  <2>1. A \cap Rest(g) = {} /\ A \cup Rest(g) = AllLit(g)  BY <1>5, <1>8
  <2> QED BY <2>1, BagsOfSets
<1>11. SetToBag(A) (+) SetToBag(S) (+) SetToBag(F) = SetToBag(AllLit(g))
  <2>1. SetToBag(A) (+) SetToBag(S) = SetToBag(A \cup S)  BY <1>5, BagsOfSets
  <2>2. (A \cup S) \cap F = {} /\ (A \cup S) \cup F = AllLit(g)  BY <1>5, <1>8
  <2>3. SetToBag(A \cup S) (+) SetToBag(F) = SetToBag(AllLit(g))  BY <2>2, BagsOfSets
  <2> QED BY <2>1, <2>3
<1>12. SetToBag(A) (+) SetToBag(F) (+) SetToBag(S) = SetToBag(AllLit(g))
  <2>1. SetToBag(A) (+) SetToBag(F) = SetToBag(A \cup F)  BY <1>5, BagsOfSets
  <2>2. (A \cup F) \cap S = {} /\ (A \cup F) \cup S = AllLit(g)  BY <1>5, <1>8
  <2>3. SetToBag(A \cup F) (+) SetToBag(S) = SetToBag(AllLit(g))  BY <2>2, BagsOfSets
  <2> QED BY <2>1, <2>3
<1>13. PICK R, E : R = Rest(g) /\ E = Extinguished(R, 0)  OBVIOUS
<1>14. \A y \in R : y = <<y[1], y[2]>> /\ y[1][1] \in {"field", "slot"}  BY <1>1, <1>3, <1>8, <1>13
<1>15. Expected(SetToBag(R)) = SetToBag(E)
  <2>1. BagToSet(SetToBag(R)) = R /\ \A y \in R : SetToBag(R)[y] = 1  BY DEF BagToSet, SetToBag
  <2>2. Expected(SetToBag(R)) = [x \in {<<y[1], y[2], 0>> : y \in R} |-> SetToBag(R)[<<x[1], x[2]>>]]
    BY <2>1 DEF Expected
  <2>3. {<<y[1], y[2], 0>> : y \in R} = E  BY <1>13 DEF Extinguished
  <2>4. \A x \in E : <<x[1], x[2]>> \in R  BY <1>13, <1>14 DEF Extinguished
  <2>5. [x \in E |-> SetToBag(R)[<<x[1], x[2]>>]] = [x \in E |-> 1]  BY <2>1, <2>4
  <2> QED BY <2>2, <2>3, <2>5 DEF SetToBag
<1>16. \A x \in E : x[1][1] \in {"field", "slot"}  BY <1>13, <1>14 DEF Extinguished
<1>17. \A x \in ExtinctIn(ClustersOf(g)) : x[1][1] \in {"star", "bin"}
  BY <1>2 DEF ExtinctIn, Extinguished
<1>18. \A x \in NebExtinctIn(ClustersOf(g)) : x[1][1] \in {"star", "bin"}
  BY <1>2 DEF NebExtinctIn, Extinguished
<1>19. SetToBag(ExtinctIn(ClustersOf(g))) (+) SetToBag(E) = SetToBag(ExtinctLit(g))
  <2>1. ExtinctIn(ClustersOf(g)) \cap E = {}  BY <1>16, <1>17
  <2>2. ExtinctIn(ClustersOf(g)) \cup E = ExtinctLit(g)  BY <1>13 DEF ExtinctLit
  <2> QED BY <2>1, <2>2, BagsOfSets
<1>20. SetToBag(NebExtinctIn(ClustersOf(g))) (+) SetToBag(E) = SetToBag(NebExtinctLit(g))
  <2>1. NebExtinctIn(ClustersOf(g)) \cap E = {}  BY <1>16, <1>18
  <2>2. NebExtinctIn(ClustersOf(g)) \cup E = NebExtinctLit(g)  BY <1>13 DEF NebExtinctLit
  <2> QED BY <2>1, <2>2, BagsOfSets
<1> QED BY <1>3, <1>6, <1>7, <1>9, <1>10, <1>11, <1>12, <1>13, <1>15, <1>19, <1>20

\* What is left alone when spectra are computed.
SameResults(h, g) ==
  /\ h.phot = g.phot /\ h.photCurrent = g.photCurrent /\ h.lbol = g.lbol /\ h.lbolCurrent = g.lbolCurrent
  /\ h.winds = g.winds /\ h.windsCurrent = g.windsCurrent
ClustersSummed(g, spec) ==
  /\ spec.plain = SetToBag(LightIn(ClustersOf(g)))
  /\ sc.nebular => spec.neb = SetToBag(LightIn(ClustersOf(g)))
  /\ sc.extinct => spec.extinct = SetToBag(ExtinctIn(ClustersOf(g)))
  /\ sc.extinct /\ sc.nebular => spec.nebExtinct = SetToBag(NebExtinctIn(ClustersOf(g)))

\* The clusters' spectra, summed.
LEMMA SpecSummedIs ==
  ASSUME NEW g, GalPop(g), \A c \in ClustersOf(g) : ClusterSpecIs(c, c.spec)
  PROVE  /\ SameLists(SpecSummed(g), g) /\ SameResults(SpecSummed(g), g)
         /\ SpecSummed(g).lbolCts = g.lbolCts /\ SpecSummed(g).lbolCtsCurrent = g.lbolCtsCurrent
         /\ SpecSummed(g).specCurrent = g.specCurrent
         /\ ClustersSummed(g, SpecSummed(g).spec)
<1>1. PICK s : s = SpecSummed(g).spec  OBVIOUS
<1>2. IsGal(g)  BY DEF GalPop
<1>3. SpecSummed(g) = [g EXCEPT !.spec = s]  BY <1>1, <1>2 DEF SpecSummed, IsGal, GalFields
<1>4. s = [plain |-> SumOverClusters(LAMBDA c : c.spec.plain, g),
           extinct |-> IF sc.extinct THEN SumOverClusters(LAMBDA c : c.spec.extinct, g) ELSE g.spec.extinct,
           neb |-> IF sc.nebular THEN SumOverClusters(LAMBDA c : c.spec.neb, g) ELSE g.spec.neb,
           nebExtinct |-> IF sc.extinct /\ sc.nebular
                          THEN SumOverClusters(LAMBDA c : c.spec.nebExtinct, g) ELSE g.spec.nebExtinct]
  BY <1>1, <1>2 DEF SpecSummed, IsGal, GalFields
<1>5. ClustersSummed(g, s)
  <2>1. s.plain = SumOverClusters(LAMBDA c : c.spec.plain, g)  BY <1>4
  <2>2. sc.nebular => s.neb = SumOverClusters(LAMBDA c : c.spec.neb, g)  BY <1>4
  <2>3. sc.extinct => s.extinct = SumOverClusters(LAMBDA c : c.spec.extinct, g)  BY <1>4
  <2>4. sc.extinct /\ sc.nebular => s.nebExtinct = SumOverClusters(LAMBDA c : c.spec.nebExtinct, g)
    BY <1>4
  <2> QED BY <2>1, <2>2, <2>3, <2>4, SumsOfGalaxy DEF ClustersSummed
<1> QED BY <1>1, <1>2, <1>3, <1>5 DEF SameLists, SameResults, IsGal, GalFields

\* The continuous light and the field's are added.
LEMMA AddContinuousSpecIs ==
  ASSUME NEW g, GalPop(g), ClustersSummed(g, g.spec), CtsKept(g)
  PROVE  /\ SameLists(AddContinuousSpec(g), g) /\ SameResults(AddContinuousSpec(g), g)
         /\ CtsKept(AddContinuousSpec(g)) /\ GalSpecIs(g, AddContinuousSpec(g).spec)
<1>1. IsGal(g)  BY DEF GalPop
<1>2. PICK s, cts, cur, light : /\ s = AddContinuousSpec(g).spec /\ cts = AddContinuousSpec(g).lbolCts
                                /\ cur = AddContinuousSpec(g).lbolCtsCurrent
                                /\ light = IntegrateCts(curTime) (+) FieldLight(g)
  OBVIOUS
<1>3. /\ AddContinuousSpec(g) = [g EXCEPT !.spec = s, !.lbolCts = cts, !.lbolCtsCurrent = cur]
      /\ s = [plain |-> g.spec.plain (+) light,
              extinct |-> IF sc.extinct THEN g.spec.extinct (+) Expected(light) ELSE g.spec.extinct,
              neb |-> IF sc.nebular THEN g.spec.neb (+) light ELSE g.spec.neb,
              nebExtinct |-> IF sc.extinct /\ sc.nebular THEN g.spec.nebExtinct (+) Expected(light)
                             ELSE g.spec.nebExtinct]
      /\ cts = IF HasContinuous /\ sc.computeLbol THEN IntegrateCts(curTime) ELSE g.lbolCts
      /\ cur = (g.lbolCtsCurrent \/ (HasContinuous /\ sc.computeLbol))
  BY <1>1, <1>2 DEF AddContinuousSpec, IsGal, GalFields
<1>4. light = SetToBag(Rest(g)) /\ Expected(light) = SetToBag(Extinguished(Rest(g), 0))
  BY <1>2, RestSums
<1>5. GalSpecIs(g, s)
  <2>1. s.plain = g.spec.plain (+) light  BY <1>3
  <2>2. sc.nebular => s.neb = g.spec.neb (+) light  BY <1>3
  <2>3. sc.extinct => s.extinct = g.spec.extinct (+) Expected(light)  BY <1>3
  <2>4. sc.extinct /\ sc.nebular => s.nebExtinct = g.spec.nebExtinct (+) Expected(light)  BY <1>3
  <2>5. s.plain = SetToBag(AllLit(g))  BY <1>4, <2>1, RestSums DEF ClustersSummed
  <2>6. sc.nebular => s.neb = SetToBag(AllLit(g))  BY <1>4, <2>2, RestSums DEF ClustersSummed
  <2>7. sc.extinct => s.extinct = SetToBag(ExtinctLit(g))
    BY <1>4, <2>3, RestSums DEF ClustersSummed
  <2>8. sc.extinct /\ sc.nebular => s.nebExtinct = SetToBag(NebExtinctLit(g))
    BY <1>4, <2>4, RestSums DEF ClustersSummed
  <2> QED BY <2>5, <2>6, <2>7, <2>8 DEF GalSpecIs
<1>6. cur => cts = SetToBag(SlotLit(curTime))  BY <1>3, RestSums DEF CtsKept
<1> QED BY <1>1, <1>2, <1>3, <1>5, <1>6, ZenonT(60) DEF SameLists, SameResults, IsGal, GalFields, CtsKept

\* Every cluster is asked for its spectrum before they are summed.
LEMMA ClusterSpecsIs ==
  ASSUME NEW g, GalPop(g), sc.specsyn
  PROVE  /\ GalTouched(ClusterSpecs(g), g) /\ SameResults(ClusterSpecs(g), g)
         /\ ClusterSpecs(g).lbolCts = g.lbolCts /\ ClusterSpecs(g).lbolCtsCurrent = g.lbolCtsCurrent
         /\ ClustersSummed(ClusterSpecs(g), ClusterSpecs(g).spec)
<1>1. PICK h : h = [g EXCEPT !.clusters = Each(WithSpec, @), !.disrupted = Each(WithSpec, @)]
  OBVIOUS
<1>2. GalOk(g)  BY GalPopOk
<1>3. GalTouched(h, g)  BY <1>1, <1>2, AllAsked
<1>4. GalPop(h) /\ GalOk(h)  BY <1>3, GalPopTouched DEF GalTouched
<1>5. /\ h.clusters = Each(WithSpec, g.clusters) /\ h.disrupted = Each(WithSpec, g.disrupted)
      /\ SameResults(h, g) /\ h.lbolCts = g.lbolCts /\ h.lbolCtsCurrent = g.lbolCtsCurrent
  BY <1>1, <1>2 DEF GalOk, IsGal, GalFields, SameResults
<1>6. \A c \in ClustersOf(h) : c.specCurrent
  <2>1. ASSUME NEW l, Clusters(l) PROVE \A c \in ToSet(Each(WithSpec, l)) : c.specCurrent
    <3>1. ASSUME NEW c \in ToSet(Each(WithSpec, l)) PROVE c.specCurrent
      <4>1. PICK i \in DOMAIN l : c = WithSpec(l[i])  BY DEF Each, ToSet
      <4>2. IsCluster(l[i])  BY <2>1, <4>1 DEF Clusters, ToSet
      <4> QED BY <4>1, <4>2, WithSpecKeeps
    <3> QED BY <3>1
  <2> QED BY <1>2, <1>5, <2>1 DEF GalOk, ClustersOf
<1>7. \A c \in ClustersOf(h) : ClusterSpecIs(c, c.spec)
  <2>1. \A c \in ClustersOf(h) : CachesKept(c)  BY <1>4 DEF GalPop, ListsOk, ClusterOk, ClustersOf
  <2> QED BY <1>6, <2>1 DEF CachesKept
<1>8. PICK k : k = SpecSummed(h)  OBVIOUS
<1>9. /\ SameLists(k, h) /\ SameResults(k, h) /\ k.lbolCts = h.lbolCts
      /\ k.lbolCtsCurrent = h.lbolCtsCurrent /\ ClustersSummed(h, k.spec)
  BY <1>4, <1>7, <1>8, SpecSummedIs
<1>10. k = ClusterSpecs(g)  BY <1>1, <1>8 DEF ClusterSpecs
<1>11. GalTouched(k, g)  BY <1>3, <1>4, <1>9, GalUntouched, GalTouchedTwice
<1>12. ClustersSummed(k, k.spec)  BY <1>9 DEF ClustersSummed, ClustersOf, SameLists
<1> QED BY <1>5, <1>9, <1>10, <1>11, <1>12 DEF SameResults

\* What is summed of the same stars is the same.
LEMMA SpecIsTouched ==
  ASSUME NEW g, GalPop(g), NEW h, GalTouched(h, g), NEW spec
  PROVE  GalSpecIs(h, spec) <=> GalSpecIs(g, spec)
BY GalPopTouched DEF GalSpecIs

\* A galaxy's spectrum, asked for.
LEMMA AskedSpec ==
  ASSUME NEW g, GalPop(g), GalSums(g)
  PROVE  /\ GalTouched(GalaxyWithSpec(g), g) /\ GalSums(GalaxyWithSpec(g))
         /\ GalaxyWithSpec(g).specCurrent /\ GalaxyWithSpec(g).photCurrent = g.photCurrent
<1>1. GalOk(g) /\ IsGal(g)  BY GalPopOk DEF GalPop
<1>2. CASE g.specCurrent
  <2>1. GalaxyWithSpec(g) = g  BY <1>2 DEF GalaxyWithSpec
  <2>2. SameLists(g, g)  BY <1>1 DEF SameLists
  <2> QED BY <1>1, <1>2, <2>1, <2>2, GalUntouched
<1>3. CASE ~g.specCurrent
  <2>1. PICK k : k = ComputeGalaxySpec(g)  OBVIOUS
  <2>2. PICK h : h = GalaxyWithSpec(g)  OBVIOUS
  <2>3. h = [k EXCEPT !.specCurrent = TRUE]  BY <1>3, <2>1, <2>2 DEF GalaxyWithSpec
  <2>4. GalTouched(k, g) /\ SameResults(k, g) /\ CtsKept(k) /\ (sc.specsyn => GalSpecIs(g, k.spec))
    <3>1. CASE ~sc.specsyn
      <4>1. k = g  BY <2>1, <3>1 DEF ComputeGalaxySpec
      <4>2. SameLists(g, g) /\ SameResults(g, g) /\ CtsKept(g)
        BY <1>1 DEF SameLists, SameResults, GalSums
      <4> QED BY <1>1, <3>1, <4>1, <4>2, GalUntouched
    <3>2. CASE sc.specsyn
      <4>1. PICK j : j = ClusterSpecs(g)  OBVIOUS
      <4>2. /\ GalTouched(j, g) /\ SameResults(j, g) /\ j.lbolCts = g.lbolCts
            /\ j.lbolCtsCurrent = g.lbolCtsCurrent /\ ClustersSummed(j, j.spec)
        BY <3>2, <4>1, ClusterSpecsIs
      <4>3. GalPop(j) /\ GalOk(j) /\ CtsKept(j) /\ Rest(j) = Rest(g)
        BY <4>2, GalPopTouched DEF CtsKept, GalSums, GalTouched
      <4>4. CASE sc.fCluster < 2
        <5>1. k = AddContinuousSpec(j)  BY <2>1, <3>2, <4>1, <4>4 DEF ComputeGalaxySpec
        <5>2. SameLists(k, j) /\ SameResults(k, j) /\ CtsKept(k) /\ GalSpecIs(j, k.spec)
          BY <4>2, <4>3, <5>1, AddContinuousSpecIs
        <5>3. GalTouched(k, g)  BY <4>2, <4>3, <5>2, GalUntouched, GalTouchedTwice
        <5>4. GalSpecIs(g, k.spec)  BY <4>2, <5>2, SpecIsTouched
        <5> QED BY <4>2, <5>2, <5>3, <5>4 DEF SameResults
      <4>5. CASE ~(sc.fCluster < 2)
        <5>1. k = j  BY <2>1, <3>2, <4>1, <4>5 DEF ComputeGalaxySpec
        <5>2. sc.fCluster = 2  BY <4>5, ControlsAssumption DEF GalPop
        <5>3. Rest(j) = {} /\ Extinguished(Rest(j), 0) = {}  BY <4>3, <5>2 DEF GalPop, Extinguished
        <5>4. /\ AllLit(j) = LightIn(ClustersOf(j)) /\ ExtinctLit(j) = ExtinctIn(ClustersOf(j))
              /\ NebExtinctLit(j) = NebExtinctIn(ClustersOf(j))
          BY <5>3 DEF AllLit, ExtinctLit, NebExtinctLit
        <5>5. GalSpecIs(j, j.spec)  BY <4>2, <5>4 DEF GalSpecIs, ClustersSummed
        <5> QED BY <4>2, <4>3, <5>1, <5>5, SpecIsTouched
      <4> QED BY <4>4, <4>5
    <3> QED BY <3>1, <3>2
  <2>5. GalOk(k) /\ IsGal(k)  BY <2>4 DEF GalTouched, GalOk
  <2>6. /\ SameLists(h, k) /\ SameResults(h, k) /\ h.spec = k.spec /\ h.lbolCts = k.lbolCts
        /\ h.lbolCtsCurrent = k.lbolCtsCurrent /\ h.specCurrent
    BY <2>3, <2>5 DEF SameLists, SameResults, IsGal, GalFields
  <2>7. GalTouched(h, g)  BY <1>1, <2>4, <2>5, <2>6, GalUntouched, GalTouchedTwice
  <2>8. GalSums(h)
    <3>1. h.phot = g.phot /\ h.photCurrent = g.photCurrent /\ h.lbol = g.lbol
          /\ h.lbolCurrent = g.lbolCurrent /\ h.winds = g.winds /\ h.windsCurrent = g.windsCurrent
      BY <2>4, <2>6 DEF SameResults
    <3>2. AllLit(h) = AllLit(g)  BY <2>7, GalPopTouched
    <3>3. (h.photCurrent /\ sc.filters => GalSpecIs(h, h.phot)) /\ (sc.specsyn => GalSpecIs(h, h.spec))
      BY <2>4, <2>6, <2>7, <3>1, SpecIsTouched DEF GalSums
    <3>4. CtsKept(h)  BY <2>4, <2>6 DEF CtsKept
    <3> QED BY <3>1, <3>2, <3>3, <3>4 DEF GalSums
  <2> QED BY <2>2, <2>4, <2>6, <2>7, <2>8 DEF SameResults
<1> QED BY <1>2, <1>3

\* A galaxy's photometry, asked for.
LEMMA AskedPhot ==
  ASSUME NEW g, GalPop(g), GalSums(g)
  PROVE  GalTouched(GalaxyWithPhot(g), g) /\ GalSums(GalaxyWithPhot(g))
<1>1. GalOk(g) /\ IsGal(g)  BY GalPopOk DEF GalPop
<1>2. SameLists(g, g)  BY <1>1 DEF SameLists
<1>3. CASE g.photCurrent  BY <1>1, <1>2, <1>3, GalUntouched DEF GalaxyWithPhot
<1>4. CASE ~g.photCurrent
  <2>1. PICK k, h : k = ComputeGalaxyPhot(g) /\ h = GalaxyWithPhot(g)  OBVIOUS
  <2>2. h = [k EXCEPT !.photCurrent = TRUE]  BY <1>4, <2>1 DEF GalaxyWithPhot
  <2>3. GalTouched(k, g) /\ GalSums(k) /\ (sc.filters => GalSpecIs(k, k.phot))
    <3>1. CASE ~sc.filters
      <4>1. k = g  BY <2>1, <3>1 DEF ComputeGalaxyPhot
      <4> QED BY <1>1, <1>2, <3>1, <4>1, GalUntouched
    <3>2. CASE sc.filters
      <4>1. sc.specsyn  BY <3>2, ControlsAssumption DEF GalPop
      <4>2. PICK j : j = GalaxyWithSpec(g)  OBVIOUS
      <4>3. GalTouched(j, g) /\ GalSums(j) /\ j.specCurrent  BY <4>2, AskedSpec
      <4>4. GalOk(j) /\ IsGal(j)  BY <4>3 DEF GalTouched, GalOk
      <4>5. k = [j EXCEPT !.phot = j.spec]  BY <2>1, <3>2, <4>2 DEF ComputeGalaxyPhot, PhotFromSpec
      <4>6. /\ SameLists(k, j) /\ k.phot = j.spec /\ k.spec = j.spec /\ k.specCurrent = j.specCurrent
            /\ k.photCurrent = j.photCurrent /\ k.lbol = j.lbol /\ k.lbolCurrent = j.lbolCurrent
            /\ k.lbolCts = j.lbolCts /\ k.lbolCtsCurrent = j.lbolCtsCurrent
            /\ k.winds = j.winds /\ k.windsCurrent = j.windsCurrent
        BY <4>4, <4>5 DEF SameLists, IsGal, GalFields
      <4>7. GalTouched(k, j)  BY <4>4, <4>6, GalUntouched
      <4>8. GalTouched(k, g)  BY <4>3, <4>7, GalTouchedTwice
      <4>9. GalSpecIs(j, j.spec)  BY <4>1, <4>3 DEF GalSums
      <4>10. GalPop(j)  BY <4>3, GalPopTouched
      <4>11. AllLit(k) = AllLit(j) /\ \A s : GalSpecIs(k, s) <=> GalSpecIs(j, s)
        BY <4>7, <4>10, GalPopTouched, SpecIsTouched
      <4>12. GalSums(k)  BY <4>3, <4>6, <4>9, <4>11 DEF GalSums, CtsKept
      <4> QED BY <4>6, <4>8, <4>9, <4>11, <4>12
    <3> QED BY <3>1, <3>2
  <2>4. GalOk(k) /\ IsGal(k) /\ GalPop(k)  BY <2>3, GalPopTouched DEF GalTouched, GalOk
  <2>5. /\ SameLists(h, k) /\ h.phot = k.phot /\ h.spec = k.spec /\ h.specCurrent = k.specCurrent
        /\ h.photCurrent /\ h.lbol = k.lbol /\ h.lbolCurrent = k.lbolCurrent
        /\ h.lbolCts = k.lbolCts /\ h.lbolCtsCurrent = k.lbolCtsCurrent
        /\ h.winds = k.winds /\ h.windsCurrent = k.windsCurrent
    BY <2>2, <2>4 DEF SameLists, IsGal, GalFields
  <2>6. GalTouched(h, k)  BY <2>4, <2>5, GalUntouched
  <2>7. AllLit(h) = AllLit(k) /\ \A s : GalSpecIs(h, s) <=> GalSpecIs(k, s)
    BY <2>4, <2>6, GalPopTouched, SpecIsTouched
  <2>8. GalSums(h)  BY <2>3, <2>5, <2>7 DEF GalSums, CtsKept
  <2> QED BY <2>1, <2>3, <2>6, <2>8, GalTouchedTwice
<1> QED BY <1>3, <1>4

\* What is asked of all the clusters of a galaxy is known of each.
LEMMA EachAsked ==
  ASSUME NEW g, GalOk(g)
  PROVE  /\ \A c \in ToSet(Each(WithLbol, g.clusters)) \cup ToSet(Each(WithLbol, g.disrupted)) : c.lbolCurrent
         /\ \A c \in ToSet(Each(WithWinds, g.clusters)) \cup ToSet(Each(WithWinds, g.disrupted)) : c.windsCurrent
<1>1. ASSUME NEW l, Clusters(l)
      PROVE  /\ \A c \in ToSet(Each(WithLbol, l)) : c.lbolCurrent
             /\ \A c \in ToSet(Each(WithWinds, l)) : c.windsCurrent
  <2>1. ASSUME NEW c \in ToSet(Each(WithLbol, l)) PROVE c.lbolCurrent
    <3>1. PICK i \in DOMAIN l : c = WithLbol(l[i])  BY DEF Each, ToSet
    <3>2. IsCluster(l[i])  BY <1>1, <3>1 DEF Clusters, ToSet
    <3> QED BY <3>1, <3>2, WithLbolKeeps
  <2>2. ASSUME NEW c \in ToSet(Each(WithWinds, l)) PROVE c.windsCurrent
    <3>1. PICK i \in DOMAIN l : c = WithWinds(l[i])  BY DEF Each, ToSet
    <3>2. IsCluster(l[i])  BY <1>1, <3>1 DEF Clusters, ToSet
    <3> QED BY <3>1, <3>2, WithWindsKeeps
  <2> QED BY <2>1, <2>2
<1> QED BY <1>1 DEF GalOk

\* A galaxy's luminosity, asked for.
LEMMA AskedLbol ==
  ASSUME NEW g, GalPop(g), GalSums(g)
  PROVE  GalTouched(GalaxyWithLbol(g), g) /\ GalSums(GalaxyWithLbol(g))
<1>1. GalOk(g) /\ IsGal(g)  BY GalPopOk DEF GalPop
<1>2. SameLists(g, g)  BY <1>1 DEF SameLists
<1>3. CASE g.lbolCurrent  BY <1>1, <1>2, <1>3, GalUntouched DEF GalaxyWithLbol
<1>4. CASE ~g.lbolCurrent /\ ~sc.computeLbol
  <2>1. PICK h : h = GalaxyWithLbol(g)  OBVIOUS
  <2>2. h = [g EXCEPT !.lbolCurrent = TRUE]  BY <1>4, <2>1 DEF GalaxyWithLbol, ComputeGalaxyLbol
  <2>3. /\ SameLists(h, g) /\ h.phot = g.phot /\ h.spec = g.spec /\ h.specCurrent = g.specCurrent
        /\ h.photCurrent = g.photCurrent /\ h.lbolCts = g.lbolCts /\ h.lbolCtsCurrent = g.lbolCtsCurrent
        /\ h.winds = g.winds /\ h.windsCurrent = g.windsCurrent
    BY <1>1, <2>2 DEF SameLists, IsGal, GalFields
  <2>4. GalTouched(h, g)  BY <1>1, <2>3, GalUntouched
  <2>5. AllLit(h) = AllLit(g) /\ \A s : GalSpecIs(h, s) <=> GalSpecIs(g, s)
    BY <2>4, GalPopTouched, SpecIsTouched
  <2>6. GalSums(h)  BY <1>4, <2>3, <2>5 DEF GalSums, CtsKept
  <2> QED BY <2>1, <2>4, <2>6
<1>5. CASE ~g.lbolCurrent /\ sc.computeLbol
  <2>1. PICK j, k, h : /\ j = [g EXCEPT !.clusters = Each(WithLbol, @), !.disrupted = Each(WithLbol, @)]
                       /\ k = WithLbolCts(j) /\ h = GalaxyWithLbol(g)
    OBVIOUS
  <2>2. GalTouched(j, g)  BY <1>1, <2>1, AllAsked
  <2>3. GalPop(j) /\ GalOk(j) /\ IsGal(j)  BY <2>2, GalPopTouched DEF GalTouched, GalOk
  <2>4. /\ j.clusters = Each(WithLbol, g.clusters) /\ j.disrupted = Each(WithLbol, g.disrupted)
        /\ SameResults(j, g) /\ j.lbolCts = g.lbolCts /\ j.lbolCtsCurrent = g.lbolCtsCurrent
        /\ j.spec = g.spec /\ j.specCurrent = g.specCurrent
    BY <1>1, <2>1 DEF IsGal, GalFields, SameResults
  <2>5. /\ SameLists(k, j) /\ SameResults(k, j) /\ k.spec = j.spec /\ k.specCurrent = j.specCurrent
        /\ CtsKept(k) /\ (~k.lbolCtsCurrent => SlotLit(curTime) = {})
    <3>1. CASE ~j.lbolCtsCurrent /\ HasContinuous
      <4>1. k = [j EXCEPT !.lbolCts = IntegrateCts(curTime), !.lbolCtsCurrent = TRUE]
        BY <2>1, <3>1 DEF WithLbolCts, ComputeLbolCts
      <4>2. IntegrateCts(curTime) = SetToBag(SlotLit(curTime))  BY <2>3, RestSums
      <4> QED BY <2>3, <4>1, <4>2 DEF SameLists, SameResults, IsGal, GalFields, CtsKept
    <3>2. CASE ~(~j.lbolCtsCurrent /\ HasContinuous)
      <4>1. k = j  BY <2>1, <3>2 DEF WithLbolCts
      <4>2. ~j.lbolCtsCurrent => SlotLit(curTime) = {}  BY <3>2 DEF SlotLit
      <4>3. CtsKept(j)  BY <2>4 DEF CtsKept, GalSums
      <4> QED BY <2>3, <4>1, <4>2, <4>3 DEF SameLists, SameResults
    <3> QED BY <3>1, <3>2
  <2>6. GalTouched(k, g)  BY <2>2, <2>3, <2>5, GalUntouched, GalTouchedTwice
  <2>7. GalPop(k) /\ GalOk(k) /\ IsGal(k)  BY <2>6, GalPopTouched DEF GalTouched, GalOk
  <2>8. PICK sum : sum = SumOverClusters(LAMBDA c : c.lbol, k)
                           (+) (IF k.lbolCtsCurrent THEN k.lbolCts ELSE EmptyBag) (+) FieldLight(k)
    OBVIOUS
  <2>9. h = [[k EXCEPT !.lbol = sum] EXCEPT !.lbolCurrent = TRUE]
    BY <1>5, <2>1, <2>8 DEF GalaxyWithLbol, ComputeGalaxyLbol, LbolSummed
  <2>10. /\ SameLists(h, k) /\ h.phot = k.phot /\ h.spec = k.spec /\ h.specCurrent = k.specCurrent
         /\ h.photCurrent = k.photCurrent /\ h.lbolCts = k.lbolCts /\ h.lbolCtsCurrent = k.lbolCtsCurrent
         /\ h.winds = k.winds /\ h.windsCurrent = k.windsCurrent /\ h.lbol = sum
    BY <2>7, <2>9 DEF SameLists, IsGal, GalFields
  <2>11. sum = SetToBag(AllLit(k))
    <3>1. \A c \in ClustersOf(k) : c.lbol = LightOf(c)
      <4>1. \A c \in ClustersOf(j) : CachesKept(c)
        BY <2>3 DEF GalPop, ListsOk, ClusterOk, ClustersOf
      <4>2. \A c \in ClustersOf(j) : c.lbolCurrent  BY <1>1, <2>4, EachAsked DEF ClustersOf
      <4>3. ClustersOf(k) = ClustersOf(j)  BY <2>5 DEF SameLists, ClustersOf
      <4> QED BY <1>5, <4>1, <4>2, <4>3 DEF CachesKept
    <3>2. SumOverClusters(LAMBDA c : c.lbol, k) = SetToBag(LightIn(ClustersOf(k)))
      BY <2>7, <3>1, SumsOfGalaxy
    <3>3. (IF k.lbolCtsCurrent THEN k.lbolCts ELSE EmptyBag) = SetToBag(SlotLit(curTime))
      BY <2>5, BagOfNothing DEF CtsKept
    <3>4. FieldLight(k) = SetToBag(FieldLit(k))  BY <2>7, RestSums
    <3> QED BY <2>7, <2>8, <3>2, <3>3, <3>4, RestSums
  <2>12. GalTouched(h, k)  BY <2>7, <2>10, GalUntouched
  <2>13. AllLit(h) = AllLit(k) /\ AllLit(k) = AllLit(g)  BY <2>6, <2>7, <2>12, GalPopTouched
  <2>14. GalTouched(h, g)  BY <2>6, <2>12, GalTouchedTwice
  <2>15. \A s : GalSpecIs(h, s) <=> GalSpecIs(g, s)  BY <2>14, SpecIsTouched
  <2>16. /\ h.phot = g.phot /\ h.spec = g.spec /\ h.specCurrent = g.specCurrent
         /\ h.photCurrent = g.photCurrent /\ h.winds = g.winds /\ h.windsCurrent = g.windsCurrent
    BY <2>4, <2>5, <2>10 DEF SameResults
  <2>17. GalSums(h)  BY <2>5, <2>10, <2>11, <2>13, <2>15, <2>16 DEF GalSums, CtsKept
  <2> QED BY <2>1, <2>14, <2>17
<1> QED BY <1>3, <1>4, <1>5

\* A galaxy's winds, asked for.
LEMMA AskedWinds ==
  ASSUME NEW g, GalPop(g), GalSums(g)
  PROVE  GalTouched(GalaxyWithWinds(g), g) /\ GalSums(GalaxyWithWinds(g))
<1>1. GalOk(g) /\ IsGal(g)  BY GalPopOk DEF GalPop
<1>2. SameLists(g, g)  BY <1>1 DEF SameLists
<1>3. CASE g.windsCurrent  BY <1>1, <1>2, <1>3, GalUntouched DEF GalaxyWithWinds
<1>4. CASE ~g.windsCurrent
  <2>1. PICK j, h : /\ j = [g EXCEPT !.clusters = Each(WithWinds, @), !.disrupted = Each(WithWinds, @)]
                    /\ h = GalaxyWithWinds(g)
    OBVIOUS
  <2>2. GalTouched(j, g)  BY <1>1, <2>1, AllAsked
  <2>3. GalPop(j) /\ GalOk(j) /\ IsGal(j)  BY <2>2, GalPopTouched DEF GalTouched, GalOk
  <2>4. /\ j.clusters = Each(WithWinds, g.clusters) /\ j.disrupted = Each(WithWinds, g.disrupted)
        /\ SameResults(j, g) /\ j.lbolCts = g.lbolCts /\ j.lbolCtsCurrent = g.lbolCtsCurrent
        /\ j.spec = g.spec /\ j.specCurrent = g.specCurrent
    BY <1>1, <2>1 DEF IsGal, GalFields, SameResults
  <2>5. PICK sum : sum = SumOverClusters(LAMBDA c : c.winds, j) (+) FieldLight(j) (+) IntegrateCts(curTime)
    OBVIOUS
  <2>6. h = [[j EXCEPT !.winds = sum] EXCEPT !.windsCurrent = TRUE]
    BY <1>4, <2>1, <2>5 DEF GalaxyWithWinds, ComputeGalaxyWinds, WindsSummed
  <2>7. /\ SameLists(h, j) /\ h.phot = j.phot /\ h.spec = j.spec /\ h.specCurrent = j.specCurrent
        /\ h.photCurrent = j.photCurrent /\ h.lbolCts = j.lbolCts /\ h.lbolCtsCurrent = j.lbolCtsCurrent
        /\ h.lbol = j.lbol /\ h.lbolCurrent = j.lbolCurrent /\ h.winds = sum
    BY <2>3, <2>6 DEF SameLists, IsGal, GalFields
  <2>8. sum = SetToBag(AllLit(j))
    <3>1. \A c \in ClustersOf(j) : c.winds = LightOf(c)
      <4>1. \A c \in ClustersOf(j) : CachesKept(c)
        BY <2>3 DEF GalPop, ListsOk, ClusterOk, ClustersOf
      <4>2. \A c \in ClustersOf(j) : c.windsCurrent  BY <1>1, <2>4, EachAsked DEF ClustersOf
      <4> QED BY <4>1, <4>2 DEF CachesKept
    <3>2. SumOverClusters(LAMBDA c : c.winds, j) = SetToBag(LightIn(ClustersOf(j)))
      BY <2>3, <3>1, SumsOfGalaxy
    <3> QED BY <2>3, <2>5, <3>2, RestSums
  <2>9. GalTouched(h, j)  BY <2>3, <2>7, GalUntouched
  <2>10. GalTouched(h, g)  BY <2>2, <2>9, GalTouchedTwice
  <2>11. AllLit(h) = AllLit(j) /\ AllLit(h) = AllLit(g) /\ \A s : GalSpecIs(h, s) <=> GalSpecIs(g, s)
    BY <2>3, <2>9, <2>10, GalPopTouched, SpecIsTouched
  <2>12. /\ h.phot = g.phot /\ h.spec = g.spec /\ h.specCurrent = g.specCurrent
         /\ h.photCurrent = g.photCurrent /\ h.lbol = g.lbol /\ h.lbolCurrent = g.lbolCurrent
         /\ h.lbolCts = g.lbolCts /\ h.lbolCtsCurrent = g.lbolCtsCurrent
    BY <2>4, <2>7 DEF SameResults
  <2>13. GalSums(h)  BY <2>7, <2>8, <2>11, <2>12 DEF GalSums, CtsKept
  <2> QED BY <2>1, <2>10, <2>13
<1> QED BY <1>3, <1>4

\* Results are asked of one cluster of a list.
LEMMA OneOfList ==
  ASSUME NEW l, Clusters(l), NEW i \in DOMAIN l, NEW d, Touched(d, l[i])
  PROVE  TouchedList([l EXCEPT ![i] = d], l)
<1>1. PICK n \in Nat : n = Len(l) /\ DOMAIN l = 1 .. n  BY ListPlaces DEF Clusters
<1>2. PICK k : k = [l EXCEPT ![i] = d]  OBVIOUS
<1>3. DOMAIN k = 1 .. n /\ k = [j \in 1 .. n |-> k[j]]  BY <1>1, <1>2
<1>4. k \in Seq(ToSet(k)) /\ Len(k) = n  BY <1>3, ListFrom
<1>5. TouchedList(l, l)  BY UntouchedList
<1>6. \A j \in 1 .. n : Touched(k[j], l[j])  BY <1>1, <1>2, <1>5 DEF TouchedList
<1> QED BY <1>1, <1>2, <1>4, <1>6 DEF TouchedList

\* Two galaxies with the same sums.
SameSums(h, g) ==
  /\ SameResults(h, g) /\ h.spec = g.spec /\ h.specCurrent = g.specCurrent
  /\ h.lbolCts = g.lbolCts /\ h.lbolCtsCurrent = g.lbolCtsCurrent
\* What is summed does not change when one cluster is asked.
LEMMA SameSumsKeep ==
  ASSUME NEW g, GalPop(g), GalSums(g), NEW h, GalTouched(h, g), SameSums(h, g)
  PROVE  GalSums(h)
<1>1. AllLit(h) = AllLit(g) /\ \A s : GalSpecIs(h, s) <=> GalSpecIs(g, s)
  BY GalPopTouched, SpecIsTouched
<1> QED BY <1>1 DEF GalSums, CtsKept, SameSums, SameResults

\* Results are asked of one cluster of a galaxy, of either list.
LEMMA OneAsked ==
  ASSUME NEW g, GalPop(g), GalSums(g), NEW d
  PROVE  /\ \A i \in DOMAIN g.clusters : Touched(d, g.clusters[i]) =>
              /\ GalTouched([g EXCEPT !.clusters[i] = d], g) /\ GalSums([g EXCEPT !.clusters[i] = d])
         /\ \A i \in DOMAIN g.disrupted : Touched(d, g.disrupted[i]) =>
              /\ GalTouched([g EXCEPT !.disrupted[i] = d], g) /\ GalSums([g EXCEPT !.disrupted[i] = d])
<1>1. GalOk(g) /\ IsGal(g)  BY GalPopOk DEF GalPop
<1>2. TouchedList(g.clusters, g.clusters) /\ TouchedList(g.disrupted, g.disrupted)
  BY <1>1, UntouchedList DEF GalOk
<1>3. ASSUME NEW i \in DOMAIN g.clusters, Touched(d, g.clusters[i]), NEW h, h = [g EXCEPT !.clusters[i] = d]
      PROVE  GalTouched(h, g) /\ GalSums(h)
  <2>1. PICK k : k = [g.clusters EXCEPT ![i] = d]  OBVIOUS
  <2>2. /\ IsGal(h) /\ h.clusters = k /\ h.disrupted = g.disrupted
        /\ h.fieldStars = g.fieldStars /\ h.fieldProps = g.fieldProps /\ SameSums(h, g)
    BY <1>1, <1>3, <2>1 DEF IsGal, GalFields, SameSums, SameResults
  <2>3. TouchedList(k, g.clusters)  BY <1>1, <1>3, <2>1, OneOfList DEF GalOk
  <2>4. Clusters(k)  BY <2>3, ListPlaces DEF TouchedList, Clusters, Touched
  <2>5. GalTouched(h, g)  BY <1>1, <1>2, <2>2, <2>3, <2>4 DEF GalTouched, GalOk
  <2> QED BY <2>2, <2>5, SameSumsKeep
<1>4. ASSUME NEW i \in DOMAIN g.disrupted, Touched(d, g.disrupted[i]), NEW h, h = [g EXCEPT !.disrupted[i] = d]
      PROVE  GalTouched(h, g) /\ GalSums(h)
  <2>1. PICK k : k = [g.disrupted EXCEPT ![i] = d]  OBVIOUS
  <2>2. /\ IsGal(h) /\ h.disrupted = k /\ h.clusters = g.clusters
        /\ h.fieldStars = g.fieldStars /\ h.fieldProps = g.fieldProps /\ SameSums(h, g)
    BY <1>1, <1>4, <2>1 DEF IsGal, GalFields, SameSums, SameResults
  <2>3. TouchedList(k, g.disrupted)  BY <1>1, <1>4, <2>1, OneOfList DEF GalOk
  <2>4. Clusters(k)  BY <2>3, ListPlaces DEF TouchedList, Clusters, Touched
  <2>5. GalTouched(h, g)  BY <1>1, <1>2, <2>2, <2>3, <2>4 DEF GalTouched, GalOk
  <2> QED BY <2>2, <2>5, SameSumsKeep
<1> QED BY <1>3, <1>4

\* The population, and what has been summed of it.
NoField == sc.fCluster = 2 => FieldOf(census) = {}
GalInv == PopInv /\ NoField /\ GalSums(gal)

\* What the galaxy's results are summed of is its population.
LEMMA GalPopHolds ==
  ASSUME PopInv, NoField
  PROVE  GalPop(gal)
<1>1. TapeOk /\ sc \in Controls /\ IsGal(gal) /\ ListsOk(gal.clusters, gal.disrupted, curTime, nextUid)
  BY DEF PopInv, Base
<1>2. PICK fs, F : fs = gal.fieldStars /\ F = FieldOf(census)  OBVIOUS
<1>3. FieldCensusOk(F, curTime) /\ FieldListOk(fs, F, curTime)  BY <1>2 DEF PopInv
<1>4. \A i \in DOMAIN fs : fs[i] \in ToSet(fs)  BY <1>3, ListPlaces DEF FieldListOk
<1>5. \A i \in DOMAIN fs : StarOf(fs[i]) \in F  BY <1>3, <1>4 DEF FieldListOk, StarsOf
<1>6. \A i \in DOMAIN fs : fs[i].src[1] = "field"  BY <1>3, <1>5 DEF FieldCensusOk, StarOf
<1>7. ASSUME sc.fCluster = 2 PROVE Rest(gal) = {}
  <2>1. F = {}  BY <1>2, <1>7 DEF NoField
  <2>2. DOMAIN fs = {}  BY <1>5, <2>1
  <2>3. FieldLit(gal) = {}  BY <1>2, <2>2 DEF FieldLit
  <2>4. SlotLit(curTime) = {}  BY <1>7 DEF SlotLit, HasContinuous
  <2> QED BY <2>3, <2>4 DEF Rest
<1> QED BY <1>1, <1>2, <1>6, <1>7 DEF GalPop

\* A cluster of which a result is asked.
LEMMA EachTouches ==
  ASSUME NEW c, IsCluster(c), sc \in Controls
  PROVE  /\ Touched(WithSpec(c), c) /\ Touched(WithPhot(c), c) /\ Touched(WithLbol(c), c)
         /\ Touched(WithWinds(c), c)
<1>1. sc.filters => sc.specsyn  BY ControlsAssumption
<1> QED BY <1>1, WithSpecKeeps, WithPhotKeeps, WithLbolKeeps, WithWindsKeeps DEF Touched

\* What is summed after a result has been asked for.
LEMMA SumsPrimed ==
  ASSUME tape' = tape, sc' = sc, curTime' = curTime, NEW g, g = gal', GalSums(g)
  PROVE  GalSums(gal)'
<1>1. \A c : LightOf(c)' = LightOf(c)  BY DEF LightOf, StarsShining, BinsShining
<1>2. (FieldLit(gal)' = FieldLit(g)) /\ (SlotLit(curTime)' = SlotLit(curTime)) /\ ClustersOf(gal)' = ClustersOf(g)
  BY DEF FieldLit, SlotLit, HasContinuous, ClustersOf
<1>3. Rest(gal)' = Rest(g)  BY <1>2 DEF Rest
<1>4. LightIn(ClustersOf(gal))' = LightIn(ClustersOf(g))  BY <1>1, <1>2 DEF LightIn
<1>5. ExtinctIn(ClustersOf(gal))' = ExtinctIn(ClustersOf(g))
  BY <1>1, <1>2 DEF ExtinctIn, Extinguished
<1>6. NebExtinctIn(ClustersOf(gal))' = NebExtinctIn(ClustersOf(g))
  BY <1>1, <1>2 DEF NebExtinctIn, Extinguished
<1>7. Extinguished(Rest(gal), 0)' = Extinguished(Rest(g), 0)  BY <1>3 DEF Extinguished
<1>8. AllLit(gal)' = AllLit(g) /\ ExtinctLit(gal)' = ExtinctLit(g) /\ NebExtinctLit(gal)' = NebExtinctLit(g)
  BY <1>3, <1>4, <1>5, <1>6, <1>7 DEF AllLit, ExtinctLit, NebExtinctLit
<1> QED BY <1>2, <1>8 DEF GalSums, GalSpecIs, CtsKept

PopOk(g, cens, now, uid) ==
  /\ IsGal(g)
  /\ ListsOk(g.clusters, g.disrupted, now, uid)
  /\ CensusIs(cens, ClustersOf(g), now)
  /\ FieldCensusOk(FieldOf(cens), now)
  /\ FieldListOk(g.fieldStars, FieldOf(cens), now)
  /\ g.fieldProps = FieldStarProps(g.fieldStars, now)

\* The population after a step.
LEMMA PopPrimed ==
  ASSUME tape' = tape, sc' = sc, NEW g, g = gal', NEW cens, cens = census', NEW now, now = curTime',
         NEW uid, uid = nextUid', PopOk(g, cens, now, uid), Base'
  PROVE  PopInv'
<1>1. /\ \A c : ClusterCore(c)' <=> ClusterCore(c)
      /\ \A c : CachesKept(c)' <=> CachesKept(c)
      /\ \A c : Members(c)' = Members(c)
      /\ SlotsAt(curTime)' = SlotsAt(now)
  <2>1. SlotsAt(curTime)' = SlotsAt(now)  BY DEF SlotsAt, SlotsBorn, HasContinuous
  <2> QED BY <2>1, Unchanging
<1>2. IsGal(gal)' /\ ClustersOf(gal)' = ClustersOf(g)  BY DEF IsGal, GalFields, ClustersOf, PopOk
<1>3. ListsOk(gal.clusters, gal.disrupted, curTime, nextUid)'
  BY <1>1 DEF ListsOk, ClusterOk, Distinct, PopOk
<1>4. CensusIs(census, ClustersOf(gal), curTime)'
  BY <1>1, <1>2 DEF CensusIs, MembersOf, FieldOf, PopOk
<1>5. FieldCensusOk(FieldOf(census), curTime)'  BY DEF FieldCensusOk, FieldOf, PopOk
<1>6. FieldListOk(gal.fieldStars, FieldOf(census), curTime)'
  BY DEF FieldListOk, FieldOf, DeathOf, StarsOf, StarOf, PopOk
<1>7. (gal.fieldProps = FieldStarProps(gal.fieldStars, curTime))'  BY DEF FieldStarProps, PopOk
<1> QED BY <1>2, <1>3, <1>4, <1>5, <1>6, <1>7 DEF PopInv

\* A step in which results are asked for, or none: nothing else changes.
Asked ==
  /\ UNCHANGED <<tape, sc, curTime, rate, yields, fieldYields, lastYieldTime, stochSNe, nonStochSNe,
                 lastFeedbackTime, nextUid, census>>
  /\ rng' \in Nat
  /\ \E g : g = gal' /\ GalTouched(g, gal) /\ GalSums(g)

\* Results that are asked for change nothing about the population, and are kept right.
LEMMA AskedKeeps ==
  ASSUME GalInv, Asked
  PROVE  GalInv'
<1>0. PICK g : g = gal' /\ GalTouched(g, gal) /\ GalSums(g)  BY DEF Asked
<1>1. PICK now, uid, cens, old : now = curTime /\ uid = nextUid /\ cens = census /\ old = gal
  OBVIOUS
<1>2. ListsOk(old.clusters, old.disrupted, now, uid) /\ CensusIs(cens, ClustersOf(old), now)
  BY <1>1 DEF GalInv, PopInv
<1>3. /\ ListsOk(g.clusters, g.disrupted, now, uid)
      /\ MembersOf(ClustersOf(g)) = MembersOf(ClustersOf(old))
  BY <1>0, <1>1, <1>2, ListsTouched DEF GalTouched, ClustersOf
<1>4. CensusIs(cens, ClustersOf(g), now)  BY <1>2, <1>3 DEF CensusIs
<1>5. IsGal(g) /\ g.fieldStars = old.fieldStars /\ g.fieldProps = old.fieldProps
  BY <1>0, <1>1 DEF GalTouched, GalOk
<1>6. PopOk(g, cens, now, uid)  BY <1>1, <1>3, <1>4, <1>5 DEF PopOk, GalInv, PopInv
<1>7. Base'  BY DEF Asked, Base, GalInv, PopInv, TapeOk
<1>8. PopInv'  BY <1>0, <1>1, <1>6, <1>7, PopPrimed DEF Asked
<1>9. NoField'  BY DEF Asked, NoField, GalInv, FieldOf
<1>10. GalSums(gal)'  BY <1>0, SumsPrimed DEF Asked
<1> QED BY <1>8, <1>9, <1>10 DEF GalInv

\* Any result that is asked for.
LEMMA AskIsAsked ==
  ASSUME GalInv, AskSpec \/ AskPhot \/ AskLbol \/ AskWinds
  PROVE  Asked
<1>1. GalPop(gal) /\ GalSums(gal)  BY GalPopHolds DEF GalInv
<1>2. UNCHANGED <<tape, sc, curTime, rate, yields, fieldYields, lastYieldTime, stochSNe, nonStochSNe,
                   lastFeedbackTime, nextUid, census>> /\ rng' \in Nat
  BY DEF AskSpec, AskPhot, AskLbol, AskWinds, Call, GalInv, PopInv, Base
<1>3. PICK g, old : g = gal' /\ old = gal  OBVIOUS
<1>4. GalTouched(g, old) /\ GalSums(g)
  <2>1. CASE AskSpec
    <3>1. g = GalaxyWithSpec(old)  BY <1>3, <2>1 DEF AskSpec
    <3> QED BY <1>1, <1>3, <3>1, AskedSpec
  <2>2. CASE AskPhot
    <3>1. g = GalaxyWithPhot(old)  BY <1>3, <2>2 DEF AskPhot
    <3> QED BY <1>1, <1>3, <3>1, AskedPhot
  <2>3. CASE AskLbol
    <3>1. g = GalaxyWithLbol(old)  BY <1>3, <2>3 DEF AskLbol
    <3> QED BY <1>1, <1>3, <3>1, AskedLbol
  <2>4. CASE AskWinds
    <3>1. g = GalaxyWithWinds(old)  BY <1>3, <2>4 DEF AskWinds
    <3> QED BY <1>1, <1>3, <3>1, AskedWinds
  <2> QED BY <2>1, <2>2, <2>3, <2>4
<1> QED BY <1>2, <1>3, <1>4 DEF Asked

\* Any result that is asked of one cluster.
LEMMA AskClusterIsAsked ==
  ASSUME GalInv, AskClusterSpec \/ AskClusterPhot \/ AskClusterLbol \/ AskClusterWinds
  PROVE  Asked
<1>1. GalPop(gal) /\ GalSums(gal)  BY GalPopHolds DEF GalInv
<1>2. UNCHANGED <<tape, sc, curTime, rate, yields, fieldYields, lastYieldTime, stochSNe, nonStochSNe,
                   lastFeedbackTime, nextUid, census>> /\ rng' \in Nat
  BY DEF AskClusterSpec, AskClusterPhot, AskClusterLbol, AskClusterWinds, AskCluster, Call, GalInv, PopInv, Base
<1>3. PICK g, old : g = gal' /\ old = gal  OBVIOUS
<1>4. sc \in Controls  BY DEF GalInv, PopInv, Base
<1>5. GalOk(old) /\ IsGal(old)  BY <1>1, <1>3, GalPopOk DEF GalPop
<1>6. \/ \E i \in DOMAIN old.clusters :
           \/ g = [old EXCEPT !.clusters[i] = WithSpec(old.clusters[i])]
           \/ g = [old EXCEPT !.clusters[i] = WithPhot(old.clusters[i])]
           \/ g = [old EXCEPT !.clusters[i] = WithLbol(old.clusters[i])]
           \/ g = [old EXCEPT !.clusters[i] = WithWinds(old.clusters[i])]
      \/ \E i \in DOMAIN old.disrupted :
           \/ g = [old EXCEPT !.disrupted[i] = WithSpec(old.disrupted[i])]
           \/ g = [old EXCEPT !.disrupted[i] = WithPhot(old.disrupted[i])]
           \/ g = [old EXCEPT !.disrupted[i] = WithLbol(old.disrupted[i])]
           \/ g = [old EXCEPT !.disrupted[i] = WithWinds(old.disrupted[i])]
  BY <1>3 DEF AskClusterSpec, AskClusterPhot, AskClusterLbol, AskClusterWinds, AskCluster
<1>7. ASSUME NEW l, l = old.clusters \/ l = old.disrupted, NEW i \in DOMAIN l PROVE IsCluster(l[i])
  BY <1>5, <1>7, ListPlaces DEF GalOk, Clusters
<1>8. GalTouched(g, old) /\ GalSums(g)
  <2>1. CASE \E i \in DOMAIN old.clusters : \E d : Touched(d, old.clusters[i]) /\ g = [old EXCEPT !.clusters[i] = d]
    <3>1. PICK i \in DOMAIN old.clusters : \E d : Touched(d, old.clusters[i]) /\ g = [old EXCEPT !.clusters[i] = d]
      BY <2>1
    <3>2. PICK d : Touched(d, old.clusters[i]) /\ g = [old EXCEPT !.clusters[i] = d]  BY <3>1
    <3>3. GalPop(old) /\ GalSums(old)  BY <1>1, <1>3
    <3>4. GalTouched([old EXCEPT !.clusters[i] = d], old) /\ GalSums([old EXCEPT !.clusters[i] = d])
      BY <3>2, <3>3, OneAsked
    <3> QED BY <3>2, <3>4
  <2>2. CASE \E i \in DOMAIN old.disrupted : \E d : Touched(d, old.disrupted[i]) /\ g = [old EXCEPT !.disrupted[i] = d]
    <3>1. PICK i \in DOMAIN old.disrupted : \E d : Touched(d, old.disrupted[i]) /\ g = [old EXCEPT !.disrupted[i] = d]
      BY <2>2
    <3>2. PICK d : Touched(d, old.disrupted[i]) /\ g = [old EXCEPT !.disrupted[i] = d]  BY <3>1
    <3>3. GalPop(old) /\ GalSums(old)  BY <1>1, <1>3
    <3>4. GalTouched([old EXCEPT !.disrupted[i] = d], old) /\ GalSums([old EXCEPT !.disrupted[i] = d])
      BY <3>2, <3>3, OneAsked
    <3> QED BY <3>2, <3>4
  <2>3. \A i \in DOMAIN old.clusters : /\ Touched(WithSpec(old.clusters[i]), old.clusters[i])
                                       /\ Touched(WithPhot(old.clusters[i]), old.clusters[i])
                                       /\ Touched(WithLbol(old.clusters[i]), old.clusters[i])
                                       /\ Touched(WithWinds(old.clusters[i]), old.clusters[i])
    BY <1>4, <1>7, EachTouches
  <2>4. \A i \in DOMAIN old.disrupted : /\ Touched(WithSpec(old.disrupted[i]), old.disrupted[i])
                                        /\ Touched(WithPhot(old.disrupted[i]), old.disrupted[i])
                                        /\ Touched(WithLbol(old.disrupted[i]), old.disrupted[i])
                                        /\ Touched(WithWinds(old.disrupted[i]), old.disrupted[i])
    BY <1>4, <1>7, EachTouches
  <2> QED BY <1>6, <2>1, <2>2, <2>3, <2>4
<1> QED BY <1>2, <1>3, <1>8 DEF Asked

\* What is known before the galaxy advances.
LEMMA ReadyHolds ==
  ASSUME PopInv, NEW t \in curTime .. MaxTime
  PROVE  Ready(t)
<1>1. t \in Nat /\ curTime <= t /\ t <= MaxTime  BY GalaxyAssumption DEF PopInv, Base
<1> QED BY <1>1 DEF Ready, PopInv, Base

\* A position on the tape.
LEMMA TapePlace ==
  ASSUME TapeOk, NEW p \in Nat
  PROVE  p % Len(tape) \in Nat
<1>1. Len(tape) \in Nat /\ Len(tape) # 0  BY DEF TapeOk
<1>2. PICK n \in Nat : n = Len(tape) /\ n > 0  BY <1>1
<1>3. p % n \in Nat  BY <1>2
<1> QED BY <1>2, <1>3

\* A step of the galaxy, as far as its stars are concerned.
Stepped(t, formed, g, dead) ==
  /\ formed = Formation(t)
  /\ g = [gal EXCEPT !.clusters = Staying(Aged(gal.clusters \o formed.clusters, t)),
                     !.disrupted = Aged(gal.disrupted, t) \o Leaving(Aged(gal.clusters \o formed.clusters, t)),
                     !.fieldStars = FieldAlive(gal.fieldStars \o formed.field, t),
                     !.fieldProps = FieldStarProps(FieldAlive(gal.fieldStars \o formed.field, t), t),
                     !.specCurrent = FALSE, !.photCurrent = FALSE, !.lbolCurrent = FALSE,
                     !.windsCurrent = FALSE, !.lbolCtsCurrent = FALSE]
  /\ dead = FieldDead(gal.fieldStars \o formed.field, t)
\* All there is to know of a step.
PopStepped(t, formed, g, dead) ==
  /\ FormedIs(formed, t) /\ (sc.fCluster = 2 => formed.field = <<>>)
  /\ ListsAged(g.clusters, g.disrupted, gal.clusters, gal.disrupted, formed, t)
  /\ FieldAged(g.fieldStars, dead, gal.fieldStars, FieldOf(census), formed.field, t)
  /\ FieldOf(census \cup Born(t, formed)) = FieldOf(census) \cup StarsOf(formed.field)
  /\ PopOk(g, census \cup Born(t, formed), t, formed.uid)
  /\ ~g.specCurrent /\ ~g.photCurrent /\ ~g.lbolCurrent /\ ~g.windsCurrent /\ ~g.lbolCtsCurrent

\* The population after a step is that of the census.
LEMMA StepIs ==
  ASSUME PopInv, NEW t \in curTime .. MaxTime, NEW formed, NEW g, NEW dead, Stepped(t, formed, g, dead)
  PROVE  PopStepped(t, formed, g, dead)
<1>1. Ready(t)  BY ReadyHolds
<1>2. FormedIs(formed, t) /\ (sc.fCluster = 2 => formed.field = <<>>)
  BY <1>1, FormationIs DEF Stepped
<1>3. PICK cs, ds, fs, F : cs = gal.clusters /\ ds = gal.disrupted /\ fs = gal.fieldStars /\ F = FieldOf(census)
  OBVIOUS
<1>4. PICK aged : aged = Aged(cs \o formed.clusters, t)  OBVIOUS
<1>5. /\ IsGal(g) /\ g.clusters = Staying(aged) /\ g.disrupted = Aged(ds, t) \o Leaving(aged)
      /\ g.fieldStars = FieldAlive(fs \o formed.field, t) /\ g.fieldProps = FieldStarProps(g.fieldStars, t)
      /\ ~g.specCurrent /\ ~g.photCurrent /\ ~g.lbolCurrent /\ ~g.windsCurrent /\ ~g.lbolCtsCurrent
      /\ dead = FieldDead(fs \o formed.field, t)
  BY <1>3, <1>4 DEF Stepped, PopInv, IsGal, GalFields
<1>6. ListsOk(cs, ds, curTime, nextUid) /\ FieldCensusOk(F, curTime) /\ FieldListOk(fs, F, curTime)
  BY <1>3 DEF PopInv
<1>7. ListsAged(g.clusters, g.disrupted, cs, ds, formed, t)
  BY <1>1, <1>2, <1>4, <1>5, <1>6, ListsAdvance
<1>8. FieldSorted(formed.field, t)  BY <1>2 DEF FormedIs
<1>9. FieldAged(g.fieldStars, dead, fs, F, formed.field, t)  BY <1>1, <1>5, <1>6, <1>8, FieldAdvance
<1>10. PICK S, T : S = ToSet(cs) \cup ToSet(ds) /\ T = S \cup ToSet(formed.clusters)  OBVIOUS
<1>11. CensusIs(census, S, curTime) /\ \A c \in S : ClusterCore(c)
  BY <1>3, <1>6, <1>10 DEF PopInv, ClustersOf, ListsOk, ClusterOk
<1>12. \A c \in T : AdvancedTo(AdvanceCluster(c, t), c, t)  BY <1>7, <1>10 DEF ListsAged
<1>13. CensusAged(census \cup Born(t, formed), {AdvanceCluster(c, t) : c \in T}, formed.field, t)
  BY <1>1, <1>2, <1>10, <1>11, <1>12, CensusAdvance
<1>14. ClustersOf(g) = {AdvanceCluster(c, t) : c \in T}  BY <1>7, <1>10 DEF ListsAged, ClustersOf
<1>15. FieldOf(census \cup Born(t, formed)) = F \cup StarsOf(formed.field)
  BY <1>3, <1>13 DEF CensusAged
<1>16. PopOk(g, census \cup Born(t, formed), t, formed.uid)
  <2>1. ListsOk(g.clusters, g.disrupted, t, formed.uid)  BY <1>7 DEF ListsAged
  <2>2. CensusIs(census \cup Born(t, formed), ClustersOf(g), t)  BY <1>13, <1>14 DEF CensusAged
  <2>3. FieldCensusOk(F \cup StarsOf(formed.field), t) /\ FieldListOk(g.fieldStars, F \cup StarsOf(formed.field), t)
    BY <1>9 DEF FieldAged
  <2> QED BY <1>5, <1>15, <2>1, <2>2, <2>3 DEF PopOk
<1> QED BY <1>2, <1>3, <1>5, <1>7, <1>9, <1>15, <1>16 DEF PopStepped

\* The galaxy advances.
LEMMA AdvanceStep ==
  ASSUME PopInv, NEW t \in curTime .. MaxTime, Advance(t)
  PROVE  \E formed : /\ Stepped(t, formed, gal', deadFieldStars')
                     /\ curTime' = t /\ rng' = formed.next % Len(tape) /\ nextUid' = formed.uid
                     /\ census' = census \cup Born(t, formed)
                     /\ UNCHANGED <<tape, sc, rate>> /\ ReleasedBy(t)
<1>1. PICK formed : formed = Formation(t)  OBVIOUS
<1>2. /\ ListsAfter(Aged(gal.clusters \o formed.clusters, t), Aged(gal.disrupted, t),
                    gal.fieldStars \o formed.field, t)
      /\ curTime' = t /\ rng' = formed.next % Len(tape) /\ nextUid' = formed.uid
      /\ census' = census \cup Born(t, formed) /\ UNCHANGED <<tape, sc, rate>> /\ ReleasedBy(t)
  BY <1>1 DEF Advance
<1>3. Stepped(t, formed, gal', deadFieldStars')  BY <1>1, <1>2 DEF ListsAfter, Stepped
<1> QED BY <1>2, <1>3

\* What the galaxy's results are summed of stays right as it advances.
LEMMA AdvanceKeeps ==
  ASSUME GalInv, NEW t \in curTime .. MaxTime, Advance(t)
  PROVE  GalInv'
<1>1. PICK formed : /\ Stepped(t, formed, gal', deadFieldStars')
                    /\ curTime' = t /\ rng' = formed.next % Len(tape) /\ nextUid' = formed.uid
                    /\ census' = census \cup Born(t, formed)
                    /\ UNCHANGED <<tape, sc, rate>>
  BY AdvanceStep DEF GalInv
<1>2. PICK g, dead, cens : g = gal' /\ dead = deadFieldStars' /\ cens = census'  OBVIOUS
<1>3. PopStepped(t, formed, g, dead)  BY <1>1, <1>2, StepIs DEF GalInv
<1>4. PopOk(g, cens, t, formed.uid)  BY <1>1, <1>2, <1>3 DEF PopStepped
<1>5. rng' \in Nat /\ nextUid' \in Nat
  <2>1. PICK k \in Nat : formed.uid = nextUid + k  BY <1>3 DEF PopStepped, FormedIs
  <2>2. nextUid \in Nat /\ TapeOk  BY DEF GalInv, PopInv, Base
  <2>3. formed.next \in Nat  BY <1>3 DEF PopStepped, FormedIs
  <2> QED BY <1>1, <2>1, <2>2, <2>3, TapePlace
<1>6. Base'
  <2>1. t \in Nat /\ t <= MaxTime  BY GalaxyAssumption DEF GalInv, PopInv, Base
  <2> QED BY <1>1, <1>5, <2>1 DEF Base, GalInv, PopInv, TapeOk
<1>7. PopInv'  BY <1>1, <1>2, <1>4, <1>6, PopPrimed
<1>8. NoField'
  <2>1. FieldOf(cens) = FieldOf(census) \cup StarsOf(formed.field)
    BY <1>1, <1>2, <1>3 DEF PopStepped
  <2>2. sc.fCluster = 2 => FieldOf(census) = {} /\ formed.field = <<>>
    BY <1>3 DEF PopStepped, GalInv, NoField
  <2>3. StarsOf(<<>>) = {}  BY DEF StarsOf, ToSet
  <2>4. sc.fCluster = 2 => FieldOf(cens) = {}  BY <2>1, <2>2, <2>3
  <2> QED BY <1>1, <1>2, <2>4 DEF NoField, FieldOf
<1>9. GalSums(gal)'  BY <1>2, <1>3 DEF PopStepped, GalSums, CtsKept
<1> QED BY <1>7, <1>8, <1>9 DEF GalInv

\* Rebuilding a cluster changes nothing but the generator's state.
LEMMA RebuildIsAsked ==
  ASSUME GalInv, Rebuild
  PROVE  Asked
<1>1. PICK g : g = gal  OBVIOUS
<1>2. GalPop(g) /\ GalSums(g)  BY <1>1, GalPopHolds DEF GalInv
<1>3. IsGal(g) /\ GalOk(g)  BY <1>2, GalPopOk DEF GalPop
<1>4. SameLists(g, g)  BY <1>3 DEF SameLists
<1>5. GalTouched(g, g)  BY <1>3, <1>4, GalUntouched
<1>6. rng' \in Nat
  <2>1. PICK c : rng' = RebuiltCluster(c.uid, c.targetMass, c.formTime, c.rngState, rng).next % Len(tape)
    BY DEF Rebuild
  <2>2. PICK p : p = AfterDisruption(rng)  OBVIOUS
  <2>3. rng \in Nat /\ TapeOk  BY DEF GalInv, PopInv, Base
  <2>4. p \in Nat  BY <2>2, <2>3 DEF AfterDisruption
  <2>5. rng' = p % Len(tape)  BY <2>1, <2>2 DEF RebuiltCluster
  <2> QED BY <2>3, <2>4, <2>5, TapePlace
<1>7. UNCHANGED <<tape, sc, curTime, rate, yields, fieldYields, lastYieldTime, stochSNe, nonStochSNe,
                   lastFeedbackTime, nextUid, census>> /\ g = gal'
  BY <1>1 DEF Rebuild, Call
<1> QED BY <1>1, <1>2, <1>5, <1>6, <1>7 DEF Asked

\* A draw for which there is room is a number.
LEMMA RateIsNat ==
  ASSUME Init
  PROVE  rate \in Nat /\ rng \in Nat /\ TapeOk /\ sc \in Controls
<1>1. TapeOk /\ sc \in Controls  BY TapeAssumption DEF Init, TapeOk
<1>2. rng \in Nat  BY DEF Init, Construct
<1>3. rate \in Nat
  <2>1. MinRate \in Nat /\ MaxRate \in Nat /\ MinRate <= MaxRate  BY GalaxyAssumption
  <2>2. PICK p \in Nat : p = 0  OBVIOUS
  <2>3. PICK lo \in Int, hi \in Int : lo = MinRate /\ hi = MaxRate /\ lo <= hi  BY <2>1
  <2>4. lo <= hi  BY <2>3
  <2>5. DrawAt(p, lo, hi) \in lo .. hi  BY <1>1, <2>4, DrawAtInRange
  <2>6. DrawAt(0, MinRate, MaxRate) \in Nat  BY <2>1, <2>2, <2>3, <2>5
  <2> QED BY <2>1, <2>6 DEF Init, Construct
<1> QED BY <1>1, <1>2, <1>3

\* Before anything has formed.
LEMMA InitPopulation ==
  ASSUME Init
  PROVE  GalInv
<1>1. Base  BY RateIsNat, GalaxyAssumption DEF Base, Init, Construct
<1>2. /\ gal.clusters = <<>> /\ gal.disrupted = <<>> /\ gal.fieldStars = <<>> /\ gal.fieldProps = <<>>
      /\ gal.lbolCtsCurrent = FALSE /\ census = {} /\ curTime = 0 /\ nextUid = 0
      /\ gal.spec = EmptySpec /\ gal.phot = EmptySpec /\ gal.lbol = EmptyBag /\ gal.winds = EmptyBag
  BY DEF Init, Construct
<1>3. IsGal(gal)  BY DEF Init, Construct, IsGal, GalFields
<1>4. ToSet(<<>>) = {}  BY DEF ToSet
<1>5. <<>> \in Seq({}) /\ IsInjective(<<>>) /\ DOMAIN <<>> = {}  BY DEF IsInjective
<1>6. ListsOk(gal.clusters, gal.disrupted, curTime, nextUid)
  BY <1>2, <1>4, <1>5 DEF ListsOk, Distinct
<1>7. ClustersOf(gal) = {}  BY <1>2, <1>4 DEF ClustersOf
<1>8. FieldOf(census) = {} /\ SlotsAt(curTime) = {} /\ SlotLit(curTime) = {}
  BY <1>2 DEF FieldOf, SlotsAt, SlotsBorn, SlotLit
<1>9. CensusIs(census, ClustersOf(gal), curTime)  BY <1>2, <1>7, <1>8 DEF CensusIs, MembersOf
<1>10. FieldCensusOk(FieldOf(census), curTime)  BY <1>8 DEF FieldCensusOk
<1>11. FieldListOk(gal.fieldStars, FieldOf(census), curTime)
  BY <1>2, <1>4, <1>5, <1>8 DEF FieldListOk, StarsOf
<1>12. gal.fieldProps = FieldStarProps(gal.fieldStars, curTime)
  <2>1. FieldStarProps(<<>>, curTime) = <<>>  BY DEF FieldStarProps
  <2> QED BY <1>2, <2>1
<1>13. FieldLit(gal) = {}  BY <1>2 DEF FieldLit
<1>14. AllLit(gal) = {} /\ ExtinctLit(gal) = {} /\ NebExtinctLit(gal) = {}
  <2>1. Rest(gal) = {} /\ Extinguished({}, 0) = {}  BY <1>8, <1>13 DEF Rest, Extinguished
  <2> QED BY <1>7, <2>1 DEF AllLit, ExtinctLit, NebExtinctLit, LightIn, ExtinctIn, NebExtinctIn
<1>15. GalSpecIs(gal, EmptySpec)  BY <1>14, BagOfNothing DEF GalSpecIs, EmptySpec
<1>16. GalSums(gal)  BY <1>2, <1>14, <1>15, BagOfNothing DEF GalSums, CtsKept
<1>17. NoField  BY <1>8 DEF NoField
<1> QED BY <1>1, <1>3, <1>6, <1>9, <1>10, <1>11, <1>12, <1>16, <1>17 DEF GalInv, PopInv

\* Nothing happens.
LEMMA StutterIsAsked ==
  ASSUME GalInv, UNCHANGED vars
  PROVE  Asked
<1>1. PICK g : g = gal  OBVIOUS
<1>2. GalPop(g) /\ GalSums(g)  BY <1>1, GalPopHolds DEF GalInv
<1>3. IsGal(g) /\ GalOk(g)  BY <1>2, GalPopOk DEF GalPop
<1>4. SameLists(g, g)  BY <1>3 DEF SameLists
<1>5. GalTouched(g, g)  BY <1>3, <1>4, GalUntouched
<1>6. UNCHANGED <<tape, sc, curTime, rate, yields, fieldYields, lastYieldTime, stochSNe, nonStochSNe,
                   lastFeedbackTime, nextUid, census>> /\ g = gal' /\ rng' \in Nat
  BY <1>1 DEF vars, GalInv, PopInv, Base
<1> QED BY <1>1, <1>2, <1>5, <1>6 DEF Asked

\* The galaxy advances, or it is asked for results, or nothing happens.
LEMMA StepOrAsked ==
  ASSUME GalInv, [Next]_vars
  PROVE  (\E t \in curTime .. MaxTime : Advance(t)) \/ Asked
<1>1. CASE AskSpec \/ AskPhot \/ AskLbol \/ AskWinds  BY <1>1, AskIsAsked
<1>2. CASE AskClusterSpec \/ AskClusterPhot \/ AskClusterLbol \/ AskClusterWinds
  BY <1>2, AskClusterIsAsked
<1>3. CASE Rebuild  BY <1>3, RebuildIsAsked
<1>4. CASE UNCHANGED vars  BY <1>4, StutterIsAsked
<1> QED BY <1>1, <1>2, <1>3, <1>4 DEF Next

\* Whatever is asked for in between, the lists hold the stars of the census, and what is
\* marked current is their light.
THEOREM GalaxyInvariant == Spec => []GalInv
<1>1. Init => GalInv  BY InitPopulation
<1>2. GalInv /\ [Next]_vars => GalInv'
  <2> SUFFICES ASSUME GalInv, [Next]_vars PROVE GalInv'
    OBVIOUS
  <2>1. CASE \E t \in curTime .. MaxTime : Advance(t)  BY <2>1, AdvanceKeeps
  <2>2. CASE Asked  BY <2>2, AskedKeeps
  <2> QED BY <2>1, <2>2, StepOrAsked
<1> QED BY <1>1, <1>2, PTL DEF Spec

\* Who is in the census.
LEMMA CensusKinds ==
  ASSUME PopInv
  PROVE  /\ \A c \in ClustersOf(gal) : ClusterCore(c) /\ c.curTime = curTime /\ Members(c) \subseteq census
         /\ \A c \in ClustersOf(gal) : \A x \in census :
              x.src[1] \in {"star", "bin"} /\ x.src[2] = c.uid <=> x \in Members(c)
         /\ \A x \in census : x.src[1] \in {"star", "bin"} => \E c \in ClustersOf(gal) : x \in Members(c)
         /\ \A x \in census : x.src[1] \in {"star", "bin"} \/ x \in FieldOf(census) \/ x \in SlotsAt(curTime)
         /\ SlotsAt(curTime) \subseteq census
         /\ \A c, d \in ClustersOf(gal) : c.uid = d.uid => c = d
<1>1. PICK S, F, T : S = ClustersOf(gal) /\ F = FieldOf(census) /\ T = SlotsAt(curTime)  OBVIOUS
<1>2. TapeOk /\ sc \in Controls /\ ListsOk(gal.clusters, gal.disrupted, curTime, nextUid)
  BY DEF PopInv, Base
<1>3. \A c \in S : ClusterCore(c) /\ c.curTime = curTime
  BY <1>1, <1>2 DEF ListsOk, ClusterOk, ClustersOf
<1>4. \A c, d \in S : c.uid = d.uid => c = d  BY <1>1, <1>2 DEF ListsOk, Distinct, ClustersOf
<1>5. census = MembersOf(S) \cup F \cup T  BY <1>1 DEF PopInv, CensusIs
<1>6. \A c \in S : \A x \in Members(c) : x.src[1] \in {"star", "bin"} /\ x.src[2] = c.uid
  BY <1>2, <1>3, KindsApart
<1>7. \A x \in T : x.src[1] = "slot"  BY <1>1, <1>2, KindsApart
<1>8. \A x \in F : x.src[1] = "field"  BY <1>1 DEF FieldOf
<1>9. \A c \in S : Members(c) \subseteq census  BY <1>5, MembersOfIs
<1>10. \A x \in census : x.src[1] \in {"star", "bin"} => \E c \in S : x \in Members(c)
  BY <1>5, <1>7, <1>8, MembersOfIs
<1>11. \A c \in S : \A x \in census : x.src[1] \in {"star", "bin"} /\ x.src[2] = c.uid <=> x \in Members(c)
  BY <1>4, <1>6, <1>10
<1>12. \A x \in census : x.src[1] \in {"star", "bin"} \/ x \in F \/ x \in T
  BY <1>5, <1>6, MembersOfIs
<1> QED BY <1>1, <1>3, <1>4, <1>5, <1>9, <1>10, <1>11, <1>12

\* The clusters are those that are listed.
LEMMA AllAreListed ==
  ASSUME PopInv
  PROVE  AllClusters = ClustersOf(gal) /\ Distinct(Listed(gal))
<1>1. PICK g, now, uid : g = gal /\ now = curTime /\ uid = nextUid  OBVIOUS
<1>2. ListsOk(g.clusters, g.disrupted, now, uid)  BY <1>1 DEF PopInv
<1> QED BY <1>1, <1>2, ListedIs DEF AllClusters

\* The stars a cluster was born with are those of the census.
LEMMA StarsInCensus ==
  ASSUME PopInv, NEW c \in ClustersOf(gal)
  PROVE  StarSrcs(c) = {x.src : x \in {y \in census : y.src[1] = "star" /\ y.src[2] = c.uid}}
<1>1. ClusterCore(c) /\ Members(c) \subseteq census  BY CensusKinds
<1>2. \A x \in census : x.src[1] = "star" /\ x.src[2] = c.uid => x \in Members(c)  BY CensusKinds
<1>3. \A x \in BinSrcs(c) : x[1] = "bin"  BY DEF BinSrcs
<1>4. \A x \in StarSrcs(c) : x[1] = "star" /\ x[2] = c.uid  BY DEF StarSrcs
<1>5. ASSUME NEW z \in StarSrcs(c) PROVE \E y \in census : y.src[1] = "star" /\ y.src[2] = c.uid /\ z = y.src
  <2>1. PICK y : y = [src |-> z, born |-> c.formTime]  OBVIOUS
  <2>2. y \in Members(c) /\ y.src = z  BY <2>1 DEF Members
  <2> QED BY <1>1, <1>4, <2>2
<1>6. ASSUME NEW y \in census, y.src[1] = "star", y.src[2] = c.uid PROVE y.src \in StarSrcs(c)
  <2>1. y \in Members(c)  BY <1>2, <1>6
  <2>2. y.src \in StarSrcs(c) \cup BinSrcs(c)  BY <2>1 DEF Members
  <2> QED BY <1>3, <1>6, <2>2
<1> QED BY <1>5, <1>6

\* A cluster built anew from the state recorded of one has its stars.
LEMMA ReplayHolds ==
  ASSUME PopInv
  PROVE  ReplayExact
<1>1. SUFFICES ASSUME NEW c \in AllClusters, NEW copy,
                      copy = RebuiltCluster(c.uid, c.targetMass, c.formTime, c.rngState, rng).cluster
               PROVE  /\ copy.feH = c.feH /\ copy.aV = c.aV /\ copy.avNeb = c.avNeb
                      /\ copy.birthMass = c.birthMass
                      /\ {s.src : s \in ToSet(copy.stars)}
                           = {x.src : x \in {y \in census : y.src[1] = "star" /\ y.src[2] = c.uid}}
  BY DEF ReplayExact
<1>2. c \in ClustersOf(gal)  BY AllAreListed
<1>3. ClusterCore(c)  BY <1>2, CensusKinds
<1>4. TapeOk /\ sc \in Controls  BY DEF PopInv, Base
<1>5. PICK uid \in Nat, mass \in Nat, time \in Nat \ {0}, p \in Nat, q \in Nat :
           uid = c.uid /\ mass = c.targetMass /\ time = c.formTime /\ p = c.rngState /\ q = rng
  BY <1>3 DEF ClusterCore, BirthKept, PopInv, Base
<1>6. time <= MaxTime
  <2>1. c.curTime \in Nat /\ c.formTime <= c.curTime /\ c.curTime <= MaxTime
    BY <1>3 DEF ClusterCore, TimesKept
  <2>2. MaxTime \in Nat  BY GalaxyAssumption
  <2> QED BY <1>5, <2>1, <2>2
<1>7. ReplayedDraws(mass, p) = BirthDraws(mass, p)  BY ReplayIsBirth
<1>8. copy = Constructed(uid, mass, time, p, BirthDraws(mass, p), q)
  BY <1>1, <1>5, <1>7 DEF RebuiltCluster
<1>9. IsBirth(copy, uid, mass, time, p)
  <2>1. MaxTime < Never  BY GalaxyAssumption
  <2> QED BY <1>4, <1>6, <1>8, <2>1, ConstructedIs
<1>10. copy.uid = c.uid /\ copy.targetMass = c.targetMass /\ copy.rngState = c.rngState
  BY <1>5, <1>9 DEF IsBirth
<1>11. BirthKept(copy) /\ BirthKept(c)  BY <1>3, <1>9 DEF IsBirth, ClusterCore
<1>12. /\ copy.feH = c.feH /\ copy.aV = c.aV /\ copy.avNeb = c.avNeb
       /\ copy.birthMass = c.birthMass
  BY <1>10, <1>11 DEF BirthKept
<1>13. {s.src : s \in ToSet(copy.stars)} = StarSrcs(copy)  BY <1>9 DEF IsBirth, Fresh
<1>14. StarSrcs(copy) = StarSrcs(c)  BY <1>10 DEF StarSrcs, BirthMasses
<1> QED BY <1>2, <1>12, <1>13, <1>14, StarsInCensus

LiveSrcs(c) == {s.src : s \in ToSet(c.stars)}
\* The stars in the lists of the clusters, one cluster after the other.
LEMMA ClusterStarsSummed ==
  ASSUME PopInv
  PROVE  SumOverClusters(LAMBDA c : {s.src : s \in ToSet(c.stars)}, gal)
           = SetToBag(UNION {LiveSrcs(c) : c \in ClustersOf(gal)})
<1>1. PICK g, l : g = gal /\ l = Listed(g)  OBVIOUS
<1>2. Distinct(l) /\ ToSet(l) = ClustersOf(g) /\ ClustersOf(g) = ClustersOf(gal)
  BY <1>1, AllAreListed DEF AllClusters
<1>3. PICK n \in Nat : n = Len(l) /\ DOMAIN l = 1 .. n /\ \A i \in 1 .. n : l[i] \in ToSet(l)
  BY <1>2, ListPlaces DEF Distinct
<1>4. PICK sets : sets = [c \in ToSet(l) |-> LiveSrcs(c)]  OBVIOUS
<1>5. PICK bags : bags = [i \in 1 .. n |-> SetToBag(sets[l[i]])]  OBVIOUS
<1>6. \A c \in ToSet(l) : sets[c] = LiveSrcs(c)  BY <1>4
<1>7. \A c \in ToSet(l) : \A x \in LiveSrcs(c) : x[2] = c.uid
  <2>1. ASSUME NEW c \in ToSet(l), NEW x \in LiveSrcs(c) PROVE x[2] = c.uid
    <3>1. ClusterCore(c)  BY <1>2, CensusKinds
    <3>2. x \in StarSrcs(c)  BY <2>1, <3>1 DEF ClusterCore, StarsKept, LiveSrcs
    <3> QED BY <3>2 DEF StarSrcs
  <2> QED BY <2>1
<1>8. \A c, d \in ToSet(l) : c.uid # d.uid => sets[c] \cap sets[d] = {}  BY <1>6, <1>7
<1>9. SumOf(bags) = SetToBag(UNION {sets[c] : c \in ToSet(l)})
  BY <1>2, <1>3, <1>5, <1>8, SumOverSets
<1>10. {sets[c] : c \in ToSet(l)} = {LiveSrcs(c) : c \in ToSet(l)}  BY <1>6
<1>11. bags = [i \in DOMAIN l |-> SetToBag(LiveSrcs(l[i]))]  BY <1>3, <1>5, <1>6
<1>12. SumOverClusters(LAMBDA c : {s.src : s \in ToSet(c.stars)}, g) = SumOf([i \in DOMAIN l |-> SetToBag(LiveSrcs(l[i]))])
  BY <1>1 DEF SumOverClusters, Each, LiveSrcs
<1> QED BY <1>1, <1>2, <1>9, <1>10, <1>11, <1>12

\* A star is in one list, its cluster's or the field's, as long as it lives.
LEMMA PopulationHolds ==
  ASSUME PopInv
  PROVE  PopulationKept
<1>1. PICK S, F, fs, now : S = ClustersOf(gal) /\ F = FieldOf(census) /\ fs = gal.fieldStars /\ now = curTime
  OBVIOUS
<1>2. PICK A, B : A = UNION {LiveSrcs(c) : c \in S} /\ B = {s.src : s \in ToSet(fs)}  OBVIOUS
<1>3. now \in Nat /\ FieldCensusOk(F, now) /\ FieldListOk(fs, F, now) /\ TapeOk /\ sc \in Controls
  BY <1>1 DEF PopInv, Base
<1>4. /\ \A c \in S : ClusterCore(c) /\ c.curTime = now /\ Members(c) \subseteq census
      /\ \A x \in census : x.src[1] \in {"star", "bin"} => \E c \in S : x \in Members(c)
  BY <1>1, CensusKinds
<1>5. \A c \in S : LiveSrcs(c) = {x \in StarSrcs(c) : DeathAt(c, x) >= now}
  BY <1>4 DEF ClusterCore, StarsKept, LiveSrcs
<1>6. \A c \in S : (\A x \in StarSrcs(c) : x[1] = "star" /\ DeathAt(c, x) \in Nat) /\ (\A x \in BinSrcs(c) : x[1] = "bin")
  <2>1. ASSUME NEW c \in S PROVE c.targetMass \in Nat /\ c.rngState \in Nat /\ c.formTime \in Nat
    BY <1>4 DEF ClusterCore, BirthKept
  <2> QED BY <1>3, <2>1, ClusterStars
<1>7. StarsOf(fs) = {x \in F : DeathOf(x) >= now} /\ \A x \in F : DeathOf(x) \in Nat /\ x.src[1] = "field"
  BY <1>3, OldFieldStars DEF FieldListOk, FieldCensusOk
<1>8. B = {x.src : x \in {y \in F : DeathOf(y) >= now}}
  <2>1. B = {x.src : x \in StarsOf(fs)}
    <3>1. ASSUME NEW z \in B PROVE z \in {x.src : x \in StarsOf(fs)}
      <4>1. PICK s \in ToSet(fs) : z = s.src  BY <1>2
      <4>2. StarOf(s) \in StarsOf(fs) /\ StarOf(s).src = z  BY <4>1 DEF StarsOf, StarOf
      <4> QED BY <4>2
    <3>2. ASSUME NEW z \in {x.src : x \in StarsOf(fs)} PROVE z \in B
      BY <1>2 DEF StarsOf, StarOf
    <3> QED BY <3>1, <3>2
  <2> QED BY <1>7, <2>1
<1>9. \A x \in A : x[1] = "star"  BY <1>2, <1>5, <1>6
<1>10. \A x \in B : x[1] = "field"  BY <1>7, <1>8
<1>11. A \cup B = {x.src : x \in {y \in Alive : y.src[1] \in {"star", "field"}}}
  <2>1. \A x \in census : x \in Alive <=> ~(DeathOf(x) < now)  BY <1>1 DEF Alive, Dead
  <2>2. \A c \in S : \A x \in Members(c) : x.src \in StarSrcs(c) \cup BinSrcs(c) /\ DeathOf(x) = DeathAt(c, x.src)
    BY DEF Members, DeathOf, DeathAt
  <2>3. ASSUME NEW z \in A PROVE \E y \in Alive : y.src[1] \in {"star", "field"} /\ z = y.src
    <3>1. PICK c \in S : z \in LiveSrcs(c)  BY <1>2
    <3>2. z \in StarSrcs(c) /\ DeathAt(c, z) >= now /\ DeathAt(c, z) \in Nat /\ z[1] = "star"
      BY <1>5, <1>6, <3>1
    <3>3. PICK y : y = [src |-> z, born |-> c.formTime]  OBVIOUS
    <3>4. y \in Members(c) /\ y.src = z  BY <3>2, <3>3 DEF Members
    <3>5. y \in census /\ DeathOf(y) = DeathAt(c, z)  BY <1>4, <2>2, <3>4
    <3>6. y \in Alive  BY <1>3, <2>1, <3>2, <3>5
    <3> QED BY <3>2, <3>4, <3>6
  <2>4. ASSUME NEW z \in B PROVE \E y \in Alive : y.src[1] \in {"star", "field"} /\ z = y.src
    <3>1. PICK y \in F : DeathOf(y) >= now /\ z = y.src  BY <1>8
    <3>2. y \in census /\ y.src[1] = "field"  BY <1>1, <3>1 DEF FieldOf
    <3>3. y \in Alive  BY <1>3, <1>7, <2>1, <3>1, <3>2
    <3> QED BY <3>1, <3>2, <3>3
  <2>5. ASSUME NEW y \in Alive, y.src[1] = "star" PROVE y.src \in A
    <3>1. y \in census /\ ~(DeathOf(y) < now)  BY <2>1 DEF Alive
    <3>2. PICK c \in S : y \in Members(c)  BY <1>4, <2>5, <3>1
    <3>3. y.src \in StarSrcs(c) /\ DeathOf(y) = DeathAt(c, y.src) /\ DeathAt(c, y.src) \in Nat
      BY <1>6, <2>2, <2>5, <3>2
    <3>4. y.src \in LiveSrcs(c)  BY <1>3, <1>5, <3>1, <3>3
    <3> QED BY <1>2, <3>4
  <2>6. ASSUME NEW y \in Alive, y.src[1] = "field" PROVE y.src \in B
    <3>1. y \in census /\ ~(DeathOf(y) < now)  BY <2>1 DEF Alive
    <3>2. y \in F  BY <1>1, <2>6, <3>1 DEF FieldOf
    <3> QED BY <1>3, <1>7, <1>8, <3>1, <3>2
  <2> QED BY <2>3, <2>4, <2>5, <2>6
<1>12. SetToBag(A) (+) SetToBag(B) = SetToBag({x.src : x \in {y \in Alive : y.src[1] \in {"star", "field"}}})
  <2>1. A \cap B = {}  BY <1>9, <1>10
  <2> QED BY <1>11, <2>1, BagsOfSets
<1>13. SumOverClusters(LAMBDA c : {s.src : s \in ToSet(c.stars)}, gal) = SetToBag(A)
  BY <1>1, <1>2, ClusterStarsSummed
<1>14. \A c \in ToSet(gal.clusters) : curTime <= c.disruptTime
  <2>1. \A c \in ToSet(gal.clusters) : ~c.isDisrupted /\ c \in S
    BY <1>1 DEF PopInv, ListsOk, ClustersOf
  <2>2. \A c \in S : (c.isDisrupted <=> now > c.disruptTime) /\ c.disruptTime \in Nat
    BY <1>4 DEF ClusterCore, TimesKept
  <2> QED BY <1>1, <1>3, <2>1, <2>2
<1>15. \A c \in ToSet(gal.disrupted) : curTime > c.disruptTime
  <2>1. \A c \in ToSet(gal.disrupted) : c.isDisrupted /\ c \in S
    BY <1>1 DEF PopInv, ListsOk, ClustersOf
  <2>2. \A c \in S : (c.isDisrupted <=> now > c.disruptTime) /\ c.disruptTime \in Nat
    BY <1>4 DEF ClusterCore, TimesKept
  <2> QED BY <1>1, <1>3, <2>1, <2>2
<1>16. /\ \A i, j \in DOMAIN gal.fieldStars :
            i <= j => gal.fieldStars[i].formTime <= gal.fieldStars[j].formTime
       /\ gal.fieldProps = FieldStarProps(gal.fieldStars, curTime)
  BY DEF PopInv, FieldListOk
<1> QED BY <1>1, <1>2, <1>12, <1>13, <1>14, <1>15, <1>16 DEF PopulationKept

Ray(x) == <<x.src, curTime - x.born>>

\* The stars a mass of which is alive at an age.
LEMMA AliveMasses ==
  ASSUME NEW m \in 1 .. MaxMass, NEW age \in Nat
  PROVE  m \in LiveMasses(age) <=> m >= MinTrack /\ StarLifetimeClamped(m) >= age
<1>1. MaxMass \in Nat /\ MinTrack \in 1 .. MaxMass  BY TracksAssumption
<1>2. CASE m < MinTrack  BY <1>1, <1>2 DEF LiveMasses
<1>3. CASE m >= MinTrack
  <2>1. m \in MinTrack .. MaxMass /\ StarLifetimeClamped(m) = Lifetime[m]
    BY <1>1, <1>3 DEF StarLifetimeClamped
  <2> QED BY <1>3, <2>1 DEF LiveMasses
<1> QED BY <1>1, <1>2, <1>3

\* The light of a cluster is that of its members that shine.
LEMMA LightIsTrue ==
  ASSUME PopInv, NEW c \in ClustersOf(gal)
  PROVE  LightOf(c) = {Ray(x) : x \in {y \in Shining : y \in Members(c)}}
<1>1. PICK now, F, age : now = curTime /\ F = c.formTime /\ age = c.isoAge  OBVIOUS
<1>2. now \in Nat /\ TapeOk /\ sc \in Controls  BY <1>1 DEF PopInv, Base
<1>3. ClusterCore(c) /\ c.curTime = now /\ Members(c) \subseteq census  BY <1>1, CensusKinds
<1>4. F \in Nat /\ F <= now /\ age = now - F /\ age \in Nat
  BY <1>1, <1>2, <1>3 DEF ClusterCore, BirthKept, TimesKept
<1>5. c.targetMass \in Nat /\ c.rngState \in Nat /\ c.formTime \in Nat
  BY <1>3 DEF ClusterCore, BirthKept
<1>6. /\ \A x \in StarSrcs(c) \cup BinSrcs(c) : x[4] \in 1 .. MaxMass
      /\ \A x \in StarSrcs(c) \cup BinSrcs(c) : DeathAt(c, x) = F + StarLifetimeClamped(x[4])
      /\ \A x \in StarSrcs(c) \cup BinSrcs(c) : StarLifetimeClamped(x[4]) \in Nat
  <2>1. \A x \in StarSrcs(c) \cup BinSrcs(c) : x[4] \in 1 .. MaxMass  BY <1>2, <1>5, ClusterStars
  <2> QED BY <1>1, <2>1, LifetimesAreNat DEF DeathAt
<1>7. \A x \in StarSrcs(c) \cup BinSrcs(c) : x[4] \in LiveMasses(age) <=> x[4] >= MinTrack /\ DeathAt(c, x) >= now
  <2>1. ASSUME NEW x \in StarSrcs(c) \cup BinSrcs(c)
        PROVE  x[4] \in LiveMasses(age) <=> x[4] >= MinTrack /\ DeathAt(c, x) >= now
    <3>1. PICK m \in 1 .. MaxMass : m = x[4]  BY <1>6
    <3>2. m \in LiveMasses(age) <=> m >= MinTrack /\ StarLifetimeClamped(m) >= age
      BY <1>4, AliveMasses
    <3>3. PICK life \in Nat : life = StarLifetimeClamped(m)  BY LifetimesAreNat
    <3>4. life >= age <=> F + life >= now  BY <1>2, <1>4, <3>3
    <3>5. DeathAt(c, x) = F + life  BY <1>6, <3>1, <3>3
    <3> QED BY <3>1, <3>2, <3>3, <3>4, <3>5
  <2> QED BY <2>1
<1>8. StarsShining(c) \cup BinsShining(c) = {x \in StarSrcs(c) \cup BinSrcs(c) : x[4] \in LiveMasses(age)}
  <2>1. {s.src : s \in ToSet(c.stars)} = {x \in StarSrcs(c) : DeathAt(c, x) >= now}
    BY <1>3 DEF ClusterCore, StarsKept
  <2>2. StarsShining(c) = {x \in StarSrcs(c) : x[4] \in LiveMasses(age)}
    <3>1. ASSUME NEW z \in StarsShining(c) PROVE z \in StarSrcs(c) /\ z[4] \in LiveMasses(age)
      <4>1. PICK s \in ToSet(c.stars) : s.src[4] \in LiveMasses(c.isoAge) /\ z = s.src
        BY DEF StarsShining
      <4> QED BY <1>1, <2>1, <4>1
    <3>2. ASSUME NEW z \in StarSrcs(c), z[4] \in LiveMasses(age) PROVE z \in StarsShining(c)
      <4>1. DeathAt(c, z) >= now  BY <1>7, <3>2
      <4>2. PICK s \in ToSet(c.stars) : z = s.src  BY <2>1, <3>2, <4>1
      <4> QED BY <1>1, <3>2, <4>2 DEF StarsShining
    <3> QED BY <3>1, <3>2
  <2>3. BinsShining(c) = {x \in BinSrcs(c) : x[4] \in LiveMasses(age)}
    BY <1>1 DEF BinsShining, BinSrcs
  <2> QED BY <2>2, <2>3
<1>9. \A x \in Members(c) : x \in Shining <=> x.src[4] \in LiveMasses(age)
  <2>1. ASSUME NEW x \in Members(c) PROVE x \in Shining <=> x.src[4] \in LiveMasses(age)
    <3>1. x \in census /\ x.src \in StarSrcs(c) \cup BinSrcs(c) /\ x.born = F
      BY <1>1, <1>3 DEF Members
    <3>2. DeathOf(x) = DeathAt(c, x.src) /\ DeathAt(c, x.src) \in Nat
      BY <1>1, <1>4, <1>6, <3>1 DEF DeathOf, DeathAt
    <3>3. x \in Alive <=> DeathAt(c, x.src) >= now  BY <1>1, <1>2, <3>1, <3>2 DEF Alive, Dead
    <3> QED BY <1>7, <3>1, <3>3 DEF Shining
  <2> QED BY <2>1
<1>10. \A x \in Members(c) : Ray(x) = <<x.src, age>>  BY <1>1, <1>4 DEF Ray, Members
<1>11. ASSUME NEW y \in LightOf(c) PROVE \E x \in Shining : x \in Members(c) /\ y = Ray(x)
  <2>1. PICK src \in StarsShining(c) \cup BinsShining(c) : y = <<src, age>>  BY <1>1 DEF LightOf
  <2>2. src \in StarSrcs(c) \cup BinSrcs(c) /\ src[4] \in LiveMasses(age)  BY <1>8, <2>1
  <2>3. PICK x : x = [src |-> src, born |-> c.formTime]  OBVIOUS
  <2>4. x \in Members(c) /\ x.src = src  BY <2>2, <2>3 DEF Members
  <2> QED BY <1>9, <1>10, <2>1, <2>2, <2>4
<1>12. ASSUME NEW x \in Shining, x \in Members(c) PROVE Ray(x) \in LightOf(c)
  <2>1. x.src \in StarSrcs(c) \cup BinSrcs(c)  BY <1>12 DEF Members
  <2>2. x.src \in StarsShining(c) \cup BinsShining(c)  BY <1>8, <1>9, <1>12, <2>1
  <2> QED BY <1>1, <1>10, <1>12, <2>2 DEF LightOf
<1> QED BY <1>11, <1>12

\* The light of the field is that of its stars that shine.
LEMMA FieldIsTrue ==
  ASSUME PopInv
  PROVE  FieldLit(gal) = {Ray(x) : x \in {y \in Shining : y \in FieldOf(census)}}
<1>1. PICK now, F, fs : now = curTime /\ F = FieldOf(census) /\ fs = gal.fieldStars  OBVIOUS
<1>2. now \in Nat /\ FieldCensusOk(F, now) /\ FieldListOk(fs, F, now) /\ gal.fieldProps = FieldStarProps(fs, now)
  BY <1>1 DEF PopInv, Base
<1>3. \A x \in F : DeathOf(x) \in Nat /\ x.born \in Nat /\ x.born <= now /\ x.src[4] \in 1 .. MaxMass
  BY <1>2, OldFieldStars DEF FieldCensusOk
<1>4. StarsOf(fs) = {x \in F : DeathOf(x) >= now}  BY <1>2 DEF FieldListOk
<1>5. MinTrack \in Nat /\ MaxMass \in Nat  BY TracksAssumption
<1>6. \A x \in F : x \in Shining <=> DeathOf(x) >= now /\ x.src[4] \in MinTrack .. MaxMass
  BY <1>1, <1>2, <1>3, <1>5 DEF Shining, Alive, Dead, FieldOf
<1>7. \A j \in DOMAIN fs : /\ fs[j] \in ToSet(fs) /\ StarOf(fs[j]) \in F /\ DeathOf(StarOf(fs[j])) >= now
                           /\ StarOf(fs[j]).src = fs[j].src /\ StarOf(fs[j]).born = fs[j].formTime
  <2>1. \A j \in DOMAIN fs : fs[j] \in ToSet(fs)  BY DEF ToSet
  <2> QED BY <1>4, <2>1 DEF StarsOf, StarOf
<1>8. \A j \in DOMAIN fs : gal.fieldProps[j] = IF fs[j].src[4] \in MinTrack .. MaxMass THEN now - fs[j].formTime ELSE NoProps
  BY <1>2 DEF FieldStarProps
<1>9. \A j \in DOMAIN fs : gal.fieldProps[j] # NoProps <=> fs[j].src[4] \in MinTrack .. MaxMass
  <2>1. ASSUME NEW j \in DOMAIN fs PROVE now - fs[j].formTime # NoProps
    <3>1. fs[j].formTime \in Nat /\ fs[j].formTime <= now  BY <1>3, <1>7
    <3> QED BY <1>2, <3>1 DEF NoProps
  <2> QED BY <1>8, <2>1
<1>10. ASSUME NEW y \in FieldLit(gal) PROVE \E x \in Shining : x \in F /\ y = Ray(x)
  <2>1. PICK j \in DOMAIN fs : gal.fieldProps[j] # NoProps /\ y = <<fs[j].src, gal.fieldProps[j]>>
    BY <1>1 DEF FieldLit
  <2>2. PICK x : x = StarOf(fs[j])  OBVIOUS
  <2>3. x \in F /\ x \in Shining /\ x.src = fs[j].src /\ x.born = fs[j].formTime
    BY <1>6, <1>7, <1>9, <2>1, <2>2
  <2>4. gal.fieldProps[j] = now - x.born  BY <1>8, <1>9, <2>1, <2>3
  <2> QED BY <1>1, <2>1, <2>3, <2>4 DEF Ray
<1>11. ASSUME NEW x \in Shining, x \in F PROVE Ray(x) \in FieldLit(gal)
  <2>1. x \in StarsOf(fs) /\ x.src[4] \in MinTrack .. MaxMass  BY <1>4, <1>6, <1>11
  <2>2. PICK s \in ToSet(fs) : x = StarOf(s)  BY <2>1 DEF StarsOf
  <2>3. PICK j \in DOMAIN fs : s = fs[j]  BY <2>2 DEF ToSet
  <2>4. x.src = fs[j].src /\ x.born = fs[j].formTime  BY <2>2, <2>3 DEF StarOf
  <2>5. gal.fieldProps[j] # NoProps /\ gal.fieldProps[j] = now - x.born  BY <1>8, <1>9, <2>1, <2>4
  <2> QED BY <1>1, <2>4, <2>5 DEF FieldLit, Ray
<1> QED BY <1>1, <1>10, <1>11

\* The light that is integrated over is that of the slots.
LEMMA SlotsAreTrue ==
  ASSUME PopInv
  PROVE  SlotLit(curTime) = {Ray(x) : x \in {y \in Shining : y \in SlotsAt(curTime)}}
<1>1. PICK now, min : now = curTime /\ min = sc.minStoch  OBVIOUS
<1>2. now \in Nat /\ sc \in Controls /\ SlotsAt(now) \subseteq census
  BY <1>1, CensusKinds DEF PopInv, Base
<1>3. min \in 1 .. MaxMass + 1 /\ MaxMass \in Nat /\ MinTrack \in Nat
  BY <1>1, <1>2, ControlsAssumption, TracksAssumption
<1>4. CASE ~HasContinuous  BY <1>1, <1>4 DEF SlotLit, SlotsAt, SlotsBorn
<1>5. CASE HasContinuous
  <2>1. \A x : x \in SlotsAt(now) <=>
            \E s \in 1 .. now, m \in 1 .. min - 1 : x = [src |-> <<"slot", s, 0, m>>, born |-> s]
    BY <1>1, <1>5 DEF SlotsAt, SlotsBorn
  <2>2. ASSUME NEW s \in 1 .. now, NEW m \in 1 .. min - 1, NEW x, x = [src |-> <<"slot", s, 0, m>>, born |-> s]
        PROVE  /\ x \in Shining <=> m \in LiveMasses(now - s)
               /\ Ray(x) = << <<"slot", s, 0, m>>, now - s>>
    <3>1. x \in census  BY <1>2, <2>1, <2>2
    <3>2. m \in 1 .. MaxMass /\ now - s \in Nat /\ s \in Nat  BY <1>2, <1>3
    <3>3. PICK life \in Nat : life = StarLifetimeClamped(m)  BY <3>2, LifetimesAreNat
    <3>4. x.src[4] = m /\ x.born = s /\ x.src = <<"slot", s, 0, m>>  BY <2>2
    <3>5. DeathOf(x) = s + life  BY <3>3, <3>4 DEF DeathOf
    <3>6. x \in Alive <=> s + life >= now  BY <1>1, <1>2, <3>1, <3>2, <3>5 DEF Alive, Dead
    <3>7. m \in LiveMasses(now - s) <=> m >= MinTrack /\ life >= now - s  BY <3>2, <3>3, AliveMasses
    <3>8. life >= now - s <=> s + life >= now  BY <1>2, <3>2
    <3>9. x \in Shining <=> m \in LiveMasses(now - s)  BY <3>4, <3>6, <3>7, <3>8 DEF Shining
    <3> QED BY <1>1, <3>4, <3>9 DEF Ray
  <2>3. ASSUME NEW y \in SlotLit(now) PROVE \E x \in Shining : x \in SlotsAt(now) /\ y = Ray(x)
    <3>1. PICK s \in 1 .. now : y \in {<< <<"slot", s, 0, m>>, now - s>> : m \in LiveMasses(now - s) \cap 1 .. min - 1}
      BY <1>1, <1>5 DEF SlotLit
    <3>2. PICK m \in LiveMasses(now - s) \cap 1 .. min - 1 : y = << <<"slot", s, 0, m>>, now - s>>
      BY <3>1
    <3>3. PICK x : x = [src |-> <<"slot", s, 0, m>>, born |-> s]  OBVIOUS
    <3>4. m \in 1 .. min - 1  BY <3>2
    <3> QED BY <2>1, <2>2, <3>2, <3>3, <3>4
  <2>4. ASSUME NEW x \in Shining, x \in SlotsAt(now) PROVE Ray(x) \in SlotLit(now)
    <3>1. PICK s \in 1 .. now, m \in 1 .. min - 1 : x = [src |-> <<"slot", s, 0, m>>, born |-> s]
      BY <2>1, <2>4
    <3>2. m \in LiveMasses(now - s) /\ Ray(x) = << <<"slot", s, 0, m>>, now - s>>
      BY <2>2, <2>4, <3>1
    <3> QED BY <1>1, <1>5, <3>2 DEF SlotLit
  <2> QED BY <1>1, <2>3, <2>4
<1> QED BY <1>4, <1>5

\* The light of the clusters and of the field is that of the stars that shine.
LEMMA LightIsSummed ==
  ASSUME PopInv
  PROVE  /\ AllLit(gal) = TrueLight
         /\ \A c \in ClustersOf(gal) : LightOf(c) = TrueLightOf(c.uid)
<1>1. PICK S, F, T : S = ClustersOf(gal) /\ F = FieldOf(census) /\ T = SlotsAt(curTime)  OBVIOUS
<1>2. \A c \in S : LightOf(c) = {Ray(x) : x \in {y \in Shining : y \in Members(c)}}
  BY <1>1, LightIsTrue
<1>3. FieldLit(gal) = {Ray(x) : x \in {y \in Shining : y \in F}}  BY <1>1, FieldIsTrue
<1>4. SlotLit(curTime) = {Ray(x) : x \in {y \in Shining : y \in T}}  BY <1>1, SlotsAreTrue
<1>5. TrueLight = {Ray(x) : x \in Shining}  BY DEF TrueLight, Ray
<1>6. \A x \in Shining : x \in census /\ ((\E c \in S : x \in Members(c)) \/ x \in F \/ x \in T)
  BY <1>1, CensusKinds DEF Shining, Alive
<1>7. AllLit(gal) = LightIn(S) \cup FieldLit(gal) \cup SlotLit(curTime)  BY <1>1 DEF AllLit, Rest
<1>8. \A y : y \in LightIn(S) <=> \E c \in S : y \in LightOf(c)  BY DEF LightIn
<1>9. ASSUME NEW y \in AllLit(gal) PROVE y \in TrueLight
  <2>1. CASE y \in LightIn(S)
    <3>1. PICK c \in S : y \in LightOf(c)  BY <1>8, <2>1
    <3> QED BY <1>2, <1>5, <3>1
  <2>2. CASE y \in FieldLit(gal) \cup SlotLit(curTime)  BY <1>3, <1>4, <1>5, <2>2
  <2> QED BY <1>7, <1>9, <2>1, <2>2
<1>10. ASSUME NEW x \in Shining PROVE Ray(x) \in AllLit(gal)
  <2>1. CASE \E c \in S : x \in Members(c)
    <3>1. PICK c \in S : x \in Members(c)  BY <2>1
    <3>2. Ray(x) \in LightOf(c)  BY <1>2, <3>1
    <3> QED BY <1>7, <1>8, <3>2
  <2>2. CASE x \in F \/ x \in T  BY <1>3, <1>4, <1>7, <2>2
  <2> QED BY <1>6, <2>1, <2>2
<1>11. ASSUME NEW c \in S PROVE LightOf(c) = TrueLightOf(c.uid)
  <2>1. \A x \in census : x.src[1] \in {"star", "bin"} /\ x.src[2] = c.uid <=> x \in Members(c)
    BY <1>1, CensusKinds
  <2>2. \A x : Ray(x)[1] = x.src  BY DEF Ray
  <2>3. ASSUME NEW y \in LightOf(c) PROVE y \in TrueLightOf(c.uid)
    <3>1. PICK x \in Shining : x \in Members(c) /\ y = Ray(x)  BY <1>2, <2>3
    <3> QED BY <1>5, <1>6, <2>1, <2>2, <3>1 DEF TrueLightOf
  <2>4. ASSUME NEW y \in TrueLightOf(c.uid) PROVE y \in LightOf(c)
    <3>1. y \in TrueLight /\ y[1][1] \in {"star", "bin"} /\ y[1][2] = c.uid  BY <2>4 DEF TrueLightOf
    <3>2. PICK x \in Shining : y = Ray(x)  BY <1>5, <3>1
    <3>3. x \in Members(c)  BY <1>6, <2>1, <2>2, <3>1, <3>2
    <3> QED BY <1>2, <3>2, <3>3
  <2> QED BY <2>3, <2>4
<1> QED BY <1>1, <1>5, <1>9, <1>10, <1>11

\* The extinction of the light of a star is its cluster's.
LEMMA ExtinctionIsIts ==
  ASSUME PopInv, NoField
  PROVE  /\ ExtinctLit(gal) = {<<y[1], y[2], AVOf(y[1])>> : y \in TrueLight}
         /\ NebExtinctLit(gal) = {<<y[1], y[2], NebAVOf(y[1])>> : y \in TrueLight}
<1>1. PICK S, R : S = ClustersOf(gal) /\ R = Rest(gal)  OBVIOUS
<1>2. TapeOk /\ sc \in Controls /\ AllClusters = S /\ GalPop(gal)
  BY <1>1, AllAreListed, GalPopHolds DEF PopInv, Base
<1>3. \A c \in S : ClusterCore(c)  BY <1>1, CensusKinds
<1>4. \A c, d \in S : c.uid = d.uid => c = d  BY <1>1, CensusKinds
<1>5. \A c \in S : \A y \in LightOf(c) : y = <<y[1], y[2]>> /\ y[1][1] \in {"star", "bin"} /\ y[1][2] = c.uid
  BY <1>2, <1>3, LightIsOfCluster
<1>6. \A y \in R : y = <<y[1], y[2]>> /\ y[1][1] \in {"field", "slot"}
  <2>1. /\ \A y \in FieldLit(gal) : y = <<y[1], y[2]>> /\ y[1][1] = "field"
        /\ \A y \in SlotLit(curTime) : y = <<y[1], y[2]>> /\ y[1][1] = "slot"
    BY <1>2, RestIsNotCluster DEF GalPop
  <2> QED BY <1>1, <2>1 DEF Rest
<1>7. \A c \in S : \A y \in LightOf(c) : AVOf(y[1]) = c.aV /\ NebAVOf(y[1]) = c.avNeb
  <2>1. ASSUME NEW c \in S, NEW y \in LightOf(c) PROVE AVOf(y[1]) = c.aV /\ NebAVOf(y[1]) = c.avNeb
    <3>1. PICK src : src = y[1]  OBVIOUS
    <3>2. src[1] \in {"star", "bin"} /\ src[2] = c.uid  BY <1>5, <2>1, <3>1
    <3>3. (CHOOSE d \in S : d.uid = src[2]) = c  BY <1>4, <3>2
    <3> QED BY <1>2, <3>1, <3>2, <3>3 DEF AVOf, NebAVOf
  <2> QED BY <2>1
<1>8. \A y \in R : AVOf(y[1]) = 0 /\ NebAVOf(y[1]) = 0  BY <1>6 DEF AVOf, NebAVOf
<1>9. \A y : y \in TrueLight <=> (\E c \in S : y \in LightOf(c)) \/ y \in R
  BY <1>1, LightIsSummed DEF AllLit, LightIn
<1>10. \A z : z \in ExtinctLit(gal) <=> \/ \E c \in S : \E y \in LightOf(c) : z = <<y[1], y[2], c.aV>>
                                        \/ \E y \in R : z = <<y[1], y[2], 0>>
  BY <1>1 DEF ExtinctLit, ExtinctIn, Extinguished
<1>11. \A z : z \in NebExtinctLit(gal) <=> \/ \E c \in S : \E y \in LightOf(c) : z = <<y[1], y[2], c.avNeb>>
                                           \/ \E y \in R : z = <<y[1], y[2], 0>>
  BY <1>1 DEF NebExtinctLit, NebExtinctIn, Extinguished
<1>12. ASSUME NEW z PROVE z \in ExtinctLit(gal) <=> \E y \in TrueLight : z = <<y[1], y[2], AVOf(y[1])>>
  <2>1. ASSUME z \in ExtinctLit(gal) PROVE \E y \in TrueLight : z = <<y[1], y[2], AVOf(y[1])>>
    BY <1>7, <1>8, <1>9, <1>10, <2>1
  <2>2. ASSUME NEW y \in TrueLight, z = <<y[1], y[2], AVOf(y[1])>> PROVE z \in ExtinctLit(gal)
    BY <1>7, <1>8, <1>9, <1>10, <2>2
  <2> QED BY <2>1, <2>2
<1>13. ASSUME NEW z PROVE z \in NebExtinctLit(gal) <=> \E y \in TrueLight : z = <<y[1], y[2], NebAVOf(y[1])>>
  <2>1. ASSUME z \in NebExtinctLit(gal) PROVE \E y \in TrueLight : z = <<y[1], y[2], NebAVOf(y[1])>>
    BY <1>7, <1>8, <1>9, <1>11, <2>1
  <2>2. ASSUME NEW y \in TrueLight, z = <<y[1], y[2], NebAVOf(y[1])>> PROVE z \in NebExtinctLit(gal)
    BY <1>7, <1>8, <1>9, <1>11, <2>2
  <2> QED BY <2>1, <2>2
<1> QED BY <1>12, <1>13

\* What is marked current is the light of the stars that shine.
LEMMA CachesHold ==
  ASSUME GalInv
  PROVE  CachesCoherent
<1>1. PopInv /\ NoField /\ GalSums(gal)  BY DEF GalInv
<1>2. AllLit(gal) = TrueLight /\ \A c \in ClustersOf(gal) : LightOf(c) = TrueLightOf(c.uid)
  BY <1>1, LightIsSummed
<1>3. /\ ExtinctLit(gal) = {<<y[1], y[2], AVOf(y[1])>> : y \in TrueLight}
      /\ NebExtinctLit(gal) = {<<y[1], y[2], NebAVOf(y[1])>> : y \in TrueLight}
  BY <1>1, ExtinctionIsIts
<1>4. \A s : GalSpecIs(gal, s) => GalaxySpecIs(s)  BY <1>2, <1>3 DEF GalSpecIs, GalaxySpecIs, SpecIs
<1>5. /\ gal.specCurrent /\ sc.specsyn => GalaxySpecIs(gal.spec)
      /\ gal.photCurrent /\ sc.filters => GalaxySpecIs(gal.phot)
      /\ gal.lbolCurrent /\ sc.computeLbol => gal.lbol = SetToBag(TrueLight)
      /\ gal.windsCurrent => gal.winds = SetToBag(TrueLight)
  BY <1>1, <1>2, <1>4 DEF GalSums
<1>6. ASSUME NEW c \in AllClusters
      PROVE  /\ c.specCurrent /\ sc.specsyn => SpecIs(c.spec, TrueLightOf(c.uid))
             /\ c.photCurrent /\ sc.filters => SpecIs(c.phot, TrueLightOf(c.uid))
             /\ c.lbolCurrent /\ sc.computeLbol => c.lbol = TrueLightOf(c.uid)
             /\ c.windsCurrent => c.winds = TrueLightOf(c.uid)
  <2>1. c \in ClustersOf(gal)  BY <1>1, AllAreListed
  <2>2. CachesKept(c)  BY <1>1, <2>1 DEF PopInv, ListsOk, ClusterOk, ClustersOf
  <2>3. LightOf(c) = TrueLightOf(c.uid)  BY <1>2, <2>1
  <2> QED BY <2>2, <2>3 DEF CachesKept, ClusterSpecIs, SpecIs
<1> QED BY <1>5, <1>6 DEF CachesCoherent

\* Every star drawn is in one list until it dies, and the lists are those of the census.
THEOREM PopulationAlwaysKept == Spec => []PopulationKept
<1>1. GalInv => PopulationKept  BY PopulationHolds DEF GalInv
<1> QED BY <1>1, GalaxyInvariant, PTL

\* A cluster built anew from a recorded state is the cluster the state was recorded for.
THEOREM ReplayAlwaysExact == Spec => []ReplayExact
<1>1. GalInv => ReplayExact  BY ReplayHolds DEF GalInv
<1> QED BY <1>1, GalaxyInvariant, PTL

\* A result that is marked current is that of the stars now alive.
THEOREM CachesAlwaysCoherent == Spec => []CachesCoherent
<1>1. GalInv => CachesCoherent  BY CachesHold
<1> QED BY <1>1, GalaxyInvariant, PTL

IsRange(r) == r = <<r[1], r[2]>> /\ r[1] \in Int /\ r[2] \in Int
\* A sequence of ranges.
RangeSeq(R) == R \in Seq(ToSet(R)) /\ \A r \in ToSet(R) : IsRange(r)
Ascending(R, n) ==
  /\ \A i \in 1 .. n : R[i][1] < R[i][2]
  /\ \A i, k \in 1 .. n : i < k => R[i][2] <= R[k][1]
InRange(m, r) == m \in Int /\ r[1] <= m /\ m < r[2]

\* The masses of a sequence of ranges.
LEMMA MassesInIs ==
  ASSUME NEW R, RangeSeq(R), NEW m
  PROVE  m \in MassesIn(R) <=> \E r \in ToSet(R) : InRange(m, r)
<1>1. \A r \in ToSet(R) : r[1] \in Int /\ r[2] \in Int  BY DEF RangeSeq, IsRange
<1>2. \A r \in ToSet(R) : m \in r[1] .. r[2] - 1 <=> InRange(m, r)  BY <1>1 DEF InRange
<1>3. m \in MassesIn(R) <=> \E r \in ToSet(R) : m \in r[1] .. r[2] - 1  BY DEF MassesIn, ToSet
<1> QED BY <1>2, <1>3

RunEnd(S, m, e) == e > m /\ e \notin S /\ m .. e - 1 \subseteq S
\* A run of masses has an end.
LEMMA RunEnds ==
  ASSUME NEW M \in Nat, NEW S, S \subseteq 1 .. M, NEW m \in S
  PROVE  \E e \in {n + 1 : n \in S} : RunEnd(S, m, e)
<1>1. m \in Nat /\ m >= 1 /\ m <= M /\ M + 1 \notin S  OBVIOUS
<1>2. PICK T : T = {e \in Nat : e > m /\ e \notin S}  OBVIOUS
<1>3. T \subseteq Nat /\ M + 1 \in T  BY <1>1, <1>2
<1>4. PICK e \in T : \A x \in T : e <= x  BY <1>3, LeastNatural
<1>5. e \in Nat /\ e > m /\ e \notin S  BY <1>2, <1>4
<1>6. \A x \in m .. e - 1 : x \in S
  <2>1. ASSUME NEW x \in m .. e - 1, x \notin S PROVE FALSE
    <3>1. x \in Nat /\ x < e /\ x >= m /\ x # m  BY <1>1, <1>5, <2>1
    <3>2. x \in T  BY <1>1, <1>2, <2>1, <3>1
    <3> QED BY <1>4, <1>5, <3>1, <3>2
  <2> QED BY <2>1
<1>7. e - 1 \in S /\ e = (e - 1) + 1  BY <1>1, <1>5, <1>6
<1> QED BY <1>5, <1>6, <1>7 DEF RunEnd

\* A mass is in a run that starts somewhere.
LEMMA RunStarts ==
  ASSUME NEW M \in Nat, NEW S, S \subseteq 1 .. M, NEW x \in S
  PROVE  \E m \in S : m - 1 \notin S /\ m <= x /\ m .. x \subseteq S
<1>1. PICK T : T = {m \in Nat : m >= 1 /\ m <= x /\ m .. x \subseteq S}  OBVIOUS
<1>2. x \in Nat /\ x >= 1 /\ x .. x \subseteq S  OBVIOUS
<1>3. x \in T /\ T \subseteq Nat  BY <1>1, <1>2
<1>4. PICK m \in T : \A y \in T : m <= y  BY <1>3, LeastNatural
<1>5. m \in Nat /\ m >= 1 /\ m <= x /\ m .. x \subseteq S  BY <1>1, <1>4
<1>6. m \in S  BY <1>2, <1>5
<1>7. m - 1 \notin S
  <2>1. ASSUME m - 1 \in S PROVE FALSE
    <3>1. m - 1 >= 1 /\ m - 1 \in Nat
      <4>1. PICK k : k = m - 1  OBVIOUS
      <4>2. k \in 1 .. M  BY <2>1, <4>1
      <4> QED BY <4>1, <4>2
    <3>2. \A z \in (m - 1) .. x : z = m - 1 \/ z \in m .. x  BY <1>2, <1>5
    <3>3. m - 1 \in T  BY <1>1, <1>2, <1>5, <2>1, <3>1, <3>2
    <3>4. m <= m - 1  BY <1>4, <3>3
    <3> QED BY <1>5, <3>4
  <2> QED BY <2>1
<1> QED BY <1>5, <1>6, <1>7

\* A sequence that has the numbers of a set in ascending order.
Increasing(s, T, n) ==
  /\ Len(s) = n /\ DOMAIN s = 1 .. n
  /\ \A i \in 1 .. n : s[i] \in T
  /\ \A m \in T : \E i \in 1 .. n : s[i] = m
  /\ \A i, k \in 1 .. n : i < k => s[i] < s[k]
\* A set of numbers in ascending order.
LEMMA StartsAre ==
  ASSUME NEW T, IsFiniteSet(T), T \subseteq Int, NEW found, found = SetToSeq(T)
  PROVE  \E n \in Nat : Increasing(Sorted(found, found), T, n)
<1>1. found \in Seq(T) /\ IsInjective(found) /\ Range(found) = T  BY SetToSeqElements
<1>2. PICK n \in Nat : n = Len(found) /\ DOMAIN found = 1 .. n  BY <1>1
<1>3. \A i \in 1 .. n : found[i] \in T  BY <1>1, <1>2
<1>4. found \in [1 .. n -> Int] /\ found \in Seq(T)
  <2>1. found = [i \in 1 .. n |-> found[i]]  BY <1>1, <1>2
  <2>2. \A i \in 1 .. n : found[i] \in Int  BY <1>3
  <2> QED BY <1>1, <2>1, <2>2
<1>5. PICK s : s = Sorted(found, found)  OBVIOUS
<1>6. s \in Seq(T) /\ Len(s) = n /\ \E f : SortedBy(s, found, found, n, f)
  <2>1. Len(found) = n  BY <1>2
  <2> QED BY <1>4, <1>5, <2>1, SortedIs
<1>7. PICK f : SortedBy(s, found, found, n, f)  BY <1>6
<1>8. /\ f \in [1 .. n -> 1 .. n] /\ \A p, q \in 1 .. n : f[p] = f[q] => p = q
      /\ \A i \in 1 .. n : \E p \in 1 .. n : f[p] = i
      /\ \A p \in 1 .. n : s[p] = found[f[p]]
      /\ \A p, q \in 1 .. n : p <= q => found[f[p]] <= found[f[q]]
  BY <1>7 DEF SortedBy
<1>9. \A i \in 1 .. n : s[i] \in T  BY <1>3, <1>8
<1>10. \A m \in T : \E i \in 1 .. n : s[i] = m
  <2>1. ASSUME NEW m \in T PROVE \E i \in 1 .. n : s[i] = m
    <3>1. PICK k \in 1 .. n : found[k] = m  BY <1>1, <1>2 DEF Range
    <3>2. PICK p \in 1 .. n : f[p] = k  BY <1>8
    <3> QED BY <1>8, <3>1, <3>2
  <2> QED BY <2>1
<1>11. ASSUME NEW i \in 1 .. n, NEW k \in 1 .. n, i < k PROVE s[i] < s[k]
  <2>1. s[i] <= s[k]  BY <1>8, <1>11
  <2>2. f[i] # f[k] /\ f[i] \in 1 .. n /\ f[k] \in 1 .. n  BY <1>8, <1>11
  <2>3. found[f[i]] # found[f[k]]  BY <1>1, <1>2, <2>2 DEF IsInjective
  <2>4. s[i] \in Int /\ s[k] \in Int  BY <1>9
  <2>5. s[i] = found[f[i]] /\ s[k] = found[f[k]]  BY <1>8
  <2>6. PICK a \in Int, b \in Int : a = s[i] /\ b = s[k]  BY <2>4
  <2>7. a <= b /\ a # b  BY <2>1, <2>3, <2>5, <2>6
  <2> QED BY <2>6, <2>7
<1>12. DOMAIN s = 1 .. n  BY <1>6
<1> QED BY <1>5, <1>6, <1>9, <1>10, <1>11, <1>12 DEF Increasing

RangesOfSet(R, S, n) ==
  /\ RangeSeq(R) /\ Len(R) = n /\ DOMAIN R = 1 .. n /\ Ascending(R, n)
  /\ \A m : (\E r \in ToSet(R) : InRange(m, r)) <=> m \in S
\* The ranges of a set of masses are ascending, and hold the set.
LEMMA RangesOfIs ==
  ASSUME NEW M \in Nat, NEW S, S \subseteq 1 .. M
  PROVE  \E n \in Nat : RangesOfSet(RangesOf(S), S, n)
<1>1. PICK T : T = {m \in S : m - 1 \notin S}  OBVIOUS
<1>2. IsFiniteSet(T) /\ T \subseteq Int
  <2>1. T \subseteq 1 .. M  BY <1>1
  <2>2. 1 \in Int /\ M \in Int  OBVIOUS
  <2>3. IsFiniteSet(1 .. M)  BY <2>2, FS_Interval
  <2>4. IsFiniteSet(T)  BY <2>1, <2>3, FS_Subset
  <2> QED BY <2>1, <2>4
<1>3. PICK found : found = SetToSeq(T)  OBVIOUS
<1>4. PICK s : s = Sorted(found, found)  OBVIOUS
<1>5. PICK n \in Nat : /\ Len(s) = n /\ DOMAIN s = 1 .. n
                       /\ \A i \in 1 .. n : s[i] \in T
                       /\ \A m \in T : \E i \in 1 .. n : s[i] = m
                       /\ \A i, k \in 1 .. n : i < k => s[i] < s[k]
  <2>1. IsFiniteSet(T)  BY <1>2
  <2>2. T \subseteq Int  BY <1>2
  <2>3. \E n \in Nat : Increasing(s, T, n)  BY <1>3, <1>4, <2>1, <2>2, StartsAre
  <2> QED BY <2>3 DEF Increasing
<1>6. PICK end : end = [m \in T |-> CHOOSE e \in {k + 1 : k \in S} : e > m /\ e \notin S /\ m .. e - 1 \subseteq S]
  OBVIOUS
<1>7. PICK R : R = RangesOf(S)  OBVIOUS
<1>8. R = [i \in 1 .. n |-> <<s[i], end[s[i]]>>]
  <2> DEFINE End(m) == CHOOSE e \in {k + 1 : k \in S} : e > m /\ e \notin S /\ m .. e - 1 \subseteq S
  <2>1. R = [i \in DOMAIN s |-> <<s[i], End(s[i])>>]  BY <1>1, <1>3, <1>4, <1>7 DEF RangesOf
  <2>3. \A m \in T : end[m] = End(m)  BY <1>6
  <2> HIDE DEF End
  <2>2. \A i \in 1 .. n : End(s[i]) = end[s[i]]
    <3>1. ASSUME NEW i \in 1 .. n PROVE End(s[i]) = end[s[i]]
      <4>1. PICK m \in T : m = s[i]  BY <1>5
      <4> QED BY <2>3, <4>1
    <3> QED BY <3>1
  <2> QED BY <1>5, <2>1, <2>2
<1>9. \A m \in T : RunEnd(S, m, end[m]) /\ end[m] \in Int
  <2>1. ASSUME NEW m \in T PROVE RunEnd(S, m, end[m]) /\ end[m] \in Int
    <3>1. m \in S  BY <1>1
    <3>2. PICK E : E = {k + 1 : k \in S}  OBVIOUS
    <3>3. \E e \in E : e > m /\ e \notin S /\ m .. e - 1 \subseteq S
      BY <3>1, <3>2, RunEnds DEF RunEnd
    <3>4. end[m] = CHOOSE e \in E : e > m /\ e \notin S /\ m .. e - 1 \subseteq S  BY <1>6, <3>2
    <3>5. end[m] \in E /\ end[m] > m /\ end[m] \notin S /\ m .. end[m] - 1 \subseteq S
      BY <3>3, <3>4
    <3> QED BY <3>2, <3>5 DEF RunEnd
  <2> QED BY <2>1
<1>10. Len(R) = n /\ DOMAIN R = 1 .. n  BY <1>8
<1>11. \A i \in 1 .. n : R[i] = <<s[i], end[s[i]]>> /\ R[i][1] = s[i] /\ R[i][2] = end[s[i]] /\ s[i] \in Int /\ end[s[i]] \in Int
  BY <1>2, <1>5, <1>8, <1>9
<1>12. RangeSeq(R)
  <2>1. R = [i \in 1 .. n |-> R[i]]  BY <1>8
  <2>2. R \in Seq(ToSet(R))  BY <1>10, <2>1, ListFrom
  <2>3. \A r \in ToSet(R) : \E i \in 1 .. n : r = R[i]  BY <1>10 DEF ToSet
  <2>4. \A i \in 1 .. n : IsRange(R[i])  BY <1>11 DEF IsRange
  <2> QED BY <2>2, <2>3, <2>4 DEF RangeSeq
<1>13. ASSUME NEW i \in 1 .. n PROVE R[i][1] < R[i][2] /\ R[i][1] .. R[i][2] - 1 \subseteq S /\ R[i][2] \notin S
  BY <1>5, <1>9, <1>11 DEF RunEnd
<1>14. ASSUME NEW i \in 1 .. n, NEW k \in 1 .. n, i < k PROVE R[i][2] <= R[k][1]
  <2>1. PICK a \in Int, b \in Int, c \in Int : a = R[i][1] /\ b = R[i][2] /\ c = R[k][1]  BY <1>11
  <2>2. a < c /\ c - 1 \notin S  BY <1>1, <1>5, <1>11, <1>14, <2>1
  <2>3. ASSUME c < b PROVE FALSE
    <3>1. c - 1 \in a .. b - 1  BY <2>2, <2>3
    <3> QED BY <1>13, <2>1, <2>2, <3>1
  <2> QED BY <2>1, <2>3
<1>15. Ascending(R, n)  BY <1>13, <1>14 DEF Ascending
<1>16. ASSUME NEW m, NEW i \in 1 .. n, InRange(m, R[i]) PROVE m \in S
  <2>1. m \in R[i][1] .. R[i][2] - 1  BY <1>11, <1>16 DEF InRange
  <2> QED BY <1>13, <2>1
<1>17. ASSUME NEW x \in S PROVE \E i \in 1 .. n : InRange(x, R[i])
  <2>1. PICK m \in S : m - 1 \notin S /\ m <= x /\ m .. x \subseteq S  BY RunStarts
  <2>2. m \in T  BY <1>1, <2>1
  <2>3. PICK i \in 1 .. n : s[i] = m  BY <1>5, <2>2
  <2>4. PICK e \in Int : e = R[i][2] /\ e > m /\ e \notin S  BY <1>9, <1>11, <2>2, <2>3 DEF RunEnd
  <2>5. x < e
    <3>1. ASSUME e <= x PROVE FALSE
      <4>1. e \in m .. x  BY <2>1, <2>4, <3>1
      <4> QED BY <2>1, <2>4, <4>1
    <3> QED BY <2>4, <3>1
  <2>6. R[i][1] = m /\ x \in Int  BY <1>11, <2>3
  <2> QED BY <2>1, <2>4, <2>5, <2>6 DEF InRange
<1>18. ToSet(R) = {R[i] : i \in 1 .. n}  BY <1>10 DEF ToSet
<1>19. ASSUME NEW m PROVE (\E r \in ToSet(R) : InRange(m, r)) <=> m \in S
  BY <1>16, <1>17, <1>18
<1> QED BY <1>7, <1>10, <1>12, <1>15, <1>19 DEF RangesOfSet

\* One more range.
LEMMA AppendRange ==
  ASSUME NEW R, RangeSeq(R), NEW x \in Int, NEW y \in Int
  PROVE  /\ RangeSeq(Append(R, <<x, y>>))
         /\ \A m : m \in MassesIn(Append(R, <<x, y>>)) <=> m \in MassesIn(R) \/ InRange(m, <<x, y>>)
<1>1. PICK r : r = <<x, y>>  OBVIOUS
<1>2. PICK Q : Q = Append(R, r)  OBVIOUS
<1>3. R \in Seq(ToSet(R)) /\ \A q \in ToSet(R) : IsRange(q)  BY DEF RangeSeq
<1>4. PICK k \in Nat : k = Len(R)  BY <1>3
<1>5. Q \in Seq(ToSet(Q)) /\ ToSet(Q) = ToSet(R) \cup {r}
  <2>1. R \in Seq(ToSet(R))  BY <1>3
  <2>2. Len(R) = k  BY <1>4
  <2> QED BY <1>2, <2>1, <2>2, AppendIs
<1>6. IsRange(r)  BY <1>1 DEF IsRange
<1>7. RangeSeq(Q)  BY <1>3, <1>5, <1>6 DEF RangeSeq
<1>8. ASSUME NEW m PROVE m \in MassesIn(Q) <=> m \in MassesIn(R) \/ InRange(m, r)
  BY <1>5, <1>7, MassesInIs
<1> QED BY <1>1, <1>2, <1>7, <1>8

\* No ranges hold no mass.
LEMMA NoRanges == RangeSeq(<<>>) /\ \A m : m \notin MassesIn(<<>>)
<1>1. ToSet(<<>>) = {}  BY DEF ToSet
<1>2. RangeSeq(<<>>)  BY <1>1 DEF RangeSeq
<1> QED BY <1>1, <1>2, MassesInIs

Uncut(m, B, k) == \A j \in 1 .. k : ~InRange(m, B[j])
\* What is known of a range of which k others were taken.
CutInv(cut, out, a, B, k) ==
  /\ RangeSeq(cut.out)
  /\ cut.lo \in Int /\ a[1] <= cut.lo
  /\ cut.lo = a[1] \/ \E j \in 1 .. k : cut.lo = B[j][2]
  /\ \A m \in Int : cut.lo <= m /\ m < a[2] => Uncut(m, B, k)
  /\ \A m : m \in MassesIn(cut.out) <=>
              m \in MassesIn(out) \/ (InRange(m, a) /\ m < cut.lo /\ Uncut(m, B, k))

\* Nothing was taken yet.
LEMMA CutStarts ==
  ASSUME NEW out, RangeSeq(out), NEW a, IsRange(a), NEW B, NEW cut, cut = [out |-> out, lo |-> a[1]]
  PROVE  CutInv(cut, out, a, B, 0)
<1>1. cut.out = out /\ cut.lo = a[1] /\ a[1] \in Int  BY DEF IsRange
<1>2. \A m : ~(InRange(m, a) /\ m < a[1])  BY <1>1 DEF InRange
<1>3. \A m : Uncut(m, B, 0)  BY DEF Uncut
<1> QED BY <1>1, <1>2, <1>3 DEF CutInv

\* One more range is taken.
LEMMA CutKeeps ==
  ASSUME NEW out, NEW a, IsRange(a), NEW B, NEW n \in Nat, Ascending(B, n), \A j \in 1 .. n : IsRange(B[j]),
         NEW k \in Nat, k + 1 <= n, NEW cut, CutInv(cut, out, a, B, k)
  PROVE  CutInv(CutOne(cut, B[k + 1], a[2]), out, a, B, k + 1)
<1>1. PICK b1 \in Int, b2 \in Int : B[k + 1][1] = b1 /\ B[k + 1][2] = b2  BY DEF IsRange
<1>2. b1 < b2  BY <1>1 DEF Ascending
<1>3. PICK a1 \in Int, a2 \in Int : a[1] = a1 /\ a[2] = a2  BY DEF IsRange
<1>4. PICK lo \in Int : lo = cut.lo  BY DEF CutInv
<1>5. a1 <= lo  BY <1>3, <1>4 DEF CutInv
<1>6. \A m \in Int : InRange(m, B[k + 1]) <=> b1 <= m /\ m < b2  BY <1>1 DEF InRange
<1>7. \A m : InRange(m, a) <=> m \in Int /\ a1 <= m /\ m < a2  BY <1>3 DEF InRange
<1>8. \A m : Uncut(m, B, k + 1) <=> Uncut(m, B, k) /\ ~InRange(m, B[k + 1])
  <2>1. \A j : j \in 1 .. k + 1 <=> j \in 1 .. k \/ j = k + 1  OBVIOUS
  <2> QED BY <2>1 DEF Uncut
<1>9. lo = a1 \/ lo <= b1
  <2>1. ASSUME NEW j \in 1 .. k, lo = B[j][2] PROVE lo <= b1
    <3>1. j \in 1 .. n /\ k + 1 \in 1 .. n /\ j < k + 1  OBVIOUS
    <3> QED BY <1>1, <2>1, <3>1 DEF Ascending
  <2>2. lo = a1 \/ \E j \in 1 .. k : lo = B[j][2]  BY <1>3, <1>4 DEF CutInv
  <2> QED BY <2>1, <2>2
<1>10. \A m \in Int : lo <= m /\ m < a2 => Uncut(m, B, k)  BY <1>3, <1>4 DEF CutInv
<1>11. \A m : m \in MassesIn(cut.out) <=>
                m \in MassesIn(out) \/ (InRange(m, a) /\ m < lo /\ Uncut(m, B, k))
  BY <1>4 DEF CutInv
<1>12. \A m : InRange(m, a) /\ m < lo => ~InRange(m, B[k + 1])  BY <1>6, <1>7, <1>9
<1>13. CASE lo >= a2 \/ b2 <= lo \/ b1 >= a2
  <2>1. CutOne(cut, B[k + 1], a[2]) = cut  BY <1>1, <1>3, <1>4, <1>13 DEF CutOne
  <2>2. ASSUME NEW m \in Int, lo <= m, m < a2 PROVE Uncut(m, B, k + 1)
    BY <1>6, <1>8, <1>10, <1>13, <2>2
  <2>3. ASSUME NEW m
        PROVE  m \in MassesIn(cut.out) <=>
                 m \in MassesIn(out) \/ (InRange(m, a) /\ m < lo /\ Uncut(m, B, k + 1))
    BY <1>8, <1>11, <1>12
  <2>4. lo = a1 \/ \E j \in 1 .. k + 1 : lo = B[j][2]
    <3>1. lo = a1 \/ \E j \in 1 .. k : lo = B[j][2]  BY <1>3, <1>4 DEF CutInv
    <3>2. 1 .. k \subseteq 1 .. k + 1  OBVIOUS
    <3> QED BY <3>1, <3>2
  <2>5. RangeSeq(cut.out)  BY DEF CutInv
  <2> QED BY <1>3, <1>4, <1>5, <2>1, <2>2, <2>3, <2>4, <2>5 DEF CutInv
<1>14. CASE ~(lo >= a2 \/ b2 <= lo \/ b1 >= a2)
  <2>0. lo < a2 /\ lo < b2 /\ b1 < a2  BY <1>14
  <2>1. PICK left : left = IF b1 > lo THEN Append(cut.out, <<lo, b1>>) ELSE cut.out  OBVIOUS
  <2>2. CutOne(cut, B[k + 1], a[2]) = [out |-> left, lo |-> b2]
    BY <1>1, <1>3, <1>4, <2>0, <2>1 DEF CutOne
  <2>3. RangeSeq(left) /\ \A m : m \in MassesIn(left) <=> m \in MassesIn(cut.out) \/ InRange(m, <<lo, b1>>)
    <3>1. RangeSeq(cut.out)  BY DEF CutInv
    <3>2. CASE b1 > lo  BY <2>1, <3>1, <3>2, AppendRange
    <3>3. CASE ~(b1 > lo)
      <4>1. \A m : ~InRange(m, <<lo, b1>>)  BY <3>3 DEF InRange
      <4> QED BY <2>1, <3>1, <3>3, <4>1
    <3> QED BY <3>2, <3>3
  <2>4. \A m : InRange(m, <<lo, b1>>) <=> m \in Int /\ lo <= m /\ m < b1  BY DEF InRange
  <2>5. ASSUME NEW m \in Int, b2 <= m, m < a2 PROVE Uncut(m, B, k + 1)
    <3>1. lo <= m /\ ~InRange(m, B[k + 1])  BY <1>6, <2>0, <2>5
    <3> QED BY <1>8, <1>10, <2>5, <3>1
  <2>6. ASSUME NEW m
        PROVE  m \in MassesIn(left) <=>
                 m \in MassesIn(out) \/ (InRange(m, a) /\ m < b2 /\ Uncut(m, B, k + 1))
    <3>1. ASSUME InRange(m, <<lo, b1>>) PROVE InRange(m, a) /\ m < b2 /\ Uncut(m, B, k + 1)
      <4>1. m \in Int /\ lo <= m /\ m < b1  BY <2>4, <3>1
      <4>2. InRange(m, a) /\ m < b2 /\ m < a2 /\ ~InRange(m, B[k + 1])
        BY <1>2, <1>5, <1>6, <1>7, <2>0, <4>1
      <4> QED BY <1>8, <1>10, <4>1, <4>2
    <3>2. ASSUME InRange(m, a), m < lo, Uncut(m, B, k) PROVE m < b2 /\ Uncut(m, B, k + 1)
      <4>1. m < b2  BY <1>7, <2>0, <3>2
      <4> QED BY <1>8, <1>12, <3>2, <4>1
    <3>3. ASSUME InRange(m, a), m < b2, Uncut(m, B, k + 1)
          PROVE  (m < lo /\ Uncut(m, B, k)) \/ InRange(m, <<lo, b1>>)
      <4>1. Uncut(m, B, k) /\ ~InRange(m, B[k + 1]) /\ m \in Int  BY <1>7, <1>8, <3>3
      <4>2. m < b1  BY <1>6, <3>3, <4>1
      <4> QED BY <2>4, <4>1, <4>2
    <3> QED BY <1>11, <2>3, <3>1, <3>2, <3>3
  <2>7. a1 <= b2 /\ \E j \in 1 .. k + 1 : b2 = B[j][2]  BY <1>1, <1>5, <2>0
  <2>8. PICK new : new = [out |-> left, lo |-> b2]  OBVIOUS
  <2>9. new.out = left /\ new.lo = b2  BY <2>8
  <2>10. CutInv(new, out, a, B, k + 1)  BY <1>3, <2>3, <2>5, <2>6, <2>7, <2>9 DEF CutInv
  <2> QED BY <2>2, <2>8, <2>10
<1> QED BY <1>13, <1>14

\* A range without a set of others.
LEMMA CutRangeIs ==
  ASSUME NEW out, RangeSeq(out), NEW a, IsRange(a), NEW B, NEW n \in Nat, RangeSeq(B), Len(B) = n,
         DOMAIN B = 1 .. n, Ascending(B, n)
  PROVE  /\ RangeSeq(CutRange(out, a, B))
         /\ \A m : m \in MassesIn(CutRange(out, a, B)) <=>
                     m \in MassesIn(out) \/ (InRange(m, a) /\ Uncut(m, B, n))
<1>1. PICK f : CutRangeRun(f, out, a, B, n)  BY CutRangeSteps
<1>2. /\ CutRange(out, a, B) = IF f[n].lo < a[2] THEN Append(f[n].out, <<f[n].lo, a[2]>>) ELSE f[n].out
      /\ f[0] = [out |-> out, lo |-> a[1]]
      /\ \A i \in 1 .. n : f[i] = CutOne(f[i - 1], B[i], a[2])
  BY <1>1 DEF CutRangeRun
<1>3. \A j \in 1 .. n : IsRange(B[j])  BY DEF RangeSeq, ToSet
<1> DEFINE S == {k \in Nat : k <= n => CutInv(f[k], out, a, B, k)}
<1>4. 0 \in S  BY <1>2, CutStarts
<1>5. ASSUME NEW k \in Nat, k \in S PROVE k + 1 \in S
  <2>1. ASSUME k + 1 <= n PROVE CutInv(f[k + 1], out, a, B, k + 1)
    <3>1. PICK cut : cut = f[k]  OBVIOUS
    <3>2. CutInv(cut, out, a, B, k)  BY <1>5, <2>1, <3>1
    <3>3. CutInv(CutOne(cut, B[k + 1], a[2]), out, a, B, k + 1)  BY <1>3, <2>1, <3>2, CutKeeps
    <3>4. f[k + 1] = CutOne(cut, B[k + 1], a[2])  BY <1>2, <2>1, <3>1
    <3> QED BY <3>3, <3>4
  <2> QED BY <2>1
<1> HIDE DEF S
<1>6. \A k \in Nat : k \in S => k + 1 \in S  BY <1>5
<1>7. n \in S  BY <1>4, <1>6, SetInduction
<1>8. PICK cut : cut = f[n]  OBVIOUS
<1>9. CutInv(cut, out, a, B, n)  BY <1>7, <1>8 DEF S
<1>10. PICK lo \in Int : lo = cut.lo  BY <1>9 DEF CutInv
<1>11. PICK a1 \in Int, a2 \in Int : a[1] = a1 /\ a[2] = a2 /\ a1 <= lo
  BY <1>9, <1>10 DEF IsRange, CutInv
<1>12. PICK R : R = CutRange(out, a, B)  OBVIOUS
<1>13. R = IF lo < a2 THEN Append(cut.out, <<lo, a2>>) ELSE cut.out
  BY <1>2, <1>8, <1>10, <1>11, <1>12
<1>14. RangeSeq(R) /\ \A m : m \in MassesIn(R) <=> m \in MassesIn(cut.out) \/ InRange(m, <<lo, a2>>)
  <2>1. RangeSeq(cut.out)  BY <1>9 DEF CutInv
  <2>2. CASE lo < a2  BY <1>13, <2>1, <2>2, AppendRange
  <2>3. CASE ~(lo < a2)
    <3>1. \A m : ~InRange(m, <<lo, a2>>)  BY <2>3 DEF InRange
    <3> QED BY <1>13, <2>1, <2>3, <3>1
  <2> QED BY <2>2, <2>3
<1>15. \A m : InRange(m, <<lo, a2>>) <=> m \in Int /\ lo <= m /\ m < a2  BY DEF InRange
<1>16. \A m : InRange(m, a) <=> m \in Int /\ a1 <= m /\ m < a2  BY <1>11 DEF InRange
<1>17. /\ \A m \in Int : lo <= m /\ m < a2 => Uncut(m, B, n)
       /\ \A m : m \in MassesIn(cut.out) <=>
                   m \in MassesIn(out) \/ (InRange(m, a) /\ m < lo /\ Uncut(m, B, n))
  BY <1>9, <1>10, <1>11 DEF CutInv
<1>18. ASSUME NEW m
       PROVE  m \in MassesIn(R) <=> m \in MassesIn(out) \/ (InRange(m, a) /\ Uncut(m, B, n))
  BY <1>11, <1>14, <1>15, <1>16, <1>17
<1> QED BY <1>12, <1>14, <1>18

\* One set of ranges without another.
LEMMA SubtractIs ==
  ASSUME NEW A, NEW B, NEW l \in Nat, NEW n \in Nat, NEW S, NEW T, RangesOfSet(A, S, l), RangesOfSet(B, T, n)
  PROVE  /\ RangeSeq(SubtractMassRanges(A, B))
         /\ \A m : m \in MassesIn(SubtractMassRanges(A, B)) <=> m \in S /\ m \notin T
<1>1. RangeSeq(A) /\ Len(A) = l /\ DOMAIN A = 1 .. l  BY DEF RangesOfSet
<1>2. RangeSeq(B) /\ Len(B) = n /\ DOMAIN B = 1 .. n /\ Ascending(B, n)  BY DEF RangesOfSet
<1>3. \A i \in 1 .. l : IsRange(A[i])  BY <1>1 DEF RangeSeq, ToSet
<1>4. PICK f : SubtractMassRangesRun(f, A, B, l)  BY <1>1, SubtractMassRangesSteps
<1>5. /\ SubtractMassRanges(A, B) = f[l] /\ f[0] = <<>>
      /\ \A i \in 1 .. l : f[i] = CutRange(f[i - 1], A[i], B)
  BY <1>4 DEF SubtractMassRangesRun
<1>6. \A m : Uncut(m, B, n) <=> m \notin T
  <2>1. ToSet(B) = {B[j] : j \in 1 .. n}  BY <1>2 DEF ToSet
  <2>2. \A m : (\E r \in ToSet(B) : InRange(m, r)) <=> m \in T  BY DEF RangesOfSet
  <2> QED BY <2>1, <2>2 DEF Uncut
<1>7. \A m : (\E i \in 1 .. l : InRange(m, A[i])) <=> m \in S
  <2>1. ToSet(A) = {A[j] : j \in 1 .. l}  BY <1>1 DEF ToSet
  <2>2. \A m : (\E r \in ToSet(A) : InRange(m, r)) <=> m \in S  BY DEF RangesOfSet
  <2> QED BY <2>1, <2>2
<1> DEFINE Cut(k) ==
      /\ RangeSeq(f[k])
      /\ \A m : m \in MassesIn(f[k]) <=> m \notin T /\ \E i \in 1 .. k : InRange(m, A[i])
           I == {k \in Nat : k <= l => Cut(k)}
<1>8. 0 \in I
  <2>1. \A m : ~\E i \in 1 .. 0 : InRange(m, A[i])  OBVIOUS
  <2> QED BY <1>5, <2>1, NoRanges
<1>9. ASSUME NEW k \in Nat, k \in I PROVE k + 1 \in I
  <2>1. ASSUME k + 1 <= l PROVE Cut(k + 1)
    <3>1. PICK out, a, new : out = f[k] /\ a = A[k + 1] /\ new = f[k + 1]  OBVIOUS
    <3>2. /\ RangeSeq(out)
          /\ \A m : m \in MassesIn(out) <=> m \notin T /\ \E i \in 1 .. k : InRange(m, A[i])
      BY <1>9, <2>1, <3>1
    <3>3. new = CutRange(out, a, B) /\ IsRange(a)  BY <1>3, <1>5, <2>1, <3>1
    <3>4. RangeSeq(out)  BY <3>2
    <3>5. IsRange(a)  BY <3>3
    <3>6. RangeSeq(new) /\ \A m : m \in MassesIn(new) <=> m \in MassesIn(out) \/ (InRange(m, a) /\ Uncut(m, B, n))
      <4>1. RangeSeq(B)  BY <1>2
      <4>2. Len(B) = n  BY <1>2
      <4>3. DOMAIN B = 1 .. n  BY <1>2
      <4>4. Ascending(B, n)  BY <1>2
      <4> QED BY <3>3, <3>4, <3>5, <4>1, <4>2, <4>3, <4>4, CutRangeIs
    <3>7. ASSUME NEW m
          PROVE  (\E i \in 1 .. k + 1 : InRange(m, A[i])) <=> InRange(m, a) \/ \E i \in 1 .. k : InRange(m, A[i])
      <4>1. \A i : i \in 1 .. k + 1 <=> i \in 1 .. k \/ i = k + 1  OBVIOUS
      <4> QED BY <3>1, <4>1
    <3> QED BY <1>6, <3>1, <3>2, <3>6, <3>7
  <2> HIDE DEF Cut
  <2> QED BY <2>1
<1> HIDE DEF I, Cut
<1>10. \A k \in Nat : k \in I => k + 1 \in I  BY <1>9
<1>11. l \in I  BY <1>8, <1>10, SetInduction
<1>12. Cut(l)  BY <1>11 DEF I
<1> QED BY <1>5, <1>7, <1>12 DEF Cut

BornBy(c, last) == IF last < c.formTime THEN c.formTime ELSE last
DeadBinsAre(c, last) ==
  DeadBins(c, last) =
    {m \in MinTrack .. sc.minStoch - 1 :
       c.hasBins /\ Lifetime[m] >= BornBy(c, last) - c.formTime /\ Lifetime[m] < c.isoAge}
\* The masses a cluster integrates over that were alive at one time and are dead now.
LEMMA DeadBinsIs ==
  ASSUME sc \in Controls, NEW c, c.isoAge \in Int, NEW last
  PROVE  DeadBinsAre(c, last)
<1>1. PICK stoch \in Int : stoch = sc.minStoch /\ stoch <= MaxMass + 1
  BY ControlsAssumption, TracksAssumption
<1>2. PICK then : then = BornBy(c, last)  OBVIOUS
<1>3. PICK S, T : S = LiveMasses(then - c.formTime) /\ T = LiveMasses(c.isoAge)  OBVIOUS
<1>4. S \subseteq 1 .. MaxMass /\ T \subseteq 1 .. MaxMass /\ MaxMass \in Nat
  BY <1>3, TracksAssumption DEF LiveMasses
<1>5. PICK l \in Nat : RangesOfSet(RangesOf(S), S, l)  BY <1>4, RangesOfIs
<1>6. PICK n \in Nat : RangesOfSet(RangesOf(T), T, n)  BY <1>4, RangesOfIs
<1>7. PICK gone : gone = SubtractMassRanges(RangesOf(S), RangesOf(T))  OBVIOUS
<1>8. RangeSeq(gone) /\ \A m : m \in MassesIn(gone) <=> m \in S /\ m \notin T
  BY <1>5, <1>6, <1>7, SubtractIs
<1> DEFINE Clipped(r) == IF r[2] > stoch THEN <<r[1], stoch>> ELSE r
<1>9. PICK clipped : clipped = [i \in DOMAIN gone |-> Clipped(gone[i])]  OBVIOUS
<1>10. PICK places : places = {i \in DOMAIN clipped : clipped[i][1] < clipped[i][2]}  OBVIOUS
<1>11. PICK R : R = Picked(clipped, places)  OBVIOUS
<1>12. NonStochDeadMassRanges(c, last) = R
  BY <1>1, <1>2, <1>3, <1>7, <1>9, <1>10, <1>11 DEF NonStochDeadMassRanges, BornBy
<1>13. PICK k \in Nat : k = Len(gone) /\ DOMAIN gone = 1 .. k  BY <1>8 DEF RangeSeq
<1>14. \A i \in 1 .. k : IsRange(gone[i])  BY <1>8, <1>13 DEF RangeSeq, ToSet
<1>15. clipped \in Seq(ToSet(clipped)) /\ Len(clipped) = k /\ DOMAIN clipped = 1 .. k
  <2>1. DOMAIN clipped = 1 .. k  BY <1>9, <1>13
  <2>2. clipped = [i \in 1 .. k |-> clipped[i]]  BY <1>9, <1>13
  <2> QED BY <2>1, <2>2, ListFrom
<1>16. ASSUME NEW i \in 1 .. k
       PROVE  /\ IsRange(clipped[i])
              /\ \A m : InRange(m, clipped[i]) <=> InRange(m, gone[i]) /\ m < stoch
  <2>1. PICK r : r = gone[i]  OBVIOUS
  <2>2. PICK lo \in Int, hi \in Int : r = <<lo, hi>> /\ r[1] = lo /\ r[2] = hi
    BY <1>14, <2>1 DEF IsRange
  <2>3. clipped[i] = IF hi > stoch THEN <<lo, stoch>> ELSE <<lo, hi>>  BY <1>9, <1>13, <2>1, <2>2
  <2> QED BY <2>1, <2>2, <2>3 DEF IsRange, InRange
<1>17. Range(R) = {clipped[i] : i \in {j \in DOMAIN clipped : j \in places}} /\ R \in Seq(ToSet(clipped))
  BY <1>11, <1>15, PickedElements
<1>18. ToSet(R) = {clipped[i] : i \in {j \in 1 .. k : clipped[j][1] < clipped[j][2]}}
  <2>1. Range(R) = ToSet(R)  BY DEF Range, ToSet
  <2> QED BY <1>10, <1>15, <1>17, <2>1
<1>19. RangeSeq(R)
  <2>1. R \in Seq(ToSet(R))  BY <1>17 DEF ToSet
  <2> QED BY <1>16, <1>18, <2>1 DEF RangeSeq
<1>20. ASSUME NEW m PROVE m \in MassesIn(R) <=> m \in S /\ m \notin T /\ m < stoch
  <2>1. m \in MassesIn(R) <=> \E r \in ToSet(R) : InRange(m, r)  BY <1>19, MassesInIs
  <2>2. m \in MassesIn(gone) <=> \E r \in ToSet(gone) : InRange(m, r)  BY <1>8, MassesInIs
  <2>3. ToSet(gone) = {gone[i] : i \in 1 .. k}  BY <1>13 DEF ToSet
  <2>4. \A i \in 1 .. k : InRange(m, clipped[i]) => clipped[i][1] < clipped[i][2]
    <3>1. ASSUME NEW i \in 1 .. k, InRange(m, clipped[i]) PROVE clipped[i][1] < clipped[i][2]
      <4>1. PICK lo \in Int, hi \in Int : clipped[i][1] = lo /\ clipped[i][2] = hi
        BY <1>16 DEF IsRange
      <4> QED BY <3>1, <4>1 DEF InRange
    <3> QED BY <3>1
  <2>5. (\E r \in ToSet(R) : InRange(m, r)) <=> \E i \in 1 .. k : InRange(m, clipped[i])
    BY <1>18, <2>4
  <2> QED BY <1>8, <1>16, <2>1, <2>2, <2>3, <2>5
<1>21. ASSUME NEW m
       PROVE  m \in S /\ m \notin T /\ m < stoch <=>
                m \in MinTrack .. stoch - 1 /\ Lifetime[m] >= then - c.formTime /\ ~(Lifetime[m] >= c.isoAge)
  <2>1. MinTrack .. stoch - 1 = {x \in MinTrack .. MaxMass : x < stoch}  BY <1>1, TracksAssumption
  <2> QED BY <1>3, <2>1 DEF LiveMasses
<1>22. \A m \in MinTrack .. stoch - 1 : Lifetime[m] \in Int  BY <1>1, TracksAssumption
<1>23. MassesIn(R) = {m \in MinTrack .. stoch - 1 : Lifetime[m] >= then - c.formTime /\ Lifetime[m] < c.isoAge}
  <2>1. PICK age \in Int : age = c.isoAge  OBVIOUS
  <2>2. \A m \in MinTrack .. stoch - 1 : Lifetime[m] < age <=> ~(Lifetime[m] >= age)  BY <1>22
  <2> QED BY <1>20, <1>21, <2>1, <2>2
<1>24. DeadBins(c, last) = IF c.hasBins THEN MassesIn(R) ELSE {}  BY <1>12 DEF DeadBins
<1> QED BY <1>1, <1>2, <1>23, <1>24 DEF DeadBinsAre

\* What dies in a cluster in a step that goes to t.
DiedStars(c, t) == {x \in StarSrcs(c) : c.curTime <= DeathAt(c, x) /\ DeathAt(c, x) < t}
DiedBins(c, t) == {x \in BinSrcs(c) : c.curTime <= DeathAt(c, x) /\ DeathAt(c, x) < t}

\* A step of a cluster, from where it stands.
StepOf(c, t) ==
  /\ TapeOk /\ sc \in Controls /\ ClusterCore(c) /\ t \in Nat /\ c.curTime <= t /\ t <= MaxTime

\* The stars popped off a cluster's list are those that die in the step.
LEMMA DiedStarsIs ==
  ASSUME NEW c, NEW t, StepOf(c, t)
  PROVE  /\ {s.src : s \in ToSet(NewlyDead(c, t))} = DiedStars(c, t)
         /\ \A s \in ToSet(NewlyDead(c, t)) : s.tDeath = DeathAt(c, s.src)
<1>1. PICK gone : gone = NewlyDead(c, t)  OBVIOUS
<1>2. ByDeath(c.stars)  BY StarsByDeath DEF StepOf
<1>3. t \in Nat  BY DEF StepOf
<1>4. ToSet(gone) = {s \in ToSet(c.stars) : s.tDeath < t}
  BY <1>1, <1>2, <1>3, LivingStars DEF NewlyDead
<1>5. /\ {s.src : s \in ToSet(c.stars)} = {x \in StarSrcs(c) : DeathAt(c, x) >= c.curTime}
      /\ \A s \in ToSet(c.stars) : s.tDeath = DeathAt(c, s.src)
  BY DEF StepOf, ClusterCore, StarsKept
<1>6. \A x \in StarSrcs(c) : DeathAt(c, x) \in Nat
  <2>1. c.targetMass \in Nat /\ c.rngState \in Nat /\ c.formTime \in Nat /\ TapeOk /\ sc \in Controls
    BY DEF StepOf, ClusterCore, BirthKept
  <2> QED BY <2>1, ClusterStars
<1>7. c.curTime \in Nat  BY DEF StepOf, ClusterCore, TimesKept
<1>8. ASSUME NEW x PROVE x \in {s.src : s \in ToSet(gone)} <=> x \in DiedStars(c, t)
  <2>1. ASSUME NEW s \in ToSet(gone), x = s.src PROVE x \in DiedStars(c, t)
    <3>1. s \in ToSet(c.stars) /\ s.tDeath < t  BY <1>4
    <3>2. x \in {x2 \in StarSrcs(c) : DeathAt(c, x2) >= c.curTime} /\ s.tDeath = DeathAt(c, x)
      BY <1>5, <2>1, <3>1
    <3> QED BY <1>6, <1>7, <3>1, <3>2 DEF DiedStars
  <2>2. ASSUME x \in DiedStars(c, t) PROVE x \in {s.src : s \in ToSet(gone)}
    <3>1. x \in StarSrcs(c) /\ DeathAt(c, x) >= c.curTime /\ DeathAt(c, x) < t
      BY <1>6, <1>7, <2>2 DEF DiedStars
    <3>2. PICK s \in ToSet(c.stars) : s.src = x  BY <1>5, <3>1
    <3>3. s \in ToSet(gone)  BY <1>4, <1>5, <3>1, <3>2
    <3> QED BY <3>2, <3>3
  <2> QED BY <2>1, <2>2
<1> QED BY <1>1, <1>4, <1>5, <1>8

\* The masses that die of those a cluster integrates over are those the ranges give.
LEMMA DiedBinsIs ==
  ASSUME NEW c, NEW t, StepOf(c, t), NEW d, Static(d, c), d.curTime = t, d.isoAge = t - c.formTime,
         NEW last, last = c.curTime \/ (c.curTime = c.formTime /\ last = 0)
  PROVE  /\ {<<"bin", d.uid, 0, m>> : m \in DeadBins(d, last)} = DiedBins(c, t)
         /\ \A m \in DeadBins(d, last) : d.formTime + Lifetime[m] = DeathAt(c, <<"bin", d.uid, 0, m>>)
<1>1. /\ t \in Nat /\ c.curTime \in Nat /\ c.formTime \in Nat \ {0} /\ c.formTime <= c.curTime
      /\ t <= MaxTime /\ MaxTime \in Nat /\ MaxTime < Never /\ sc \in Controls
  BY GalaxyAssumption DEF StepOf, ClusterCore, TimesKept, BirthKept
<1>2. d.formTime = c.formTime /\ d.hasBins = c.hasBins /\ d.uid = c.uid  BY DEF Static
<1>3. PICK now \in Nat, form \in Nat : now = c.curTime /\ form = c.formTime /\ form <= now /\ form > 0
  BY <1>1
<1>4. BornBy(d, last) = now
  <2>1. CASE last = now  BY <1>2, <1>3, <2>1 DEF BornBy
  <2>2. CASE now = form /\ last = 0  BY <1>2, <1>3, <2>2 DEF BornBy
  <2> QED BY <1>3, <2>1, <2>2
<1>5. DeadBinsAre(d, last)
  <2>1. d.isoAge \in Int  BY <1>1
  <2> QED BY <1>1, <2>1, DeadBinsIs
<1>6. PICK stoch \in Int : stoch = sc.minStoch /\ stoch <= MaxMass + 1
  BY <1>1, ControlsAssumption, TracksAssumption
<1>7. DeadBins(d, last) = {m \in MinTrack .. stoch - 1 :
                             c.hasBins /\ Lifetime[m] >= now - form /\ Lifetime[m] < t - form}
  BY <1>2, <1>3, <1>4, <1>5, <1>6 DEF DeadBinsAre
<1>8. \A m \in MinTrack .. stoch - 1 : m \in MinTrack .. MaxMass /\ Lifetime[m] \in Nat
  BY <1>6, TracksAssumption
<1>9. ASSUME NEW m PROVE DeathAt(c, <<"bin", c.uid, 0, m>>) = form + StarLifetimeClamped(m)
  BY <1>3 DEF DeathAt
<1>10. BinSrcs(c) = IF c.hasBins THEN {<<"bin", c.uid, 0, m>> : m \in 1 .. stoch - 1} ELSE {}
  BY <1>6 DEF BinSrcs
<1>11. ASSUME NEW m \in 1 .. stoch - 1
       PROVE  now <= form + StarLifetimeClamped(m) /\ form + StarLifetimeClamped(m) < t
                <=> m \in MinTrack .. stoch - 1 /\ Lifetime[m] >= now - form /\ Lifetime[m] < t - form
  <2>1. CASE m < MinTrack
    <3>1. StarLifetimeClamped(m) = Never /\ Never \in Nat  BY <2>1 DEF StarLifetimeClamped, Never
    <3>2. ~(form + Never < t)  BY <1>1, <1>3, <3>1
    <3>3. m \notin MinTrack .. stoch - 1  BY <2>1, TracksAssumption
    <3> QED BY <3>1, <3>2, <3>3
  <2>2. CASE ~(m < MinTrack)
    <3>1. StarLifetimeClamped(m) = Lifetime[m]  BY <2>2 DEF StarLifetimeClamped
    <3>2. m \in MinTrack .. stoch - 1  BY <2>2, TracksAssumption
    <3>3. PICK l \in Nat : l = Lifetime[m]  BY <1>8, <3>2
    <3> QED BY <1>1, <1>3, <3>1, <3>2, <3>3
  <2> QED BY <2>1, <2>2
<1>12. MinTrack .. stoch - 1 \subseteq 1 .. stoch - 1  BY TracksAssumption
<1>13. ASSUME NEW x
       PROVE  x \in {<<"bin", d.uid, 0, m>> : m \in DeadBins(d, last)} <=> x \in DiedBins(c, t)
  <2>1. ASSUME NEW m \in DeadBins(d, last), x = <<"bin", c.uid, 0, m>> PROVE x \in DiedBins(c, t)
    <3>1. m \in MinTrack .. stoch - 1 /\ c.hasBins /\ Lifetime[m] >= now - form /\ Lifetime[m] < t - form
      BY <1>7
    <3>2. m \in 1 .. stoch - 1 /\ x \in BinSrcs(c)  BY <1>10, <1>12, <2>1, <3>1
    <3> QED BY <1>3, <1>9, <1>11, <2>1, <3>1, <3>2 DEF DiedBins
  <2>2. ASSUME x \in DiedBins(c, t) PROVE \E m \in DeadBins(d, last) : x = <<"bin", c.uid, 0, m>>
    <3>1. x \in BinSrcs(c) /\ c.curTime <= DeathAt(c, x) /\ DeathAt(c, x) < t  BY <2>2 DEF DiedBins
    <3>2. c.hasBins /\ \E m \in 1 .. stoch - 1 : x = <<"bin", c.uid, 0, m>>  BY <1>10, <3>1
    <3>3. PICK m \in 1 .. stoch - 1 : x = <<"bin", c.uid, 0, m>>  BY <3>2
    <3>4. m \in DeadBins(d, last)  BY <1>3, <1>7, <1>9, <1>11, <3>1, <3>2, <3>3
    <3> QED BY <3>3, <3>4
  <2> QED BY <1>2, <2>1, <2>2
<1>14. ASSUME NEW m \in DeadBins(d, last)
       PROVE  d.formTime + Lifetime[m] = DeathAt(c, <<"bin", d.uid, 0, m>>)
  <2>1. m \in MinTrack .. stoch - 1 /\ MinTrack \in Int  BY <1>7, TracksAssumption
  <2>2. ~(m < MinTrack)  BY <2>1
  <2>3. StarLifetimeClamped(m) = Lifetime[m]  BY <2>2 DEF StarLifetimeClamped
  <2> QED BY <1>2, <1>3, <1>9, <2>3
<1> QED BY <1>13, <1>14

\* Yields of what had died before age by the time of the step.
LEMMA YieldsAge ==
  ASSUME NEW dt \in Int, NEW B, NEW A, B = SetToBag(A), ~sc.noDecay,
         \A z \in A : z = <<z[1], z[2]>> /\ z[2] \in Int
  PROVE  ApplyDecay(dt, B) = SetToBag({<<z[1], z[2] + dt>> : z \in A})
<1>1. DOMAIN B = A /\ \A z \in A : B[z] = 1  BY DEF SetToBag
<1>2. BagToSet(B) = A  BY <1>1 DEF BagToSet
<1>3. PICK Y : Y = {<<z[1], z[2] + dt>> : z \in A}  OBVIOUS
<1>4. ApplyDecay(dt, B) = [y \in Y |-> B[<<y[1], y[2] - dt>>]]  BY <1>2, <1>3 DEF ApplyDecay
<1>5. \A y \in Y : B[<<y[1], y[2] - dt>>] = 1
  <2>1. ASSUME NEW y \in Y PROVE B[<<y[1], y[2] - dt>>] = 1
    <3>1. PICK z \in A : y = <<z[1], z[2] + dt>>  BY <1>3
    <3>2. PICK k \in Int : k = z[2] /\ z = <<z[1], k>>  OBVIOUS
    <3>3. y[1] = z[1] /\ y[2] - dt = k  BY <3>1, <3>2
    <3> QED BY <1>1, <3>2, <3>3
  <2> QED BY <2>1
<1>6. SetToBag(Y) = [y \in Y |-> 1]  BY DEF SetToBag
<1> QED BY <1>3, <1>4, <1>5, <1>6

\* What has been released by those that died, given with the times of their deaths, with the
\* time it has decayed for.
Released(P, t) == {<<p[1], DecayTime(t, p[2])>> : p \in P}
DeathsOf(c, X) == {<<x, DeathAt(c, x)>> : x \in X}

\* What was released by one time has decayed for as much longer by a later one.
LEMMA ReleasedAges ==
  ASSUME NEW P, \A p \in P : p[2] \in Int, NEW u \in Int, NEW t \in Int
  PROVE  ApplyDecay(t - u, SetToBag(Released(P, u))) = SetToBag(Released(P, t))
<1>1. CASE sc.noDecay
  <2>1. \A x, y : DecayTime(x, y) = 0  BY <1>1 DEF DecayTime
  <2>2. Released(P, u) = Released(P, t)  BY <2>1 DEF Released
  <2> QED BY <1>1, <2>2 DEF ApplyDecay
<1>2. CASE ~sc.noDecay
  <2>1. \A x, y : DecayTime(x, y) = x - y  BY <1>2 DEF DecayTime
  <2>2. PICK A : A = Released(P, u)  OBVIOUS
  <2>3. \A z \in A : z = <<z[1], z[2]>> /\ z[2] \in Int  BY <2>1, <2>2 DEF Released
  <2>4. PICK dt \in Int : dt = t - u  OBVIOUS
  <2>5. PICK B : B = SetToBag(A)  OBVIOUS
  <2>6. ApplyDecay(dt, B) = SetToBag({<<z[1], z[2] + dt>> : z \in A})
    BY <1>2, <2>3, <2>5, YieldsAge
  <2>7. {<<z[1], z[2] + dt>> : z \in A} = Released(P, t)
    <3>1. ASSUME NEW z \in A PROVE <<z[1], z[2] + dt>> \in Released(P, t)
      <4>1. PICK p \in P : z = <<p[1], u - p[2]>>  BY <2>1, <2>2 DEF Released
      <4>2. z[2] + dt = t - p[2]  BY <2>4, <4>1
      <4> QED BY <2>1, <4>1, <4>2 DEF Released
    <3>2. ASSUME NEW p \in P PROVE <<p[1], DecayTime(t, p[2])>> \in {<<z[1], z[2] + dt>> : z \in A}
      <4>1. <<p[1], u - p[2]>> \in A  BY <2>1, <2>2 DEF Released
      <4>2. PICK z \in A : z = <<p[1], u - p[2]>>  BY <4>1
      <4>3. z[1] = p[1] /\ z[2] + dt = t - p[2]  BY <2>4, <4>2
      <4>4. <<z[1], z[2] + dt>> = <<p[1], DecayTime(t, p[2])>>  BY <2>1, <4>3
      <4> QED BY <4>4
    <3> QED BY <3>1, <3>2 DEF Released
  <2> QED BY <2>2, <2>4, <2>5, <2>6, <2>7
<1> QED BY <1>1, <1>2

\* What different stars released adds up.
LEMMA ReleasedAdds ==
  ASSUME NEW A, NEW B, \A a \in A : \A b \in B : a[1] # b[1], NEW t
  PROVE  SetToBag(Released(A, t)) (+) SetToBag(Released(B, t)) = SetToBag(Released(A \cup B, t))
<1>1. PICK X, Y : X = Released(A, t) /\ Y = Released(B, t)  OBVIOUS
<1>2. X \cap Y = {}
  <2>1. SUFFICES ASSUME NEW z \in X, z \in Y PROVE FALSE
    OBVIOUS
  <2>2. PICK a \in A : z = <<a[1], DecayTime(t, a[2])>>  BY <1>1 DEF Released
  <2>3. PICK b \in B : z = <<b[1], DecayTime(t, b[2])>>  BY <1>1, <2>1 DEF Released
  <2> QED BY <2>2, <2>3
<1>3. SetToBag(X) (+) SetToBag(Y) = SetToBag(X \cup Y)  BY <1>2, BagsOfSets
<1>4. Released(A \cup B, t) = X \cup Y  BY <1>1 DEF Released
<1> QED BY <1>1, <1>3, <1>4

\* Those of a cluster that are gone after a step were gone before or die in it.
LEMMA GoneAdvances ==
  ASSUME NEW c, NEW t, StepOf(c, t), NEW d, Static(d, c), d.curTime = t
  PROVE  /\ Gone(d) = Gone(c) \cup DiedStars(c, t) \cup DiedBins(c, t)
         /\ Gone(c) \cap DiedStars(c, t) = {}
         /\ (Gone(c) \cup DiedStars(c, t)) \cap DiedBins(c, t) = {}
         /\ \A x \in DiedStars(c, t) : x[1] = "star" /\ DeathAt(c, x) \in Nat
         /\ \A x \in DiedBins(c, t) : x[1] = "bin" /\ DeathAt(c, x) \in Nat
         /\ \A x \in Gone(c) : DeathAt(c, x) \in Nat
         /\ c.curTime = c.formTime => Gone(c) = {}
<1>1. TapeOk /\ sc \in Controls /\ c.targetMass \in Nat /\ c.rngState \in Nat /\ c.formTime \in Nat
  BY DEF StepOf, ClusterCore, BirthKept
<1>2. /\ \A x \in StarSrcs(c) : x[1] = "star"
      /\ \A x \in BinSrcs(c) : x[1] = "bin"
      /\ \A x \in StarSrcs(c) \cup BinSrcs(c) : DeathAt(c, x) \in Nat /\ DeathAt(c, x) > c.formTime
  BY <1>1, ClusterStars
<1>3. PICK stars, bins : stars = StarSrcs(c) /\ bins = BinSrcs(c)  OBVIOUS
<1>4. StarSrcs(d) = stars /\ BinSrcs(d) = bins /\ \A x : DeathAt(d, x) = DeathAt(c, x)
  BY <1>3, StaticKeeps
<1>5. PICK now \in Nat, then \in Nat : now = c.curTime /\ then = t /\ now <= then
  BY DEF StepOf, ClusterCore, TimesKept
<1>6. Gone(c) = {x \in stars \cup bins : DeathAt(c, x) < now}  BY <1>3, <1>5 DEF Gone
<1>7. Gone(d) = {x \in stars \cup bins : DeathAt(c, x) < then}  BY <1>4, <1>5 DEF Gone
<1>8. /\ DiedStars(c, t) = {x \in stars : now <= DeathAt(c, x) /\ DeathAt(c, x) < then}
      /\ DiedBins(c, t) = {x \in bins : now <= DeathAt(c, x) /\ DeathAt(c, x) < then}
  BY <1>3, <1>5 DEF DiedStars, DiedBins
<1>9. \A x \in stars \cup bins : DeathAt(c, x) \in Nat /\ (x \in stars => x \notin bins)
  BY <1>2, <1>3
<1>10. Gone(d) = Gone(c) \cup DiedStars(c, t) \cup DiedBins(c, t)
  <2>1. ASSUME NEW x PROVE x \in Gone(d) <=> x \in Gone(c) \/ x \in DiedStars(c, t) \/ x \in DiedBins(c, t)
    BY <1>5, <1>6, <1>7, <1>8, <1>9
  <2> QED BY <2>1
<1>11. Gone(c) \cap DiedStars(c, t) = {}  BY <1>5, <1>6, <1>8, <1>9
<1>12. (Gone(c) \cup DiedStars(c, t)) \cap DiedBins(c, t) = {}
  <2>1. ASSUME NEW x \in DiedBins(c, t) PROVE x \notin Gone(c) /\ x \notin DiedStars(c, t)
    <3>1. x \in bins /\ DeathAt(c, x) >= now /\ DeathAt(c, x) \in Nat /\ x \notin stars
      BY <1>5, <1>8, <1>9
    <3> QED BY <1>5, <1>6, <1>8, <3>1
  <2> QED BY <2>1
<1>13. /\ \A x \in DiedStars(c, t) : x[1] = "star" /\ DeathAt(c, x) \in Nat
       /\ \A x \in DiedBins(c, t) : x[1] = "bin" /\ DeathAt(c, x) \in Nat
       /\ \A x \in Gone(c) : DeathAt(c, x) \in Nat
  BY <1>2, <1>3, <1>6, <1>8, <1>9
<1>14. ASSUME c.curTime = c.formTime PROVE Gone(c) = {}
  BY <1>1, <1>2, <1>3, <1>5, <1>6, <1>14
<1> QED BY <1>10, <1>11, <1>12, <1>13, <1>14

\* What a cluster's stars release in a step, and the masses it integrates over.
StepReleases(d, c, t) ==
  /\ YieldsOfStars(d.dead, t) = SetToBag(Released(DeathsOf(c, DiedStars(c, t)), t))
  /\ YieldsOfBins(d, c.lastYieldTime) = SetToBag(Released(DeathsOf(c, DiedBins(c, t)), t))
  /\ SNOfStars(d.dead) = SetToBag({x \in DiedStars(c, t) : x[4] \in HasSN})
  /\ SNOfBins(d, c.lastFeedbackTime) = SetToBag({x \in DiedBins(c, t) : x[4] \in HasSN})

\* The stars taken off the list release theirs.
LEMMA StarsRelease ==
  ASSUME NEW c, NEW t, StepOf(c, t), NEW dead, dead = NewlyDead(c, t)
  PROVE  /\ YieldsOfStars(dead, t) = SetToBag(Released(DeathsOf(c, DiedStars(c, t)), t))
         /\ SNOfStars(dead) = SetToBag({x \in DiedStars(c, t) : x[4] \in HasSN})
<1>1. PICK X : X = DiedStars(c, t)  OBVIOUS
<1>2. {s.src : s \in ToSet(dead)} = X /\ \A s \in ToSet(dead) : s.tDeath = DeathAt(c, s.src)
  BY <1>1, DiedStarsIs
<1>3. {<<s.src, DecayTime(t, s.tDeath)>> : s \in ToSet(dead)} = Released(DeathsOf(c, X), t)
  <2>1. ASSUME NEW s \in ToSet(dead) PROVE <<s.src, DecayTime(t, s.tDeath)>> \in Released(DeathsOf(c, X), t)
    <3>1. s.src \in X /\ s.tDeath = DeathAt(c, s.src)  BY <1>2
    <3>2. PICK p \in DeathsOf(c, X) : p = <<s.src, s.tDeath>>  BY <3>1 DEF DeathsOf
    <3> QED BY <3>2 DEF Released
  <2>2. ASSUME NEW y \in Released(DeathsOf(c, X), t)
        PROVE  y \in {<<s.src, DecayTime(t, s.tDeath)>> : s \in ToSet(dead)}
    <3>1. PICK p \in DeathsOf(c, X) : y = <<p[1], DecayTime(t, p[2])>>  BY DEF Released
    <3>2. PICK x \in X : p = <<x, DeathAt(c, x)>>  BY DEF DeathsOf
    <3>3. PICK s \in ToSet(dead) : s.src = x /\ s.tDeath = DeathAt(c, x)  BY <1>2
    <3>4. y = <<s.src, DecayTime(t, s.tDeath)>>  BY <3>1, <3>2, <3>3
    <3> QED BY <3>4
  <2> QED BY <2>1, <2>2
<1>4. {s.src : s \in {q \in ToSet(dead) : q.src[4] \in HasSN}} = {x \in X : x[4] \in HasSN}  BY <1>2
<1> QED BY <1>1, <1>3, <1>4 DEF YieldsOfStars, SNOfStars

\* The masses that die release theirs.
LEMMA BinsRelease ==
  ASSUME NEW c, NEW t, StepOf(c, t), NEW d, Static(d, c), d.curTime = t, d.isoAge = t - c.formTime,
         NEW last, last = c.curTime \/ (c.curTime = c.formTime /\ last = 0)
  PROVE  /\ YieldsOfBins(d, last) = SetToBag(Released(DeathsOf(c, DiedBins(c, t)), t))
         /\ SNOfBins(d, last) = SetToBag({x \in DiedBins(c, t) : x[4] \in HasSN})
<1>1. PICK X, M : X = DiedBins(c, t) /\ M = DeadBins(d, last)  OBVIOUS
<1>2. /\ {<<"bin", d.uid, 0, m>> : m \in M} = X
      /\ \A m \in M : d.formTime + Lifetime[m] = DeathAt(c, <<"bin", d.uid, 0, m>>)
  BY <1>1, DiedBinsIs
<1>3. {<< <<"bin", d.uid, 0, m>>, DecayTime(t, d.formTime + Lifetime[m])>> : m \in M}
        = Released(DeathsOf(c, X), t)
  <2>1. ASSUME NEW m \in M
        PROVE  << <<"bin", d.uid, 0, m>>, DecayTime(t, d.formTime + Lifetime[m])>> \in Released(DeathsOf(c, X), t)
    <3>1. PICK x \in X : x = <<"bin", d.uid, 0, m>> /\ d.formTime + Lifetime[m] = DeathAt(c, x)
      BY <1>2
    <3>2. PICK p \in DeathsOf(c, X) : p = <<x, DeathAt(c, x)>>  BY DEF DeathsOf
    <3>3. <<p[1], DecayTime(t, p[2])>> \in Released(DeathsOf(c, X), t)  BY DEF Released
    <3> QED BY <3>1, <3>2, <3>3
  <2>2. ASSUME NEW y \in Released(DeathsOf(c, X), t)
        PROVE  \E m \in M : y = << <<"bin", d.uid, 0, m>>, DecayTime(t, d.formTime + Lifetime[m])>>
    <3>1. PICK p \in DeathsOf(c, X) : y = <<p[1], DecayTime(t, p[2])>>  BY DEF Released
    <3>2. PICK x \in X : p = <<x, DeathAt(c, x)>>  BY DEF DeathsOf
    <3>3. PICK m \in M : x = <<"bin", d.uid, 0, m>>  BY <1>2
    <3>4. d.formTime + Lifetime[m] = DeathAt(c, x)  BY <1>2, <3>3
    <3> QED BY <3>1, <3>2, <3>3, <3>4
  <2> QED BY <2>1, <2>2
<1>4. {<<"bin", d.uid, 0, m>> : m \in M \cap HasSN} = {x \in X : x[4] \in HasSN}
  <2>1. ASSUME NEW m \in M \cap HasSN PROVE <<"bin", d.uid, 0, m>> \in {x \in X : x[4] \in HasSN}
    <3>1. PICK x \in X : x = <<"bin", d.uid, 0, m>>  BY <1>2
    <3>2. x[4] = m  BY <3>1
    <3> QED BY <3>1, <3>2
  <2>2. ASSUME NEW x \in X, x[4] \in HasSN PROVE \E m \in M \cap HasSN : x = <<"bin", d.uid, 0, m>>
    <3>1. PICK m \in M : x = <<"bin", d.uid, 0, m>>  BY <1>2
    <3>2. x[4] = m  BY <3>1
    <3> QED BY <2>2, <3>1, <3>2
  <2> QED BY <2>1, <2>2
<1>5. d.curTime = t  OBVIOUS
<1>6. YieldsOfBins(d, last) = SetToBag({<< <<"bin", d.uid, 0, m>>, DecayTime(t, d.formTime + Lifetime[m])>> : m \in M})
  BY <1>1, <1>5 DEF YieldsOfBins
<1>7. SNOfBins(d, last) = SetToBag({<<"bin", d.uid, 0, m>> : m \in M \cap HasSN})
  BY <1>1 DEF SNOfBins
<1> QED BY <1>1, <1>3, <1>4, <1>6, <1>7

\* What is released in a step of a cluster.
LEMMA StepReleasesIs ==
  ASSUME NEW c, NEW t, StepOf(c, t), NEW d, Advanced(d, c, t)
  PROVE  StepReleases(d, c, t)
<1>1. d.dead = NewlyDead(c, t) /\ Static(d, c) /\ d.curTime = t /\ d.isoAge = t - c.formTime
  BY DEF Advanced
<1>2. /\ c.lastYieldTime = c.curTime \/ (c.curTime = c.formTime /\ c.lastYieldTime = 0)
      /\ c.lastFeedbackTime = c.curTime \/ (c.curTime = c.formTime /\ c.lastFeedbackTime = 0)
  BY DEF StepOf, ClusterCore, TimesKept
<1>3. PICK dead : dead = d.dead /\ dead = NewlyDead(c, t)  BY <1>1
<1>4. /\ YieldsOfStars(dead, t) = SetToBag(Released(DeathsOf(c, DiedStars(c, t)), t))
      /\ SNOfStars(dead) = SetToBag({x \in DiedStars(c, t) : x[4] \in HasSN})
  BY <1>3, StarsRelease
<1>5. PICK ly, lf : ly = c.lastYieldTime /\ lf = c.lastFeedbackTime  OBVIOUS
<1>6. ly = c.curTime \/ (c.curTime = c.formTime /\ ly = 0)  BY <1>2, <1>5
<1>7. lf = c.curTime \/ (c.curTime = c.formTime /\ lf = 0)  BY <1>2, <1>5
<1>8. /\ YieldsOfBins(d, ly) = SetToBag(Released(DeathsOf(c, DiedBins(c, t)), t))
      /\ SNOfBins(d, ly) = SetToBag({x \in DiedBins(c, t) : x[4] \in HasSN})
  <2>1. Static(d, c) /\ d.curTime = t /\ d.isoAge = t - c.formTime  BY <1>1
  <2> QED BY <1>6, <2>1, BinsRelease
<1>9. /\ YieldsOfBins(d, lf) = SetToBag(Released(DeathsOf(c, DiedBins(c, t)), t))
      /\ SNOfBins(d, lf) = SetToBag({x \in DiedBins(c, t) : x[4] \in HasSN})
  <2>1. Static(d, c) /\ d.curTime = t /\ d.isoAge = t - c.formTime  BY <1>1
  <2> QED BY <1>7, <2>1, BinsRelease
<1> QED BY <1>3, <1>4, <1>5, <1>8, <1>9 DEF StepReleases

\* What those have released of a cluster that are gone.
GoneYields(c) == SetToBag(Released(DeathsOf(c, Gone(c)), c.curTime))

\* The same, as it is said of a cluster.
LEMMA GoneYieldsIs ==
  ASSUME NEW c
  PROVE  /\ GoneYields(c) = SetToBag({<<x, DecayTime(c.curTime, DeathAt(c, x))>> : x \in Gone(c)})
         /\ ReleasesKept(c) <=>
              /\ c.yields = IF sc.yields THEN GoneYields(c) ELSE EmptyBag
              /\ c.stochSN = SetToBag({x \in Gone(c) : x[1] = "star" /\ x[4] \in HasSN})
              /\ c.nonStochSN = SetToBag({x \in Gone(c) : x[1] = "bin" /\ x[4] \in HasSN})
<1>1. PICK X, t : X = Gone(c) /\ t = c.curTime  OBVIOUS
<1>2. Released(DeathsOf(c, X), t) = {<<x, DecayTime(t, DeathAt(c, x))>> : x \in X}
  <2>1. ASSUME NEW x \in X PROVE <<x, DecayTime(t, DeathAt(c, x))>> \in Released(DeathsOf(c, X), t)
    <3>1. PICK p \in DeathsOf(c, X) : p = <<x, DeathAt(c, x)>>  BY DEF DeathsOf
    <3>2. <<p[1], DecayTime(t, p[2])>> \in Released(DeathsOf(c, X), t)  BY DEF Released
    <3> QED BY <3>1, <3>2
  <2>2. ASSUME NEW y \in Released(DeathsOf(c, X), t)
        PROVE  \E x \in X : y = <<x, DecayTime(t, DeathAt(c, x))>>
    <3>1. PICK p \in DeathsOf(c, X) : y = <<p[1], DecayTime(t, p[2])>>  BY DEF Released
    <3>2. PICK x \in X : p = <<x, DeathAt(c, x)>>  BY DEF DeathsOf
    <3> QED BY <3>1, <3>2
  <2> QED BY <2>1, <2>2
<1>3. GoneYields(c) = SetToBag({<<x, DecayTime(c.curTime, DeathAt(c, x))>> : x \in Gone(c)})
  BY <1>1, <1>2 DEF GoneYields
<1> QED BY <1>3 DEF ReleasesKept

\* What a cluster has released after a step.
LEMMA YieldsAdvance ==
  ASSUME NEW c, NEW t, StepOf(c, t), NEW d, Static(d, c), d.curTime = t
  PROVE  /\ ApplyDecay(t - c.curTime, GoneYields(c))
              (+) SetToBag(Released(DeathsOf(c, DiedStars(c, t)), t))
              (+) SetToBag(Released(DeathsOf(c, DiedBins(c, t)), t)) = GoneYields(d)
         /\ c.curTime = c.formTime =>
              \A u : ApplyDecay(u, GoneYields(c)) = ApplyDecay(t - c.curTime, GoneYields(c))
<1>1. PICK G, X, Y, now : G = Gone(c) /\ X = DiedStars(c, t) /\ Y = DiedBins(c, t) /\ now = c.curTime
  OBVIOUS
<1>2. /\ Gone(d) = G \cup X \cup Y /\ G \cap X = {} /\ (G \cup X) \cap Y = {}
      /\ \A x \in G : DeathAt(c, x) \in Nat
      /\ now = c.formTime => G = {}
  BY <1>1, GoneAdvances
<1>3. now \in Int /\ t \in Int  BY <1>1 DEF StepOf, ClusterCore, TimesKept
<1>4. PICK P, Q, R : P = DeathsOf(c, G) /\ Q = DeathsOf(c, X) /\ R = DeathsOf(c, Y)  OBVIOUS
<1>5. \A p \in P : p[2] \in Int  BY <1>2, <1>4 DEF DeathsOf
<1>6. ApplyDecay(t - now, SetToBag(Released(P, now))) = SetToBag(Released(P, t))
  BY <1>3, <1>5, ReleasedAges
<1>7. \A p \in P : \A q \in Q : p[1] # q[1]  BY <1>2, <1>4 DEF DeathsOf
<1>8. SetToBag(Released(P, t)) (+) SetToBag(Released(Q, t)) = SetToBag(Released(P \cup Q, t))
  BY <1>7, ReleasedAdds
<1>9. PICK U : U = P \cup Q  OBVIOUS
<1>10. \A p \in U : \A r \in R : p[1] # r[1]  BY <1>2, <1>4, <1>9 DEF DeathsOf
<1>11. SetToBag(Released(U, t)) (+) SetToBag(Released(R, t)) = SetToBag(Released(U \cup R, t))
  BY <1>10, ReleasedAdds
<1>12. U \cup R = DeathsOf(d, Gone(d))
  <2>1. \A x : DeathAt(d, x) = DeathAt(c, x)  BY StaticKeeps
  <2>2. U \cup R = {<<x, DeathAt(c, x)>> : x \in G \cup X \cup Y}  BY <1>4, <1>9 DEF DeathsOf
  <2> QED BY <1>2, <2>1, <2>2 DEF DeathsOf
<1>13. GoneYields(c) = SetToBag(Released(P, now)) /\ GoneYields(d) = SetToBag(Released(U \cup R, t))
  BY <1>1, <1>4, <1>12 DEF GoneYields
<1>14. ASSUME now = c.formTime, NEW u
       PROVE  ApplyDecay(u, GoneYields(c)) = ApplyDecay(t - now, GoneYields(c))
  <2>1. Released(P, now) = {}  BY <1>2, <1>4, <1>14 DEF DeathsOf, Released
  <2>2. PICK E : E = SetToBag({})  OBVIOUS
  <2>3. GoneYields(c) = E  BY <1>13, <2>1, <2>2
  <2>4. DOMAIN E = {}  BY <2>2 DEF SetToBag
  <2>5. \A v : ApplyDecay(v, E) = IF sc.noDecay THEN E ELSE [y \in {} |-> E[<<y[1], y[2] - v>>]]
    BY <2>4 DEF ApplyDecay, BagToSet
  <2>6. \A v, w : [y \in {} |-> E[<<y[1], y[2] - v>>]] = [y \in {} |-> E[<<y[1], y[2] - w>>]]
    OBVIOUS
  <2> QED BY <2>3, <2>5, <2>6
<1>15. ApplyDecay(t - now, GoneYields(c)) (+) SetToBag(Released(Q, t)) (+) SetToBag(Released(R, t))
         = GoneYields(d)
  BY <1>6, <1>8, <1>9, <1>11, <1>13
<1> QED BY <1>1, <1>4, <1>14, <1>15

\* A cluster that is advanced has counted the deaths there were, once.
LEMMA ClusterReleases ==
  ASSUME NEW c, NEW t, StepOf(c, t), ReleasesKept(c)
  PROVE  ReleasesKept(AdvanceCluster(c, t))
<1>1. CASE t = c.curTime /\ c.advanced  BY <1>1 DEF AdvanceCluster
<1>2. CASE ~(t = c.curTime /\ c.advanced)
  <2>1. PICK d : d = AdvanceCluster(c, t)  OBVIOUS
  <2>2. Advanced(d, c, t)  BY <1>2, <2>1, AdvanceIs DEF StepOf, ClusterCore, BirthKept
  <2>3. StepReleases(d, c, t)  BY <2>2, StepReleasesIs
  <2>4. Static(d, c) /\ d.curTime = t  BY <2>2 DEF Advanced
  <2>5. PICK G, X, Y : G = Gone(c) /\ X = DiedStars(c, t) /\ Y = DiedBins(c, t)  OBVIOUS
  <2>6. /\ Gone(d) = G \cup X \cup Y /\ G \cap X = {} /\ (G \cup X) \cap Y = {}
        /\ \A x \in X : x[1] = "star"
        /\ \A x \in Y : x[1] = "bin"
    BY <2>4, <2>5, GoneAdvances
  <2>7. d.yields = IF sc.yields THEN GoneYields(d) ELSE EmptyBag
    <3>1. c.yields = IF sc.yields THEN GoneYields(c) ELSE EmptyBag  BY GoneYieldsIs
    <3>2. CASE ~sc.yields  BY <2>2, <3>1, <3>2 DEF Advanced
    <3>3. CASE sc.yields
      <4>1. ApplyDecay(t - c.lastYieldTime, GoneYields(c)) = ApplyDecay(t - c.curTime, GoneYields(c))
        <5>1. CASE c.lastYieldTime = c.curTime  BY <5>1
        <5>2. CASE c.curTime = c.formTime  BY <2>4, <5>2, YieldsAdvance
        <5> QED BY <5>1, <5>2 DEF StepOf, ClusterCore, TimesKept
      <4>2. d.yields = ApplyDecay(t - c.lastYieldTime, GoneYields(c)) (+) YieldsOfStars(d.dead, t)
                         (+) YieldsOfBins(d, c.lastYieldTime)
        BY <2>2, <3>1, <3>3 DEF Advanced
      <4>3. ApplyDecay(t - c.curTime, GoneYields(c))
              (+) SetToBag(Released(DeathsOf(c, DiedStars(c, t)), t))
              (+) SetToBag(Released(DeathsOf(c, DiedBins(c, t)), t)) = GoneYields(d)
        BY <2>4, YieldsAdvance
      <4>4. d.yields = GoneYields(d)  BY <2>3, <4>1, <4>2, <4>3 DEF StepReleases
      <4> QED BY <3>3, <4>4
    <3> QED BY <3>2, <3>3
  <2>8. d.stochSN = SetToBag({x \in Gone(d) : x[1] = "star" /\ x[4] \in HasSN})
    <3>1. PICK A, B : A = {x \in G : x[1] = "star" /\ x[4] \in HasSN} /\ B = {x \in X : x[4] \in HasSN}
      OBVIOUS
    <3>2. d.stochSN = SetToBag(A) (+) SetToBag(B)
      BY <2>2, <2>3, <2>5, <3>1, GoneYieldsIs DEF Advanced, StepReleases
    <3>3. A \cap B = {}  BY <2>6, <3>1
    <3>4. SetToBag(A) (+) SetToBag(B) = SetToBag(A \cup B)  BY <3>3, BagsOfSets
    <3>5. A \cup B = {x \in Gone(d) : x[1] = "star" /\ x[4] \in HasSN}
      <4>1. \A x \in Y : x[1] # "star"  BY <2>6
      <4> QED BY <2>6, <3>1, <4>1
    <3> QED BY <3>2, <3>4, <3>5
  <2>9. d.nonStochSN = SetToBag({x \in Gone(d) : x[1] = "bin" /\ x[4] \in HasSN})
    <3>1. PICK A, B : A = {x \in G : x[1] = "bin" /\ x[4] \in HasSN} /\ B = {x \in Y : x[4] \in HasSN}
      OBVIOUS
    <3>2. d.nonStochSN = SetToBag(A) (+) SetToBag(B)
      BY <2>2, <2>3, <2>5, <3>1, GoneYieldsIs DEF Advanced, StepReleases
    <3>3. A \cap B = {}  BY <2>6, <3>1
    <3>4. SetToBag(A) (+) SetToBag(B) = SetToBag(A \cup B)  BY <3>3, BagsOfSets
    <3>5. A \cup B = {x \in Gone(d) : x[1] = "bin" /\ x[4] \in HasSN}
      <4>1. \A x \in X : x[1] # "bin"  BY <2>6
      <4> QED BY <2>6, <3>1, <4>1
    <3> QED BY <3>2, <3>4, <3>5
  <2>10. ReleasesKept(d)  BY <2>7, <2>8, <2>9, GoneYieldsIs
  <2> QED BY <2>1, <2>10
<1> QED BY <1>1, <1>2

\* A cluster that was just born has released nothing.
LEMMA FreshReleases ==
  ASSUME TapeOk, sc \in Controls, NEW c, ClusterCore(c), Fresh(c)
  PROVE  ReleasesKept(c)
<1>1. Gone(c) = {}
  <2>1. c.targetMass \in Nat /\ c.rngState \in Nat /\ c.formTime \in Nat
    BY DEF ClusterCore, BirthKept
  <2>2. \A x \in StarSrcs(c) \cup BinSrcs(c) : DeathAt(c, x) \in Nat /\ DeathAt(c, x) > c.formTime
    BY <2>1, ClusterStars
  <2>3. c.curTime = c.formTime  BY DEF Fresh
  <2>4. ASSUME NEW x \in StarSrcs(c) \cup BinSrcs(c) PROVE ~(DeathAt(c, x) < c.curTime)
    BY <2>1, <2>2, <2>3
  <2> QED BY <2>4 DEF Gone
<1>2. {<<x, DecayTime(c.curTime, DeathAt(c, x))>> : x \in Gone(c)} = {}  BY <1>1
<1> QED BY <1>1, <1>2, BagOfNothing DEF Fresh, ReleasesKept

\* Those of a set of stars of the census that have died by a time, and the supernovae of a set.
GoneIn(X, now) == {x \in X : DeathOf(x) < now}
DeathPairs(X) == {<<x.src, DeathOf(x)>> : x \in X}
SNIn(X) == {x.src : x \in {d \in X : d.src[4] \in HasSN}}
\* Stars that are told apart by where they come from.
Sourced(X) == \A x, y \in X : x.src = y.src => x = y

\* What stars have released, by their times of death.
LEMMA PairsReleased ==
  ASSUME NEW X, NEW t
  PROVE  Released(DeathPairs(X), t) = {<<x.src, DecayTime(t, DeathOf(x))>> : x \in X}
<1>1. ASSUME NEW x \in X PROVE <<x.src, DecayTime(t, DeathOf(x))>> \in Released(DeathPairs(X), t)
  <2>1. PICK p \in DeathPairs(X) : p = <<x.src, DeathOf(x)>>  BY DEF DeathPairs
  <2>2. <<p[1], DecayTime(t, p[2])>> \in Released(DeathPairs(X), t)  BY DEF Released
  <2> QED BY <2>1, <2>2
<1>2. ASSUME NEW y \in Released(DeathPairs(X), t)
      PROVE  \E x \in X : y = <<x.src, DecayTime(t, DeathOf(x))>>
  <2>1. PICK p \in DeathPairs(X) : y = <<p[1], DecayTime(t, p[2])>>  BY DEF Released
  <2>2. PICK x \in X : p = <<x.src, DeathOf(x)>>  BY DEF DeathPairs
  <2> QED BY <2>1, <2>2
<1> QED BY <1>1, <1>2

\* The stars that died between two times.
DiedIn(X, now, t) == {x \in X : now <= DeathOf(x) /\ DeathOf(x) < t}

\* A slot is what it is said to be.
LEMMA SlotIs ==
  ASSUME sc \in Controls, NEW t \in Nat, NEW x
  PROVE  x \in SlotsAt(t) <=>
           HasContinuous /\ \E s \in 1 .. t : \E m \in 1 .. sc.minStoch - 1 :
                              x = [src |-> <<"slot", s, 0, m>>, born |-> s]
<1>1. 0 + 1 = 1  OBVIOUS
<1> QED BY <1>1 DEF SlotsAt, SlotsBorn

\* When slots die.
LEMMA SlotDeaths ==
  ASSUME sc \in Controls, NEW m \in 1 .. sc.minStoch - 1, NEW s \in Nat
  PROVE  /\ StarLifetimeClamped(m) \in Nat /\ StarLifetimeClamped(m) >= 1
         /\ m \in MinTrack .. sc.minStoch - 1 => StarLifetimeClamped(m) = Lifetime[m]
         /\ m \notin MinTrack .. sc.minStoch - 1 => StarLifetimeClamped(m) = Never
<1>1. PICK stoch \in Int : stoch = sc.minStoch /\ stoch <= MaxMass + 1
  BY ControlsAssumption, TracksAssumption
<1>2. m \in 1 .. MaxMass /\ MinTrack \in Int  BY <1>1, TracksAssumption
<1>3. StarLifetimeClamped(m) \in Nat /\ StarLifetimeClamped(m) >= 1  BY <1>2, LifetimesAreNat
<1>4. m \in MinTrack .. sc.minStoch - 1 <=> ~(m < MinTrack)  BY <1>1, <1>2
<1> QED BY <1>3, <1>4 DEF StarLifetimeClamped

SlotsDied(now, t) == DiedIn(SlotsAt(t), now, t)

\* The slots, and those of them that die between two times.
LEMMA SlotsDie ==
  ASSUME sc \in Controls, NEW now \in Nat, NEW t \in Nat, now <= t
  PROVE  /\ \A x \in SlotsAt(t) : x.src[1] = "slot" /\ DeathOf(x) \in Nat
         /\ Sourced(SlotsAt(t))
         /\ SlotsAt(now) \subseteq SlotsAt(t)
         /\ GoneIn(SlotsAt(t), t) = GoneIn(SlotsAt(now), now) \cup SlotsDied(now, t)
         /\ GoneIn(SlotsAt(now), now) \cap SlotsDied(now, t) = {}
<1>1. ASSUME NEW x \in SlotsAt(t)
      PROVE  /\ x.src[1] = "slot" /\ DeathOf(x) \in Nat /\ DeathOf(x) > x.born
             /\ x = [src |-> x.src, born |-> x.src[2]]
             /\ x.born \in 1 .. t /\ (x.born <= now <=> x \in SlotsAt(now))
  <2>1. PICK s \in 1 .. t : \E m \in 1 .. sc.minStoch - 1 : x = [src |-> <<"slot", s, 0, m>>, born |-> s]
    BY SlotIs
  <2>2. PICK m \in 1 .. sc.minStoch - 1 : x = [src |-> <<"slot", s, 0, m>>, born |-> s]  BY <2>1
  <2>3. x.src = <<"slot", s, 0, m>> /\ x.born = s /\ x.src[4] = m /\ x.src[2] = s /\ x.src[1] = "slot"
    BY <2>2
  <2>4. PICK life \in Nat : life = StarLifetimeClamped(m) /\ life >= 1  BY SlotDeaths
  <2>5. DeathOf(x) = s + life  BY <2>3, <2>4 DEF DeathOf
  <2>6. s <= now => x \in SlotsAt(now)
    <3>1. ASSUME s <= now PROVE s \in 1 .. now
      BY <3>1
    <3> QED BY <2>2, <3>1, SlotIs
  <2>7. ASSUME x \in SlotsAt(now) PROVE s <= now
    <3>1. PICK r \in 1 .. now : \E k \in 1 .. sc.minStoch - 1 : x = [src |-> <<"slot", r, 0, k>>, born |-> r]
      BY <2>7, SlotIs
    <3>2. x.born = r  BY <3>1
    <3> QED BY <2>3, <3>1, <3>2
  <2> QED BY <2>2, <2>3, <2>4, <2>5, <2>6, <2>7
<1>2. Sourced(SlotsAt(t))
  <2>1. ASSUME NEW x \in SlotsAt(t), NEW y \in SlotsAt(t), x.src = y.src PROVE x = y
    <3>1. x = [src |-> x.src, born |-> x.src[2]] /\ y = [src |-> y.src, born |-> y.src[2]]  BY <1>1
    <3> QED BY <2>1, <3>1
  <2> QED BY <2>1 DEF Sourced
<1>3. SlotsAt(now) \subseteq SlotsAt(t)
  <2>1. ASSUME NEW x \in SlotsAt(now) PROVE x \in SlotsAt(t)
    <3>1. HasContinuous /\ \E s \in 1 .. now : \E m \in 1 .. sc.minStoch - 1 :
                              x = [src |-> <<"slot", s, 0, m>>, born |-> s]
      BY SlotIs
    <3>2. 1 .. now \subseteq 1 .. t  OBVIOUS
    <3>3. HasContinuous /\ \E s \in 1 .. t : \E m \in 1 .. sc.minStoch - 1 :
                              x = [src |-> <<"slot", s, 0, m>>, born |-> s]
      BY <3>1, <3>2
    <3> QED BY <3>3, SlotIs
  <2> QED BY <2>1
<1>4. ASSUME NEW x
      PROVE  /\ x \in GoneIn(SlotsAt(t), t) <=> x \in GoneIn(SlotsAt(now), now) \/ x \in SlotsDied(now, t)
             /\ ~(x \in GoneIn(SlotsAt(now), now) /\ x \in SlotsDied(now, t))
  <2>1. CASE x \notin SlotsAt(t)  BY <1>3, <2>1 DEF GoneIn, SlotsDied, DiedIn
  <2>2. CASE x \in SlotsAt(t)
    <3>1. PICK death \in Nat, born \in Nat : /\ death = DeathOf(x) /\ born = x.born /\ death > born
                                             /\ born <= now <=> x \in SlotsAt(now)
      BY <1>1, <2>2
    <3>2. /\ x \in GoneIn(SlotsAt(t), t) <=> death < t
          /\ x \in GoneIn(SlotsAt(now), now) <=> born <= now /\ death < now
          /\ x \in SlotsDied(now, t) <=> now <= death /\ death < t
      BY <2>2, <3>1 DEF GoneIn, SlotsDied, DiedIn
    <3> QED BY <3>1, <3>2
  <2> QED BY <2>1, <2>2
<1> QED BY <1>1, <1>2, <1>3, <1>4

\* What the integral over the deaths between two times gives is the slots that died.
LEMMA ContinuousDeathsAre ==
  ASSUME sc \in Controls, NEW now \in Nat, NEW t \in Nat, now <= t, t <= MaxTime
  PROVE  ContinuousDeaths(now, t) = DeathPairs(SlotsDied(now, t))
<1>1. MaxTime \in Nat /\ MaxTime < Never /\ Never \in Nat  BY GalaxyAssumption DEF Never
<1>2. CASE t = now
  <2>1. SlotsDied(now, t) = {}
    <3>1. ASSUME NEW x \in SlotsDied(now, t) PROVE FALSE
      <4>1. DeathOf(x) \in Nat /\ now <= DeathOf(x) /\ DeathOf(x) < t
        BY SlotsDie DEF SlotsDied, DiedIn
      <4> QED BY <1>2, <4>1
    <3> QED BY <3>1
  <2> QED BY <1>2, <2>1 DEF ContinuousDeaths, DeathPairs
<1>3. CASE ~HasContinuous
  <2>1. SlotsDied(now, t) = {}  BY <1>3, SlotIs DEF SlotsDied, DiedIn
  <2> QED BY <1>3, <2>1 DEF ContinuousDeaths, DeathPairs
<1>4. CASE now < t /\ HasContinuous
  <2>1. PICK stoch \in Int : stoch = sc.minStoch  BY ControlsAssumption, TracksAssumption
  <2>2. MinTrack .. stoch - 1 \subseteq 1 .. stoch - 1  BY TracksAssumption
  <2>3. ContinuousDeaths(now, t) = {d \in {<< <<"slot", s, 0, m>>, s + Lifetime[m]>> :
                                             s \in 1 .. t, m \in MinTrack .. stoch - 1} :
                                      now <= d[2] /\ d[2] < t}
    BY <1>4, <2>1 DEF ContinuousDeaths
  <2>4. ASSUME NEW d \in ContinuousDeaths(now, t) PROVE d \in DeathPairs(SlotsDied(now, t))
    <3>1. PICK s \in 1 .. t : \E m \in MinTrack .. stoch - 1 :
            d = << <<"slot", s, 0, m>>, s + Lifetime[m]>> /\ now <= d[2] /\ d[2] < t
      BY <2>3
    <3>2. PICK m \in MinTrack .. stoch - 1 :
            d = << <<"slot", s, 0, m>>, s + Lifetime[m]>> /\ now <= d[2] /\ d[2] < t
      BY <3>1
    <3>3. PICK x : x = [src |-> <<"slot", s, 0, m>>, born |-> s]  OBVIOUS
    <3>4. x \in SlotsAt(t)
      <4>1. m \in 1 .. stoch - 1  BY <2>2
      <4> QED BY <1>4, <2>1, <3>3, <4>1, SlotIs
    <3>5. x.src = <<"slot", s, 0, m>> /\ DeathOf(x) = d[2] /\ d[2] = s + Lifetime[m]
      <4>1. m \in 1 .. sc.minStoch - 1 /\ m \in MinTrack .. sc.minStoch - 1  BY <2>1, <2>2
      <4>2. StarLifetimeClamped(m) = Lifetime[m]  BY <4>1, SlotDeaths
      <4> QED BY <3>2, <3>3, <4>2 DEF DeathOf
    <3>6. x \in SlotsDied(now, t)  BY <3>2, <3>4, <3>5 DEF SlotsDied, DiedIn
    <3>7. d = <<x.src, DeathOf(x)>>  BY <3>2, <3>5
    <3> QED BY <3>6, <3>7 DEF DeathPairs
  <2>5. ASSUME NEW d \in DeathPairs(SlotsDied(now, t)) PROVE d \in ContinuousDeaths(now, t)
    <3>1. PICK x \in SlotsDied(now, t) : d = <<x.src, DeathOf(x)>>  BY DEF DeathPairs
    <3>2. x \in SlotsAt(t) /\ now <= DeathOf(x) /\ DeathOf(x) < t  BY <3>1 DEF SlotsDied, DiedIn
    <3>3. PICK s \in 1 .. t : \E m \in 1 .. sc.minStoch - 1 : x = [src |-> <<"slot", s, 0, m>>, born |-> s]
      BY <3>2, SlotIs
    <3>4. PICK m \in 1 .. sc.minStoch - 1 : x = [src |-> <<"slot", s, 0, m>>, born |-> s]  BY <3>3
    <3>5. x.src = <<"slot", s, 0, m>> /\ DeathOf(x) = s + StarLifetimeClamped(m)
      BY <3>4 DEF DeathOf
    <3>6. m \in MinTrack .. sc.minStoch - 1
      <4>1. CASE m \notin MinTrack .. sc.minStoch - 1
        <5>1. StarLifetimeClamped(m) = Never  BY <4>1, SlotDeaths
        <5> QED BY <1>1, <3>2, <3>5, <5>1
      <4> QED BY <4>1
    <3>7. StarLifetimeClamped(m) = Lifetime[m]  BY <3>6, SlotDeaths
    <3>8. d = << <<"slot", s, 0, m>>, s + Lifetime[m]>> /\ now <= d[2] /\ d[2] < t
      BY <3>1, <3>2, <3>5, <3>7
    <3> QED BY <2>1, <2>3, <3>6, <3>8
  <2> QED BY <2>4, <2>5
<1> QED BY <1>2, <1>3, <1>4

\* Field stars that are gone after a step were gone before or are taken off the list.
LEMMA FieldDies ==
  ASSUME NEW alive, NEW dead, NEW fs, NEW F, NEW new, NEW t \in Nat, curTime \in Nat, curTime <= t,
         FieldAged(alive, dead, fs, F, new, t)
  PROVE  /\ \A x \in F \cup StarsOf(new) : x.src[1] = "field" /\ DeathOf(x) \in Nat
         /\ Sourced(F \cup StarsOf(new))
         /\ GoneIn(F \cup StarsOf(new), t) = GoneIn(F, curTime) \cup StarsOf(dead)
         /\ GoneIn(F, curTime) \cap StarsOf(dead) = {}
         /\ StarsOf(dead) \subseteq F \cup StarsOf(new)
         /\ {<<s.src, DecayTime(t, s.deathTime)>> : s \in ToSet(dead)} = Released(DeathPairs(StarsOf(dead)), t)
         /\ {s.src : s \in {d \in ToSet(dead) : d.src[4] \in HasSN}} = SNIn(StarsOf(dead))
<1>1. PICK A, D : A = F \cup StarsOf(new) /\ D = StarsOf(dead)  OBVIOUS
<1>2. /\ FieldCensusOk(A, t)
      /\ D = {x \in A : DeathOf(x) < t /\ ~(x \in F /\ DeathOf(x) < curTime)}
      /\ \A s \in ToSet(dead) : s.deathTime = DeathOf(StarOf(s))
  BY <1>1 DEF FieldAged
<1>3. \A x \in A : DeathOf(x) \in Nat  BY <1>2, OldFieldStars
<1>4. (\A x \in A : x.src[1] = "field") /\ Sourced(A)  BY <1>2 DEF FieldCensusOk, Sourced
<1>5. F \subseteq A  BY <1>1
<1>6. ASSUME NEW x PROVE x \in GoneIn(A, t) <=> x \in GoneIn(F, curTime) \/ x \in D
  BY <1>2, <1>3, <1>5 DEF GoneIn
<1>7. GoneIn(F, curTime) \cap D = {}  BY <1>2 DEF GoneIn
<1>8. {<<s.src, DecayTime(t, s.deathTime)>> : s \in ToSet(dead)} = Released(DeathPairs(D), t)
  <2>1. Released(DeathPairs(D), t) = {<<x.src, DecayTime(t, DeathOf(x))>> : x \in D}
    BY PairsReleased
  <2>2. ASSUME NEW s \in ToSet(dead)
        PROVE  \E x \in D : <<s.src, DecayTime(t, s.deathTime)>> = <<x.src, DecayTime(t, DeathOf(x))>>
    <3>1. StarOf(s) \in D /\ StarOf(s).src = s.src /\ s.deathTime = DeathOf(StarOf(s))
      BY <1>1, <1>2 DEF StarsOf, StarOf
    <3> QED BY <3>1
  <2>3. ASSUME NEW x \in D
        PROVE  \E s \in ToSet(dead) : <<x.src, DecayTime(t, DeathOf(x))>> = <<s.src, DecayTime(t, s.deathTime)>>
    <3>1. PICK s \in ToSet(dead) : x = StarOf(s)  BY <1>1 DEF StarsOf
    <3>2. s.deathTime = DeathOf(x) /\ x.src = s.src  BY <1>2, <3>1 DEF StarOf
    <3> QED BY <3>2
  <2> QED BY <2>1, <2>2, <2>3
<1>9. {s.src : s \in {d \in ToSet(dead) : d.src[4] \in HasSN}} = SNIn(D)
  <2>1. ASSUME NEW s \in ToSet(dead), s.src[4] \in HasSN PROVE s.src \in SNIn(D)
    <3>1. PICK x \in D : x = StarOf(s)  BY <1>1 DEF StarsOf
    <3>2. x.src = s.src  BY <3>1 DEF StarOf
    <3> QED BY <2>1, <3>2 DEF SNIn
  <2>2. ASSUME NEW y \in SNIn(D) PROVE y \in {s.src : s \in {d \in ToSet(dead) : d.src[4] \in HasSN}}
    <3>1. PICK x \in D : x.src[4] \in HasSN /\ y = x.src  BY DEF SNIn
    <3>2. PICK s \in ToSet(dead) : x = StarOf(s)  BY <1>1 DEF StarsOf
    <3>3. x.src = s.src  BY <3>2 DEF StarOf
    <3> QED BY <3>1, <3>3
  <2> QED BY <2>1, <2>2
<1>10. GoneIn(A, t) = GoneIn(F, curTime) \cup D  BY <1>6
<1>11. D \subseteq A  BY <1>2
<1> QED BY <1>1, <1>3, <1>4, <1>7, <1>8, <1>9, <1>10, <1>11

Apart(A, B) == \A x \in A : \A y \in B : x.src # y.src

\* What two sets of stars, that have none in common, release adds up.
LEMMA PairsAdd ==
  ASSUME NEW t, NEW A, NEW B, Apart(A, B)
  PROVE  SetToBag(Released(DeathPairs(A), t)) (+) SetToBag(Released(DeathPairs(B), t))
           = SetToBag(Released(DeathPairs(A \cup B), t))
<1>1. \A p \in DeathPairs(A) : \A q \in DeathPairs(B) : p[1] # q[1]  BY DEF Apart, DeathPairs
<1>2. DeathPairs(A \cup B) = DeathPairs(A) \cup DeathPairs(B)  BY DEF DeathPairs
<1>3. PICK P, Q : P = DeathPairs(A) /\ Q = DeathPairs(B)  OBVIOUS
<1>4. SetToBag(Released(P, t)) (+) SetToBag(Released(Q, t)) = SetToBag(Released(P \cup Q, t))
  BY <1>1, <1>3, ReleasedAdds
<1> QED BY <1>2, <1>3, <1>4

\* And so do their supernovae.
LEMMA SNAdd ==
  ASSUME NEW A, NEW B, Apart(A, B)
  PROVE  SetToBag(SNIn(A)) (+) SetToBag(SNIn(B)) = SetToBag(SNIn(A \cup B))
<1>1. SNIn(A) \cap SNIn(B) = {} /\ SNIn(A \cup B) = SNIn(A) \cup SNIn(B)  BY DEF Apart, SNIn
<1>2. SetToBag(SNIn(A)) (+) SetToBag(SNIn(B)) = SetToBag(SNIn(A) \cup SNIn(B))  BY <1>1, BagsOfSets
<1> QED BY <1>1, <1>2

\* What was released by a time decays until a later one.
LEMMA PairsAge ==
  ASSUME NEW X, \A x \in X : DeathOf(x) \in Nat, NEW now \in Nat, NEW t \in Nat
  PROVE  ApplyDecay(t - now, SetToBag(Released(DeathPairs(X), now))) = SetToBag(Released(DeathPairs(X), t))
<1>1. PICK P : P = DeathPairs(X)  OBVIOUS
<1>2. \A p \in P : p[2] \in Int  BY <1>1 DEF DeathPairs
<1>3. now \in Int /\ t \in Int  OBVIOUS
<1>4. ApplyDecay(t - now, SetToBag(Released(P, now))) = SetToBag(Released(P, t))
  BY <1>2, <1>3, ReleasedAges
<1> QED BY <1>1, <1>4

\* Those of a cluster that are gone, as the census knows them.
LEMMA MembersGone ==
  ASSUME TapeOk, sc \in Controls, NEW c, ClusterCore(c), NEW now, now = c.curTime
  PROVE  /\ DeathsOf(c, Gone(c)) = DeathPairs(GoneIn(Members(c), now))
         /\ {x \in Gone(c) : x[4] \in HasSN} = SNIn(GoneIn(Members(c), now))
         /\ \A x \in Gone(c) : x[1] \in {"star", "bin"} /\ x[2] = c.uid
<1>1. PICK X, M : X = StarSrcs(c) \cup BinSrcs(c) /\ M = Members(c)  OBVIOUS
<1>2. M = {[src |-> x, born |-> c.formTime] : x \in X}  BY <1>1 DEF Members
<1>3. Gone(c) = {x \in X : DeathAt(c, x) < now}  BY <1>1 DEF Gone
<1>4. ASSUME NEW x \in X PROVE DeathOf([src |-> x, born |-> c.formTime]) = DeathAt(c, x)
  BY DEF DeathOf, DeathAt
<1>5. ASSUME NEW y \in GoneIn(M, now)
      PROVE  y.src \in Gone(c) /\ DeathOf(y) = DeathAt(c, y.src)
  <2>1. PICK x \in X : y = [src |-> x, born |-> c.formTime]  BY <1>2 DEF GoneIn
  <2>2. y.src = x /\ DeathOf(y) = DeathAt(c, x)  BY <1>4, <2>1
  <2>3. DeathOf(y) < now  BY DEF GoneIn
  <2> QED BY <1>3, <2>2, <2>3
<1>6. ASSUME NEW x \in Gone(c)
      PROVE  \E y \in GoneIn(M, now) : y.src = x /\ DeathOf(y) = DeathAt(c, x)
  <2>1. x \in X /\ DeathAt(c, x) < now  BY <1>3
  <2>2. PICK y \in M : y = [src |-> x, born |-> c.formTime]  BY <1>2, <2>1
  <2>3. y.src = x /\ DeathOf(y) = DeathAt(c, x)  BY <1>4, <2>1, <2>2
  <2>4. y \in GoneIn(M, now)  BY <2>1, <2>3 DEF GoneIn
  <2> QED BY <2>3, <2>4
<1>7. PICK G, H : G = Gone(c) /\ H = GoneIn(M, now)  OBVIOUS
<1>8. DeathsOf(c, G) = DeathPairs(H)
  <2>1. ASSUME NEW p \in DeathsOf(c, G) PROVE p \in DeathPairs(H)
    <3>1. PICK x \in G : p = <<x, DeathAt(c, x)>>  BY DEF DeathsOf
    <3>2. PICK y \in H : y.src = x /\ DeathOf(y) = DeathAt(c, x)  BY <1>6, <1>7
    <3> QED BY <3>1, <3>2 DEF DeathPairs
  <2>2. ASSUME NEW p \in DeathPairs(H) PROVE p \in DeathsOf(c, G)
    <3>1. PICK y \in H : p = <<y.src, DeathOf(y)>>  BY DEF DeathPairs
    <3>2. y.src \in G /\ DeathOf(y) = DeathAt(c, y.src)  BY <1>5, <1>7
    <3> QED BY <3>1, <3>2 DEF DeathsOf
  <2> QED BY <2>1, <2>2
<1>9. {x \in G : x[4] \in HasSN} = SNIn(H)
  <2>1. ASSUME NEW x \in G, x[4] \in HasSN PROVE x \in SNIn(H)
    <3>1. PICK y \in H : y.src = x  BY <1>6, <1>7
    <3> QED BY <2>1, <3>1 DEF SNIn
  <2>2. ASSUME NEW x \in SNIn(H) PROVE x \in G /\ x[4] \in HasSN
    <3>1. PICK y \in H : y.src = x /\ y.src[4] \in HasSN  BY DEF SNIn
    <3> QED BY <1>5, <1>7, <3>1
  <2> QED BY <2>1, <2>2
<1>10. \A x \in X : x[1] \in {"star", "bin"} /\ x[2] = c.uid
  <2>1. c.targetMass \in Nat /\ c.rngState \in Nat /\ c.formTime \in Nat
    BY DEF ClusterCore, BirthKept
  <2> QED BY <1>1, <2>1, ClusterStars
<1> QED BY <1>1, <1>3, <1>7, <1>8, <1>9, <1>10

\* Clusters at one time that have released what they should.
ReleasedList(l, now) ==
  /\ TapeOk /\ sc \in Controls /\ Distinct(l)
  /\ \A c \in ToSet(l) : ClusterCore(c) /\ ReleasesKept(c) /\ c.curTime = now

\* What the clusters of a list have released adds up to what their stars have.
LEMMA ClustersYield ==
  ASSUME NEW l, NEW now, ReleasedList(l, now), sc.yields
  PROVE  SumOf([i \in DOMAIN l |-> l[i].yields])
           = SetToBag(Released(DeathPairs(GoneIn(MembersOf(ToSet(l)), now)), now))
<1>1. PICK S, n : S = ToSet(l) /\ n = Len(l)  OBVIOUS
<1>2. n \in Nat /\ DOMAIN l = 1 .. n /\ \A i \in 1 .. n : l[i] \in S
  BY <1>1, ListPlaces DEF ReleasedList, Distinct
<1>3. PICK sets : sets = [c \in S |-> Released(DeathPairs(GoneIn(Members(c), now)), now)]  OBVIOUS
<1>4. ASSUME NEW c \in S PROVE c.yields = SetToBag(sets[c]) /\ \A y \in sets[c] : y[1][2] = c.uid
  <2>1. ClusterCore(c) /\ ReleasesKept(c) /\ now = c.curTime /\ TapeOk /\ sc \in Controls
    BY <1>1 DEF ReleasedList
  <2>2. c.yields = GoneYields(c)  BY <2>1, GoneYieldsIs
  <2>3. DeathsOf(c, Gone(c)) = DeathPairs(GoneIn(Members(c), now))  BY <2>1, MembersGone
  <2>4. c.yields = SetToBag(sets[c])  BY <1>3, <2>1, <2>2, <2>3 DEF GoneYields
  <2>5. \A x \in Gone(c) : x[2] = c.uid  BY <2>1, MembersGone
  <2>6. sets[c] = Released(DeathsOf(c, Gone(c)), now)  BY <1>3, <2>3
  <2>7. \A y \in sets[c] : y[1][2] = c.uid  BY <2>5, <2>6 DEF Released, DeathsOf
  <2> QED BY <2>4, <2>7
<1>5. PICK bags : bags = [i \in 1 .. n |-> SetToBag(sets[l[i]])]  OBVIOUS
<1>6. [i \in DOMAIN l |-> l[i].yields] = bags  BY <1>2, <1>4, <1>5
<1>7. SumOf(bags) = SetToBag(UNION {sets[c] : c \in ToSet(l)})
  <2>1. Distinct(l)  BY DEF ReleasedList
  <2>2. \A c \in ToSet(l) : \A y \in sets[c] : y[1][2] = c.uid  BY <1>1, <1>4
  <2> QED BY <1>1, <1>5, <2>1, <2>2, SumOverList
<1>8. UNION {sets[c] : c \in S} = Released(DeathPairs(GoneIn(MembersOf(S), now)), now)
  <2>1. \A X : Released(DeathPairs(X), now) = {<<x.src, DecayTime(now, DeathOf(x))>> : x \in X}
    BY PairsReleased
  <2>2. \A c \in S : sets[c] = {<<x.src, DecayTime(now, DeathOf(x))>> : x \in GoneIn(Members(c), now)}
    BY <1>3, <2>1
  <2>3. \A x : x \in GoneIn(MembersOf(S), now) <=> \E c \in S : x \in GoneIn(Members(c), now)
    BY MembersOfIs DEF GoneIn
  <2>4. PICK G : G = GoneIn(MembersOf(S), now)  OBVIOUS
  <2>5. ASSUME NEW c \in S, NEW y \in sets[c] PROVE \E x \in G : y = <<x.src, DecayTime(now, DeathOf(x))>>
    BY <2>2, <2>3, <2>4
  <2>6. ASSUME NEW x \in G PROVE \E c \in S : <<x.src, DecayTime(now, DeathOf(x))>> \in sets[c]
    BY <2>2, <2>3, <2>4
  <2>7. UNION {sets[c] : c \in S} = {<<x.src, DecayTime(now, DeathOf(x))>> : x \in G}  BY <2>5, <2>6
  <2> QED BY <2>1, <2>4, <2>7
<1> QED BY <1>1, <1>6, <1>7, <1>8

\* And likewise the supernovae.
LEMMA ClustersExplode ==
  ASSUME NEW l, NEW now, ReleasedList(l, now)
  PROVE  SumOf([i \in DOMAIN l |-> l[i].stochSN (+) l[i].nonStochSN])
           = SetToBag(SNIn(GoneIn(MembersOf(ToSet(l)), now)))
<1>1. PICK S, n : S = ToSet(l) /\ n = Len(l)  OBVIOUS
<1>2. n \in Nat /\ DOMAIN l = 1 .. n /\ \A i \in 1 .. n : l[i] \in S
  BY <1>1, ListPlaces DEF ReleasedList, Distinct
<1>3. PICK sets : sets = [c \in S |-> SNIn(GoneIn(Members(c), now))]  OBVIOUS
<1>4. ASSUME NEW c \in S
      PROVE  c.stochSN (+) c.nonStochSN = SetToBag(sets[c]) /\ \A x \in sets[c] : x[2] = c.uid
  <2>1. ClusterCore(c) /\ ReleasesKept(c) /\ now = c.curTime /\ TapeOk /\ sc \in Controls
    BY <1>1 DEF ReleasedList
  <2>2. PICK G : G = Gone(c)  OBVIOUS
  <2>3. PICK A, B : /\ A = {x \in G : x[1] = "star" /\ x[4] \in HasSN}
                    /\ B = {x \in G : x[1] = "bin" /\ x[4] \in HasSN}
    OBVIOUS
  <2>4. c.stochSN = SetToBag(A) /\ c.nonStochSN = SetToBag(B)  BY <2>1, <2>2, <2>3, GoneYieldsIs
  <2>5. A \cap B = {}  BY <2>3
  <2>6. SetToBag(A) (+) SetToBag(B) = SetToBag(A \cup B)  BY <2>5, BagsOfSets
  <2>7. {x \in G : x[4] \in HasSN} = sets[c] /\ \A x \in G : x[1] \in {"star", "bin"} /\ x[2] = c.uid
    BY <1>3, <2>1, <2>2, MembersGone
  <2>8. A \cup B = sets[c]  BY <2>3, <2>7
  <2> QED BY <2>4, <2>6, <2>7, <2>8
<1>5. PICK bags : bags = [i \in 1 .. n |-> SetToBag(sets[l[i]])]  OBVIOUS
<1>6. [i \in DOMAIN l |-> l[i].stochSN (+) l[i].nonStochSN] = bags  BY <1>2, <1>4, <1>5
<1>7. SumOf(bags) = SetToBag(UNION {sets[c] : c \in ToSet(l)})
  <2>1. Distinct(l)  BY DEF ReleasedList
  <2>2. \A c, d \in ToSet(l) : c.uid # d.uid => sets[c] \cap sets[d] = {}  BY <1>1, <1>4
  <2> QED BY <1>1, <1>5, <2>1, <2>2, SumOverSets
<1>8. UNION {sets[c] : c \in S} = SNIn(GoneIn(MembersOf(S), now))
  <2>1. \A x : x \in GoneIn(MembersOf(S), now) <=> \E c \in S : x \in GoneIn(Members(c), now)
    BY MembersOfIs DEF GoneIn
  <2>2. PICK G : G = GoneIn(MembersOf(S), now)  OBVIOUS
  <2>3. \A c \in S : sets[c] = {x.src : x \in {d \in GoneIn(Members(c), now) : d.src[4] \in HasSN}}
    BY <1>3 DEF SNIn
  <2>4. UNION {sets[c] : c \in S} = {x.src : x \in {d \in G : d.src[4] \in HasSN}}
    <3>1. ASSUME NEW c \in S, NEW y \in sets[c] PROVE \E x \in G : x.src[4] \in HasSN /\ y = x.src
      BY <2>1, <2>2, <2>3
    <3>2. ASSUME NEW x \in G, x.src[4] \in HasSN PROVE \E c \in S : x.src \in sets[c]
      BY <2>1, <2>2, <2>3, <3>2
    <3> QED BY <3>1, <3>2
  <2> QED BY <2>2, <2>4 DEF SNIn
<1> QED BY <1>1, <1>6, <1>7, <1>8

\* The stars that are in no cluster, and have died by the end of a step.
RestGone(F, now) == GoneIn(F \cup SlotsAt(now), now)

\* What a step adds to what stars that are in no cluster have released.
RestSteps(F, F2, dead, t) ==
  /\ ApplyDecay(t - curTime, SetToBag(Released(DeathPairs(RestGone(F, curTime)), curTime)))
       (+) SetToBag({<<s.src, DecayTime(t, s.deathTime)>> : s \in ToSet(dead)})
       (+) SetToBag({<<d[1], DecayTime(t, d[2])>> : d \in ContinuousDeaths(curTime, t)})
       = SetToBag(Released(DeathPairs(RestGone(F2, t)), t))
  /\ SetToBag(SNIn(GoneIn(F, curTime)))
       (+) SetToBag({s.src : s \in {d \in ToSet(dead) : d.src[4] \in HasSN}})
       = SetToBag(SNIn(GoneIn(F2, t)))
  /\ SetToBag(SNIn(GoneIn(SlotsAt(curTime), curTime)))
       (+) SetToBag({d[1] : d \in {e \in ContinuousDeaths(curTime, t) : e[1][4] \in HasSN}})
       = SetToBag(SNIn(GoneIn(SlotsAt(t), t)))

\* What is released in a step by stars that are in no cluster.
LEMMA RestReleases ==
  ASSUME sc \in Controls, curTime \in Nat, NEW t \in Nat, curTime <= t, t <= MaxTime,
         NEW alive, NEW dead, NEW fs, NEW F, NEW new, FieldAged(alive, dead, fs, F, new, t),
         NEW F2, F2 = F \cup StarsOf(new)
  PROVE  RestSteps(F, F2, dead, t)
<1>0. PICK now \in Nat : now = curTime  OBVIOUS
<1>1. PICK A, B, D, E, slots, older :
        /\ A = GoneIn(F, now) /\ B = GoneIn(SlotsAt(now), now)
        /\ D = StarsOf(dead) /\ E = SlotsDied(now, t)
        /\ slots = SlotsAt(t) /\ older = SlotsAt(now)
  OBVIOUS
<1>2. /\ \A x \in F2 : x.src[1] = "field" /\ DeathOf(x) \in Nat
      /\ Sourced(F2) /\ GoneIn(F2, t) = A \cup D /\ A \cap D = {} /\ D \subseteq F2
      /\ {<<s.src, DecayTime(t, s.deathTime)>> : s \in ToSet(dead)} = Released(DeathPairs(D), t)
      /\ {s.src : s \in {d \in ToSet(dead) : d.src[4] \in HasSN}} = SNIn(D)
  <2>1. curTime \in Nat /\ curTime <= t  OBVIOUS
  <2>2. /\ \A x \in F \cup StarsOf(new) : x.src[1] = "field" /\ DeathOf(x) \in Nat
        /\ Sourced(F \cup StarsOf(new))
        /\ GoneIn(F \cup StarsOf(new), t) = GoneIn(F, curTime) \cup StarsOf(dead)
        /\ GoneIn(F, curTime) \cap StarsOf(dead) = {}
        /\ StarsOf(dead) \subseteq F \cup StarsOf(new)
        /\ {<<s.src, DecayTime(t, s.deathTime)>> : s \in ToSet(dead)} = Released(DeathPairs(StarsOf(dead)), t)
        /\ {s.src : s \in {d \in ToSet(dead) : d.src[4] \in HasSN}} = SNIn(StarsOf(dead))
    BY <2>1, FieldDies
  <2> QED BY <1>0, <1>1, <2>2
<1>3. /\ \A x \in slots : x.src[1] = "slot" /\ DeathOf(x) \in Nat
      /\ Sourced(slots) /\ older \subseteq slots /\ GoneIn(slots, t) = B \cup E /\ B \cap E = {}
  BY <1>0, <1>1, SlotsDie
<1>4. A \subseteq F2 /\ B \subseteq slots /\ E \subseteq slots
  BY <1>1, <1>2, <1>3 DEF GoneIn, SlotsDied, DiedIn
<1>5. Apart(A, D) /\ Apart(B, E)  BY <1>2, <1>3, <1>4 DEF Apart, Sourced
<1>6. Apart(A \cup B, D)
  <2>1. ASSUME NEW x \in B, NEW y \in D PROVE x.src # y.src
    <3>1. x.src[1] = "slot" /\ y.src[1] = "field"  BY <1>2, <1>3, <1>4
    <3> QED BY <3>1
  <2> QED BY <1>5, <2>1 DEF Apart
<1>7. Apart(A \cup B \cup D, E)
  <2>1. ASSUME NEW x \in A \cup D, NEW y \in E PROVE x.src # y.src
    <3>1. x.src[1] = "field" /\ y.src[1] = "slot"  BY <1>2, <1>3, <1>4
    <3> QED BY <3>1
  <2> QED BY <1>5, <2>1 DEF Apart
<1>8. RestGone(F, now) = A \cup B  BY <1>1 DEF RestGone, GoneIn
<1>9. RestGone(F2, t) = A \cup B \cup D \cup E
  <2>1. RestGone(F2, t) = GoneIn(F2, t) \cup GoneIn(slots, t)  BY <1>1 DEF RestGone, GoneIn
  <2> QED BY <1>2, <1>3, <2>1
<1>10. ContinuousDeaths(curTime, t) = DeathPairs(E)  BY <1>0, <1>1, ContinuousDeathsAre
<1>11. {<<d[1], DecayTime(t, d[2])>> : d \in ContinuousDeaths(curTime, t)} = Released(DeathPairs(E), t)
  BY <1>10 DEF Released
<1>12. {d[1] : d \in {e \in ContinuousDeaths(curTime, t) : e[1][4] \in HasSN}} = SNIn(E)
  <2>1. ASSUME NEW e \in DeathPairs(E), e[1][4] \in HasSN PROVE e[1] \in SNIn(E)
    <3>1. PICK x \in E : e = <<x.src, DeathOf(x)>>  BY DEF DeathPairs
    <3> QED BY <2>1, <3>1 DEF SNIn
  <2>2. ASSUME NEW y \in SNIn(E) PROVE \E e \in DeathPairs(E) : e[1][4] \in HasSN /\ y = e[1]
    <3>1. PICK x \in E : x.src[4] \in HasSN /\ y = x.src  BY DEF SNIn
    <3>2. PICK e \in DeathPairs(E) : e = <<x.src, DeathOf(x)>>  BY DEF DeathPairs
    <3> QED BY <3>1, <3>2
  <2> QED BY <1>10, <2>1, <2>2
<1>13. PICK U : U = A \cup B  OBVIOUS
<1>14. \A x \in U : DeathOf(x) \in Nat
  <2>1. \A x \in A : DeathOf(x) \in Nat  BY <1>2, <1>4
  <2>2. \A x \in B : DeathOf(x) \in Nat  BY <1>3, <1>4
  <2> QED BY <1>13, <2>1, <2>2
<1>15. ApplyDecay(t - now, SetToBag(Released(DeathPairs(U), now))) = SetToBag(Released(DeathPairs(U), t))
  BY <1>14, PairsAge
<1>apart. Apart(U, D)  BY <1>6, <1>13
<1>16. SetToBag(Released(DeathPairs(U), t)) (+) SetToBag(Released(DeathPairs(D), t))
         = SetToBag(Released(DeathPairs(U \cup D), t))
  BY <1>apart, PairsAdd
<1>17. PICK W : W = U \cup D /\ Apart(W, E)  BY <1>7, <1>13
<1>18. SetToBag(Released(DeathPairs(W), t)) (+) SetToBag(Released(DeathPairs(E), t))
         = SetToBag(Released(DeathPairs(W \cup E), t))
  BY <1>17, PairsAdd
<1>19. ApplyDecay(t - curTime, SetToBag(Released(DeathPairs(RestGone(F, curTime)), curTime)))
         = SetToBag(Released(DeathPairs(U), t))
  BY <1>0, <1>8, <1>13, <1>15
<1>20. RestGone(F2, t) = W \cup E  BY <1>9, <1>13, <1>17
<1>21. SetToBag(SNIn(A)) (+) SetToBag(SNIn(D)) = SetToBag(SNIn(A \cup D))  BY <1>5, SNAdd
<1>22. SetToBag(SNIn(B)) (+) SetToBag(SNIn(E)) = SetToBag(SNIn(B \cup E))  BY <1>5, SNAdd
<1>23. SetToBag(Released(DeathPairs(U), t)) (+) SetToBag(Released(DeathPairs(D), t))
         (+) SetToBag(Released(DeathPairs(E), t)) = SetToBag(Released(DeathPairs(RestGone(F2, t)), t))
  BY <1>16, <1>17, <1>18, <1>20
<1>24. /\ ApplyDecay(t - curTime, SetToBag(Released(DeathPairs(RestGone(F, curTime)), curTime)))
              (+) SetToBag({<<s.src, DecayTime(t, s.deathTime)>> : s \in ToSet(dead)})
              (+) SetToBag({<<d[1], DecayTime(t, d[2])>> : d \in ContinuousDeaths(curTime, t)})
              = SetToBag(Released(DeathPairs(RestGone(F2, t)), t))
  BY <1>2, <1>11, <1>19, <1>23
<1> QED BY <1>0, <1>1, <1>2, <1>3, <1>12, <1>21, <1>22, <1>24 DEF RestSteps

\* The census in its parts.
LEMMA CensusGone ==
  ASSUME TapeOk, sc \in Controls, NEW g, NEW cens, NEW now, now \in Nat, NEW uid, PopOk(g, cens, now, uid)
  PROVE  /\ GoneIn(cens, now) = GoneIn(MembersOf(ClustersOf(g)), now) \cup RestGone(FieldOf(cens), now)
         /\ Apart(RestGone(FieldOf(cens), now), GoneIn(MembersOf(ClustersOf(g)), now))
         /\ RestGone(FieldOf(cens), now) = GoneIn(FieldOf(cens), now) \cup GoneIn(SlotsAt(now), now)
         /\ Apart(GoneIn(FieldOf(cens), now), GoneIn(SlotsAt(now), now))
<1>1. PICK M, F, S : M = MembersOf(ClustersOf(g)) /\ F = FieldOf(cens) /\ S = SlotsAt(now)  OBVIOUS
<1>2. cens = M \cup F \cup S  BY <1>1 DEF PopOk, CensusIs
<1>3. \A x \in F : x.src[1] = "field"  BY <1>1 DEF FieldOf
<1>4. \A x \in S : x.src[1] = "slot"  BY <1>1, KindsApart
<1>5. \A x \in M : x.src[1] \in {"star", "bin"}
  <2>1. ASSUME NEW x \in M PROVE x.src[1] \in {"star", "bin"}
    <3>1. PICK c \in ClustersOf(g) : x \in Members(c)  BY <1>1, MembersOfIs
    <3>2. ClusterCore(c)  BY <3>1 DEF PopOk, ListsOk, ClusterOk, ClustersOf
    <3> QED BY <3>1, <3>2, KindsApart
  <2> QED BY <2>1
<1>6. RestGone(F, now) = GoneIn(F, now) \cup GoneIn(S, now)  BY <1>1 DEF RestGone, GoneIn
<1>7. GoneIn(cens, now) = GoneIn(M, now) \cup RestGone(F, now)  BY <1>1, <1>2 DEF RestGone, GoneIn
<1>8. Apart(GoneIn(F, now), GoneIn(S, now))
  <2>1. ASSUME NEW x \in GoneIn(F, now), NEW y \in GoneIn(S, now) PROVE x.src # y.src
    <3>1. x.src[1] = "field" /\ y.src[1] = "slot"  BY <1>3, <1>4 DEF GoneIn
    <3> QED BY <3>1
  <2> QED BY <2>1 DEF Apart
<1>9. Apart(RestGone(F, now), GoneIn(M, now))
  <2>1. ASSUME NEW x \in RestGone(F, now), NEW y \in GoneIn(M, now) PROVE x.src # y.src
    <3>1. x.src[1] \in {"field", "slot"} /\ y.src[1] \in {"star", "bin"}
      BY <1>3, <1>4, <1>5, <1>6 DEF GoneIn
    <3> QED BY <3>1
  <2> QED BY <2>1 DEF Apart
<1> QED BY <1>1, <1>6, <1>7, <1>8, <1>9

\* What a galaxy has counted of the deaths of the stars of a census, at a time.
Counted(cens, now, fy, y, ss, ns) ==
  /\ fy = IF sc.yields THEN SetToBag(Released(DeathPairs(RestGone(FieldOf(cens), now)), now)) ELSE EmptyBag
  /\ y = IF sc.yields THEN SetToBag(Released(DeathPairs(GoneIn(cens, now)), now)) ELSE EmptyBag
  /\ ss = SetToBag(SNIn(GoneIn(FieldOf(cens), now)))
  /\ ns = SetToBag(SNIn(GoneIn(SlotsAt(now), now)))

\* What the galaxy and its clusters have released is what has died.
RelInv ==
  /\ lastYieldTime = curTime /\ lastFeedbackTime = curTime
  /\ Counted(census, curTime, fieldYields, yields, stochSNe, nonStochSNe)
  /\ \A c \in ClustersOf(gal) : ReleasesKept(c)

\* The clusters after a step have counted what died in them.
LEMMA ClustersCounted ==
  ASSUME PopInv, RelInv, NEW t \in curTime .. MaxTime, NEW formed, NEW g, NEW dead, PopStepped(t, formed, g, dead)
  PROVE  \A c \in ClustersOf(g) : ReleasesKept(c)
<1>1. Ready(t)  BY ReadyHolds
<1>2. TapeOk /\ sc \in Controls /\ t \in Nat /\ t <= MaxTime /\ curTime \in Nat /\ curTime <= t
  BY <1>1 DEF Ready
<1>3. /\ FormedIs(formed, t)
      /\ ListsAged(g.clusters, g.disrupted, gal.clusters, gal.disrupted, formed, t)
  BY DEF PopStepped
<1>4. ClustersOf(g) = {AdvanceCluster(c, t) : c \in ClustersOf(gal) \cup ToSet(formed.clusters)}
  BY <1>3 DEF ListsAged, ClustersOf
<1>5. ASSUME NEW c \in ClustersOf(gal) PROVE StepOf(c, t) /\ ReleasesKept(c)
  <2>1. ClusterCore(c) /\ c.curTime = curTime  BY DEF PopInv, ListsOk, ClusterOk, ClustersOf
  <2>2. ReleasesKept(c)  BY DEF RelInv
  <2> QED BY <1>2, <2>1, <2>2 DEF StepOf
<1>6. ASSUME NEW c \in ToSet(formed.clusters) PROVE StepOf(c, t) /\ ReleasesKept(c)
  <2>1. PICK k \in Nat : ClustersBorn(formed.clusters, nextUid, k, t)  BY <1>3 DEF FormedIs
  <2>2. nextUid \in Nat  BY DEF PopInv, Base
  <2>3. PICK cs : cs = formed.clusters  OBVIOUS
  <2>4. ClusterCore(c) /\ Fresh(c) /\ c.formTime \in curTime + 1 .. t
    <3>1. ClustersBorn(cs, nextUid, k, t) /\ c \in ToSet(cs)  BY <2>1, <2>3
    <3> QED BY <2>2, <3>1, NewClusters
  <2>5. c.curTime = c.formTime /\ c.curTime <= t  BY <1>2, <2>4 DEF Fresh
  <2>6. ReleasesKept(c)  BY <1>2, <2>4, FreshReleases
  <2> QED BY <1>2, <2>4, <2>5, <2>6 DEF StepOf
<1>7. ASSUME NEW c \in ClustersOf(gal) \cup ToSet(formed.clusters) PROVE ReleasesKept(AdvanceCluster(c, t))
  <2>1. StepOf(c, t) /\ ReleasesKept(c)  BY <1>5, <1>6
  <2> QED BY <2>1, ClusterReleases
<1> QED BY <1>4, <1>7

\* What the galaxy does with its yields and supernovae in a step.
StepCounts(t, g, dead, fy, y, ss, ns) ==
  /\ IF sc.yields THEN fy = FieldYieldsAfter(t, dead) /\ y = YieldsAfter(g.clusters \o g.disrupted, fy)
     ELSE fy = fieldYields /\ y = yields
  /\ ss = stochSNe (+) SetToBag({s.src : s \in {d \in ToSet(dead) : d.src[4] \in HasSN}})
  /\ ns = nonStochSNe
            (+) SetToBag({d[1] : d \in {e \in ContinuousDeaths(lastFeedbackTime, t) : e[1][4] \in HasSN}})

\* The clusters after a step, as they are summed over.
LEMMA ListReleased ==
  ASSUME PopInv, RelInv, NEW t \in curTime .. MaxTime, NEW formed, NEW g, NEW dead, PopStepped(t, formed, g, dead)
  PROVE  ReleasedList(g.clusters \o g.disrupted, t) /\ ToSet(g.clusters \o g.disrupted) = ClustersOf(g)
<1>1. ListsOk(g.clusters, g.disrupted, t, formed.uid)  BY DEF PopStepped, ListsAged
<1>2. PICK uid : ListsOk(g.clusters, g.disrupted, t, uid)  BY <1>1
<1>3. PICK l : l = Listed(g)  OBVIOUS
<1>4. Distinct(l) /\ ToSet(l) = ClustersOf(g)  BY <1>2, <1>3, ListedIs
<1>5. \A c \in ClustersOf(g) : ReleasesKept(c)  BY ClustersCounted
<1>6. \A c \in ClustersOf(g) : ClusterCore(c) /\ c.curTime = t
  BY <1>2 DEF ListsOk, ClusterOk, ClustersOf
<1>7. TapeOk /\ sc \in Controls  BY DEF PopInv, Base
<1> QED BY <1>3, <1>4, <1>5, <1>6, <1>7 DEF ReleasedList, Listed

\* A step counts each death there is in it, once.
LEMMA StepCounted ==
  ASSUME PopInv, RelInv, NEW t \in curTime .. MaxTime, NEW formed, NEW g, NEW dead, PopStepped(t, formed, g, dead),
         NEW fy, NEW y, NEW ss, NEW ns, StepCounts(t, g, dead, fy, y, ss, ns),
         NEW cens, cens = census \cup Born(t, formed)
  PROVE  Counted(cens, t, fy, y, ss, ns)
<1>1. TapeOk /\ sc \in Controls /\ t \in Nat /\ t <= MaxTime /\ curTime \in Nat /\ curTime <= t
  <2>1. Ready(t)  BY ReadyHolds
  <2> QED BY <2>1 DEF Ready
<1>2. /\ lastYieldTime = curTime /\ lastFeedbackTime = curTime
      /\ Counted(census, curTime, fieldYields, yields, stochSNe, nonStochSNe)
  BY DEF RelInv
<1>3. /\ FieldAged(g.fieldStars, dead, gal.fieldStars, FieldOf(census), formed.field, t)
      /\ FieldOf(cens) = FieldOf(census) \cup StarsOf(formed.field)
      /\ PopOk(g, cens, t, formed.uid)
  BY DEF PopStepped
<1>4. PICK F, F2, alive, new, fs, uid :
        /\ F = FieldOf(census) /\ F2 = FieldOf(cens) /\ alive = g.fieldStars /\ new = formed.field
        /\ fs = gal.fieldStars /\ uid = formed.uid
  OBVIOUS
<1>5. FieldAged(alive, dead, fs, F, new, t) /\ F2 = F \cup StarsOf(new)  BY <1>3, <1>4
<1>6. RestSteps(F, F2, dead, t)  BY <1>1, <1>5, RestReleases
<1>7. ss = SetToBag(SNIn(GoneIn(F2, t)))  BY <1>2, <1>4, <1>6 DEF StepCounts, Counted, RestSteps
<1>8. ns = SetToBag(SNIn(GoneIn(SlotsAt(t), t)))  BY <1>2, <1>6 DEF StepCounts, Counted, RestSteps
<1>9. CASE ~sc.yields  BY <1>2, <1>4, <1>7, <1>8, <1>9 DEF StepCounts, Counted
<1>10. CASE sc.yields
  <2>1. fy = SetToBag(Released(DeathPairs(RestGone(F2, t)), t))
    <3>1. fieldYields = SetToBag(Released(DeathPairs(RestGone(F, curTime)), curTime))
      BY <1>2, <1>4, <1>10 DEF Counted
    <3>2. fy = ApplyDecay(t - curTime, fieldYields)
                 (+) SetToBag({<<s.src, DecayTime(t, s.deathTime)>> : s \in ToSet(dead)})
                 (+) SetToBag({<<d[1], DecayTime(t, d[2])>> : d \in ContinuousDeaths(curTime, t)})
      BY <1>2, <1>10 DEF StepCounts, FieldYieldsAfter
    <3> QED BY <1>6, <3>1, <3>2 DEF RestSteps
  <2>2. PICK l : l = g.clusters \o g.disrupted  OBVIOUS
  <2>3. ReleasedList(l, t) /\ ToSet(l) = ClustersOf(g)  BY <2>2, ListReleased
  <2>4. PICK A, B : A = RestGone(F2, t) /\ B = GoneIn(MembersOf(ClustersOf(g)), t)  OBVIOUS
  <2>5. SumOf([i \in DOMAIN l |-> l[i].yields]) = SetToBag(Released(DeathPairs(B), t))
    BY <1>10, <2>3, <2>4, ClustersYield
  <2>6. y = fy (+) SumOf([i \in DOMAIN l |-> l[i].yields])
    BY <1>10, <2>2 DEF StepCounts, YieldsAfter, Each
  <2>7. PopOk(g, cens, t, uid)  BY <1>3, <1>4
  <2>8. GoneIn(cens, t) = B \cup A /\ Apart(A, B)
    <3>1. /\ GoneIn(cens, t) = GoneIn(MembersOf(ClustersOf(g)), t) \cup RestGone(FieldOf(cens), t)
          /\ Apart(RestGone(FieldOf(cens), t), GoneIn(MembersOf(ClustersOf(g)), t))
      BY <1>1, <2>7, CensusGone
    <3> QED BY <1>4, <2>4, <3>1
  <2>9. SetToBag(Released(DeathPairs(A), t)) (+) SetToBag(Released(DeathPairs(B), t))
          = SetToBag(Released(DeathPairs(A \cup B), t))
    BY <2>8, PairsAdd
  <2>10. A \cup B = GoneIn(cens, t)  BY <2>8
  <2>11. y = SetToBag(Released(DeathPairs(GoneIn(cens, t)), t))
    BY <2>1, <2>4, <2>5, <2>6, <2>9, <2>10
  <2> QED BY <1>4, <1>7, <1>8, <1>10, <2>1, <2>11 DEF Counted
<1> QED BY <1>9, <1>10

\* What clusters have released does not change unless the tape or the controls do.
LEMMA ReleasesPrimed ==
  ASSUME tape' = tape, sc' = sc
  PROVE  \A c : ReleasesKept(c)' <=> ReleasesKept(c)
<1>1. \A m, p : BirthDraws(m, p)' = BirthDraws(m, p)
  <2>1. \A m : StochMass(m)' = StochMass(m)  BY DEF StochMass, MassAbove
  <2>2. \A p, m, lo, hi : DrawTarget(p, m, lo, hi)' = DrawTarget(p, m, lo, hi)
    BY DEF DrawTarget, Overshoot, Draws, DrawAt
  <2>3. \A p, lo, hi : DrawAt(p, lo, hi)' = DrawAt(p, lo, hi)  BY DEF DrawAt
  <2> QED BY <2>1, <2>2, <2>3 DEF BirthDraws
<1>2. \A c : BirthMasses(c)' = BirthMasses(c)  BY <1>1 DEF BirthMasses
<1>3. \A c : StarSrcs(c)' = StarSrcs(c) /\ BinSrcs(c)' = BinSrcs(c)  BY <1>2 DEF StarSrcs, BinSrcs
<1>4. \A c : Gone(c)' = Gone(c)  BY <1>3 DEF Gone, DeathAt
<1>5. ASSUME NEW c PROVE ReleasesKept(c)' <=> ReleasesKept(c)
  BY <1>4 DEF ReleasesKept, DecayTime, DeathAt
<1> QED BY <1>5

\* What has been counted after a step.
LEMMA RelPrimed ==
  ASSUME tape' = tape, sc' = sc, NEW g, g = gal', NEW cens, cens = census', NEW now, now = curTime',
         NEW fy, fy = fieldYields', NEW y, y = yields', NEW ss, ss = stochSNe', NEW ns, ns = nonStochSNe',
         lastYieldTime' = now, lastFeedbackTime' = now,
         Counted(cens, now, fy, y, ss, ns), \A c \in ClustersOf(g) : ReleasesKept(c)
  PROVE  RelInv'
<1>1. \A P, t : Released(P, t)' = Released(P, t)  BY DEF Released, DecayTime
<1>2. \A t : SlotsAt(t)' = SlotsAt(t)  BY Unchanging
<1>3. /\ RestGone(FieldOf(census), curTime)' = RestGone(FieldOf(cens), now)
      /\ GoneIn(census, curTime)' = GoneIn(cens, now)
      /\ GoneIn(FieldOf(census), curTime)' = GoneIn(FieldOf(cens), now)
      /\ GoneIn(SlotsAt(curTime), curTime)' = GoneIn(SlotsAt(now), now)
  BY <1>2 DEF RestGone, GoneIn, FieldOf
<1>4. Counted(census, curTime, fieldYields, yields, stochSNe, nonStochSNe)'
  <2>1. fieldYields' = IF sc' .yields THEN SetToBag(Released(DeathPairs(RestGone(FieldOf(census), curTime)), curTime))'
                       ELSE EmptyBag
    BY <1>1, <1>3 DEF Counted
  <2>2. yields' = IF sc' .yields THEN SetToBag(Released(DeathPairs(GoneIn(census, curTime)), curTime))' ELSE EmptyBag
    BY <1>1, <1>3 DEF Counted
  <2>3. /\ stochSNe' = SetToBag(SNIn(GoneIn(FieldOf(census), curTime)))'
        /\ nonStochSNe' = SetToBag(SNIn(GoneIn(SlotsAt(curTime), curTime)))'
    BY <1>3 DEF Counted
  <2> QED BY <2>1, <2>2, <2>3 DEF Counted
<1>5. \A c \in ClustersOf(gal)' : ReleasesKept(c)'
  <2>1. ClustersOf(gal)' = ClustersOf(g)  BY DEF ClustersOf
  <2> QED BY <2>1, ReleasesPrimed
<1> QED BY <1>4, <1>5 DEF RelInv

\* Results that are asked for release nothing.
LEMMA AskedReleases ==
  ASSUME GalInv, RelInv, Asked
  PROVE  RelInv'
<1>1. PICK g : g = gal' /\ GalTouched(g, gal)  BY DEF Asked
<1>2. PICK old : old = gal  OBVIOUS
<1>3. Distinct(old.clusters) /\ Distinct(old.disrupted)  BY <1>2 DEF GalInv, PopInv, ListsOk
<1>4. TouchedList(g.clusters, old.clusters) /\ TouchedList(g.disrupted, old.disrupted)
  BY <1>1, <1>2 DEF GalTouched
<1>5. ASSUME NEW d \in ClustersOf(g) PROVE ReleasesKept(d)
  <2>1. \E c \in ClustersOf(old) : Touched(d, c)  BY <1>3, <1>4, TouchedKeeps DEF ClustersOf
  <2>2. PICK c \in ClustersOf(old) : Touched(d, c)  BY <2>1
  <2>3. ReleasesKept(c)  BY <1>2 DEF RelInv
  <2>4. Same(d, c) /\ IsCluster(d)  BY <2>2 DEF Touched
  <2> QED BY <2>3, <2>4, SameKeeps
<1>6. /\ tape' = tape /\ sc' = sc /\ curTime' = curTime /\ yields' = yields /\ fieldYields' = fieldYields
      /\ lastYieldTime' = lastYieldTime /\ lastFeedbackTime' = lastFeedbackTime /\ stochSNe' = stochSNe
      /\ nonStochSNe' = nonStochSNe /\ census' = census
  BY DEF Asked
<1>7. PICK cens, now, fy, y, ss, ns : /\ cens = census' /\ now = curTime' /\ fy = fieldYields' /\ y = yields'
                                      /\ ss = stochSNe' /\ ns = nonStochSNe'
  OBVIOUS
<1>8. Counted(cens, now, fy, y, ss, ns) /\ lastYieldTime' = now /\ lastFeedbackTime' = now
  BY <1>6, <1>7 DEF RelInv
<1> QED BY <1>1, <1>5, <1>6, <1>7, <1>8, RelPrimed

\* The galaxy advances, and releases what dies.
LEMMA AdvanceReleases ==
  ASSUME GalInv, RelInv, NEW t \in curTime .. MaxTime, Advance(t)
  PROVE  RelInv'
<1>1. PICK formed : /\ Stepped(t, formed, gal', deadFieldStars')
                    /\ curTime' = t /\ census' = census \cup Born(t, formed)
                    /\ UNCHANGED <<tape, sc, rate>> /\ ReleasedBy(t)
  BY AdvanceStep DEF GalInv
<1>2. PICK g, dead, cens : g = gal' /\ dead = deadFieldStars' /\ cens = census'  OBVIOUS
<1>3. PICK fy, y, ss, ns : fy = fieldYields' /\ y = yields' /\ ss = stochSNe' /\ ns = nonStochSNe'
  OBVIOUS
<1>4. PopStepped(t, formed, g, dead)  BY <1>1, <1>2, StepIs DEF GalInv
<1>5. StepCounts(t, g, dead, fy, y, ss, ns) /\ lastYieldTime' = t /\ lastFeedbackTime' = t
  BY <1>1, <1>2, <1>3 DEF ReleasedBy, StepCounts
<1>6. PopInv  BY DEF GalInv
<1>7. Counted(cens, t, fy, y, ss, ns)  BY <1>1, <1>2, <1>4, <1>5, <1>6, StepCounted
<1>8. \A c \in ClustersOf(g) : ReleasesKept(c)  BY <1>4, <1>6, ClustersCounted
<1>9. tape' = tape /\ sc' = sc /\ t = curTime'  BY <1>1
<1> QED BY <1>2, <1>3, <1>5, <1>7, <1>8, <1>9, RelPrimed

\* Before anything has formed nothing has been released.
LEMMA InitReleases ==
  ASSUME Init
  PROVE  RelInv
<1>1. /\ gal.clusters = <<>> /\ gal.disrupted = <<>> /\ census = {} /\ curTime = 0
      /\ yields = EmptyBag /\ fieldYields = EmptyBag /\ lastYieldTime = 0
      /\ stochSNe = EmptyBag /\ nonStochSNe = EmptyBag /\ lastFeedbackTime = 0
  BY DEF Init, Construct
<1>2. ToSet(<<>>) = {}  BY DEF ToSet
<1>3. ClustersOf(gal) = {}  BY <1>1, <1>2 DEF ClustersOf
<1>4. FieldOf(census) = {} /\ SlotsAt(curTime) = {}  BY <1>1 DEF FieldOf, SlotsAt, SlotsBorn
<1>5. /\ RestGone(FieldOf(census), curTime) = {} /\ GoneIn(census, curTime) = {}
      /\ GoneIn(FieldOf(census), curTime) = {} /\ GoneIn(SlotsAt(curTime), curTime) = {}
  BY <1>1, <1>4 DEF RestGone, GoneIn
<1>6. SNIn({}) = {} /\ \A t : Released(DeathPairs({}), t) = {}  BY DEF SNIn, Released, DeathPairs
<1>7. Counted(census, curTime, fieldYields, yields, stochSNe, nonStochSNe)
  BY <1>1, <1>5, <1>6, BagOfNothing DEF Counted
<1> QED BY <1>1, <1>3, <1>7 DEF RelInv

\* What has been released and counted is what the census says has died.
LEMMA DeathsHold ==
  ASSUME GalInv, RelInv
  PROVE  DeathsCountedOnce
<1>1. PopInv /\ TapeOk /\ sc \in Controls /\ curTime \in Nat  BY DEF GalInv, PopInv, Base
<1>2. PopOk(gal, census, curTime, nextUid)  BY <1>1 DEF PopInv, PopOk
<1>3. PICK g, cens, now, uid : g = gal /\ cens = census /\ now = curTime /\ uid = nextUid  OBVIOUS
<1>4. PICK M, F, S : /\ M = GoneIn(MembersOf(ClustersOf(g)), now)
                     /\ F = GoneIn(FieldOf(cens), now) /\ S = GoneIn(SlotsAt(now), now)
  OBVIOUS
<1>5. /\ GoneIn(cens, now) = M \cup RestGone(FieldOf(cens), now)
      /\ Apart(RestGone(FieldOf(cens), now), M)
      /\ RestGone(FieldOf(cens), now) = F \cup S
      /\ Apart(F, S)
  <2>1. /\ GoneIn(cens, now) = GoneIn(MembersOf(ClustersOf(g)), now) \cup RestGone(FieldOf(cens), now)
        /\ Apart(RestGone(FieldOf(cens), now), GoneIn(MembersOf(ClustersOf(g)), now))
        /\ RestGone(FieldOf(cens), now) = GoneIn(FieldOf(cens), now) \cup GoneIn(SlotsAt(now), now)
        /\ Apart(GoneIn(FieldOf(cens), now), GoneIn(SlotsAt(now), now))
    <3>1. PopOk(g, cens, now, uid) /\ now \in Nat  BY <1>1, <1>2, <1>3
    <3> QED BY <1>1, <3>1, CensusGone
  <2> QED BY <1>4, <2>1
<1>6. Dead = GoneIn(cens, now)  BY <1>3 DEF Dead, GoneIn
<1>7. Counted(cens, now, fieldYields, yields, stochSNe, nonStochSNe)  BY <1>3 DEF RelInv
<1>8. yields = IF sc.yields THEN SetToBag({<<x.src, DecayTime(curTime, DeathOf(x))>> : x \in Dead}) ELSE EmptyBag
  <2>1. Released(DeathPairs(Dead), now) = {<<x.src, DecayTime(now, DeathOf(x))>> : x \in Dead}
    BY PairsReleased
  <2> QED BY <1>3, <1>6, <1>7, <2>1 DEF Counted
<1>9. PICK l : l = Listed(gal)  OBVIOUS
<1>10. ReleasedList(l, now) /\ ToSet(l) = ClustersOf(g)
  <2>1. AllClusters = ClustersOf(gal) /\ Distinct(Listed(gal))  BY <1>1, AllAreListed
  <2>2. ToSet(l) = ClustersOf(g) /\ Distinct(l)  BY <1>3, <1>9, <2>1 DEF AllClusters
  <2>3. \A c \in ClustersOf(g) : ClusterCore(c) /\ c.curTime = now  BY <1>1, <1>3, CensusKinds
  <2>4. \A c \in ClustersOf(g) : ReleasesKept(c)  BY <1>3 DEF RelInv
  <2> QED BY <1>1, <2>2, <2>3, <2>4 DEF ReleasedList
<1>11. SumOf([i \in DOMAIN l |-> l[i].stochSN (+) l[i].nonStochSN]) = SetToBag(SNIn(M))
  <2>1. SumOf([i \in DOMAIN l |-> l[i].stochSN (+) l[i].nonStochSN])
          = SetToBag(SNIn(GoneIn(MembersOf(ToSet(l)), now)))
    BY <1>10, ClustersExplode
  <2> QED BY <1>4, <1>10, <2>1
<1>12. SetToBag(SNIn(F)) (+) SetToBag(SNIn(S)) = SetToBag(SNIn(F \cup S))  BY <1>5, SNAdd
<1>13. PICK R : R = F \cup S  OBVIOUS
<1>14. Apart(R, M)  BY <1>5, <1>13
<1>15. SetToBag(SNIn(R)) (+) SetToBag(SNIn(M)) = SetToBag(SNIn(R \cup M))  BY <1>14, SNAdd
<1>16. R \cup M = Dead  BY <1>5, <1>6, <1>13
<1>17. stochSNe = SetToBag(SNIn(F)) /\ nonStochSNe = SetToBag(SNIn(S))  BY <1>4, <1>7 DEF Counted
<1>18. SumOf(Each(LAMBDA c : c.stochSN (+) c.nonStochSN, Listed(gal))) = SetToBag(SNIn(M))
  BY <1>9, <1>11 DEF Each
<1>19. stochSNe (+) nonStochSNe (+) SumOf(Each(LAMBDA c : c.stochSN (+) c.nonStochSN, Listed(gal)))
         = SetToBag(SNIn(Dead))
  BY <1>12, <1>13, <1>15, <1>16, <1>17, <1>18
<1> QED BY <1>8, <1>19 DEF DeathsCountedOnce, SNIn

\* Every star that died has released its yields once, decayed since its death, and every
\* supernova is counted once, however the evolution is cut into steps.
THEOREM DeathsAlwaysCountedOnce == Spec => []DeathsCountedOnce
<1>1. Init => RelInv  BY InitReleases
<1>2. GalInv /\ RelInv /\ [Next]_vars => RelInv'
  <2> SUFFICES ASSUME GalInv, RelInv, [Next]_vars PROVE RelInv'
    OBVIOUS
  <2>1. CASE \E t \in curTime .. MaxTime : Advance(t)  BY <2>1, AdvanceReleases
  <2>2. CASE Asked  BY <2>2, AskedReleases
  <2> QED BY <2>1, <2>2, StepOrAsked
<1>3. GalInv /\ RelInv => DeathsCountedOnce  BY DeathsHold
<1> QED BY <1>1, <1>2, <1>3, GalaxyInvariant, PTL DEF Spec

=============================================================================
