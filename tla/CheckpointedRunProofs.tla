----------------------- MODULE CheckpointedRunProofs ------------------------
(***************************************************************************)
(* The split of a batch of trials over the ranks; and that IInv is an      *)
(* invariant of CheckpointedRun, for any numbers of ranks, threads, trials *)
(* and sessions, and with it TypeOK and RanksAgree. DiskInv is an          *)
(* invariant of CheckpointedRun, for any numbers of ranks, threads, trials *)
(* and sessions: a rollover finds the name of its next checkpoint free,    *)
(* and no step takes the rows of a closed file from the disk. Only a trial *)
(* writes a row, with its number: no other step of the program, merging a  *)
(* checkpoint included, adds one. A rank has its own files and no others;  *)
(* the ranks go through batches together; and their trials of a batch are  *)
(* apart.                                                                  *)
(***************************************************************************)
EXTENDS RunInvariant, FiniteSetTheorems, TLAPS

-----------------------------------------------------------------------------
(* The split of a batch over the ranks.                                    *)

\* What the / and % of mpiPartitionRange return.
LEMMA DivMod ==
  ASSUME NEW total \in Nat, NEW n \in Nat \ {0}
  PROVE  /\ Base(total, n) \in Nat
         /\ Remainder(total, n) \in Nat
         /\ Remainder(total, n) < n
         /\ total = n * Base(total, n) + Remainder(total, n)
BY DEF Base, Remainder

\* The products the proofs below meet.
LEMMA Product ==
  ASSUME NEW m \in Nat, NEW n \in Nat, NEW b \in Nat, m <= n
  PROVE  m * b \in Nat /\ n * b \in Nat /\ m * b <= n * b
<1>1. (n - m) * b \in Nat  OBVIOUS
<1>2. n * b = m * b + (n - m) * b  OBVIOUS
<1> QED BY <1>1, <1>2

\* The slices lie end to end in the order of the ranks, so a later rank starts
\* no earlier than a rank before it ends.
LEMMA SlicesInOrder ==
  ASSUME NEW n \in Nat \ {0}, NEW q \in Nat, NEW r \in Nat, q < r,
         NEW first \in Nat, NEW last \in Nat, first <= last
  PROVE  RankLast(q, n, first, last) <= RankFirst(r, n, first, last)
<1> DEFINE b == Base(last - first, n)
           m == Remainder(last - first, n)
<1>1. b \in Nat /\ m \in Nat  BY DivMod
<1>2. (q + 1) * b <= r * b /\ r * b \in Nat  BY <1>1, Product, q + 1 <= r
<1>3. (q + 1) * b = q * b + b /\ q * b \in Nat  BY <1>1
<1> HIDE DEF b, m
<1>4. q * b + Lesser(q, m) + b + (IF q < m THEN 1 ELSE 0) <= r * b + Lesser(r, m)
  BY <1>1, <1>2, <1>3 DEF Lesser
<1>5. RankFirst(r, n, first, last) = first + (r * b + Lesser(r, m))
  BY DEF RankFirst, PrecedingCount, b, m
<1>6. RankLast(q, n, first, last)
        = first + (q * b + Lesser(q, m)) + (b + (IF q < m THEN 1 ELSE 0))
  BY DEF RankLast, RankFirst, PrecedingCount, MyCount, b, m
<1>7. Lesser(q, m) \in Nat /\ Lesser(r, m) \in Nat  BY <1>1 DEF Lesser
<1> QED BY <1>1, <1>2, <1>3, <1>4, <1>5, <1>6, <1>7

\* Slice is empty before the first and ends with the last trial of the batch.
LEMMA SliceEnds ==
  ASSUME NEW n \in Nat \ {0}, NEW first \in Nat, NEW last \in Nat, first <= last
  PROVE  /\ RankFirst(0, n, first, last) = first
         /\ RankFirst(n, n, first, last) = last
<1> DEFINE b == Base(last - first, n)
           m == Remainder(last - first, n)
<1>1. b \in Nat /\ m \in Nat /\ m < n /\ last - first = n * b + m  BY DivMod
<1>2. n * b \in Nat /\ 0 * b = 0  BY <1>1
<1>3. RankFirst(0, n, first, last) = first + (0 * b + Lesser(0, m))
  BY DEF RankFirst, PrecedingCount
<1>4. RankFirst(n, n, first, last) = first + (n * b + Lesser(n, m))
  BY DEF RankFirst, PrecedingCount
<1> HIDE DEF b, m
<1>5. Lesser(0, m) = 0 /\ Lesser(n, m) = m  BY <1>1 DEF Lesser
<1> QED BY <1>1, <1>2, <1>3, <1>4, <1>5

\* No trial of a batch is given to two ranks (mpiPartitionRange).
THEOREM SlicesDisjoint ==
  ASSUME NEW n \in Nat \ {0}, NEW first \in Nat, NEW last \in Nat, first <= last,
         NEW q \in 0 .. n - 1, NEW r \in 0 .. n - 1, q # r
  PROVE  Slice(q, n, first, last) \cap Slice(r, n, first, last) = {}
<1>1. ASSUME NEW i \in 0 .. n - 1, NEW j \in 0 .. n - 1, i < j
      PROVE  Slice(i, n, first, last) \cap Slice(j, n, first, last) = {}
  <2>1. RankLast(i, n, first, last) <= RankFirst(j, n, first, last)  BY <1>1, SlicesInOrder
  <2>2. /\ RankLast(i, n, first, last) \in Int
        /\ RankFirst(j, n, first, last) \in Int
    <3>0. last - first \in Nat  OBVIOUS
    <3>1. Base(last - first, n) \in Nat /\ Remainder(last - first, n) \in Nat  BY <3>0, DivMod
    <3>2. i \in Nat /\ j \in Nat /\ i <= j  BY <1>1
    <3>3. i * Base(last - first, n) \in Nat /\ j * Base(last - first, n) \in Nat
      BY <3>1, <3>2, Product
    <3> QED BY <3>1, <3>2, <3>3 DEF RankLast, RankFirst, PrecedingCount, MyCount, Lesser
  <2> QED BY <2>1, <2>2 DEF Slice
<1> QED BY <1>1

\* Of two multiples of b the smaller is that of the smaller number.
LEMMA Cancel ==
  ASSUME NEW m \in Nat, NEW n \in Nat, NEW b \in Nat, m * b < n * b
  PROVE  m < n
<1>1. CASE n <= m  BY <1>1, Product
<1> QED BY <1>1

\* Division, as the inequalities it is used for.
LEMMA Quotient ==
  ASSUME NEW k \in Nat, NEW b \in Nat \ {0}
  PROVE  /\ k \div b \in Nat
         /\ (k \div b) * b \in Nat
         /\ (k \div b) * b <= k
         /\ k < (k \div b) * b + b
<1>1. k \div b \in Nat /\ k % b \in Nat /\ k % b < b /\ k = b * (k \div b) + (k % b)  OBVIOUS
<1>2. b * (k \div b) = (k \div b) * b /\ (k \div b) * b \in Nat  BY <1>1
<1> QED BY <1>1, <1>2

\* Every trial of a batch is given to some rank (mpiPartitionRange).
THEOREM SlicesCover ==
  ASSUME NEW n \in Nat \ {0}, NEW first \in Nat, NEW last \in Nat, first <= last
  PROVE  UNION {Slice(r, n, first, last) : r \in 0 .. n - 1} = first .. last - 1
<1> DEFINE b == Base(last - first, n)
           m == Remainder(last - first, n)
           S == UNION {Slice(r, n, first, last) : r \in 0 .. n - 1}
<1>1. b \in Nat /\ m \in Nat /\ m < n /\ last - first = n * b + m  BY DivMod
<1>2. ASSUME NEW r \in Nat, r < n
      PROVE  /\ r < m => Slice(r, n, first, last)
                          = first + (r * b + r) .. first + (r * b + r) + b
             /\ m <= r => Slice(r, n, first, last)
                          = first + (r * b + m) .. first + (r * b + m) + b - 1
  <2>1. r * b \in Nat  BY <1>1
  <2>2. RankFirst(r, n, first, last) = first + (r * b + Lesser(r, m))
    BY DEF RankFirst, PrecedingCount
  <2>3. RankLast(r, n, first, last)
          = first + (r * b + Lesser(r, m)) + (b + (IF r < m THEN 1 ELSE 0))
    BY <2>2 DEF RankLast, MyCount
  <2> HIDE DEF b, m
  <2> QED BY <1>1, <1>2, <2>1, <2>2, <2>3 DEF Slice, Lesser
<1>3. S \subseteq first .. last - 1
  <2> SUFFICES ASSUME NEW r \in 0 .. n - 1, NEW i \in Slice(r, n, first, last)
               PROVE  i \in first .. last - 1
    OBVIOUS
  <2> HIDE DEF b, m
  <2>0. r \in Nat /\ r < n /\ r + 1 \in Nat /\ r + 1 <= n /\ r <= n  OBVIOUS
  <2>1. (r + 1) * b <= n * b /\ r * b \in Nat /\ (r + 1) * b = r * b + b
        /\ n * b \in Nat
    <3>1. (r + 1) * b <= n * b /\ r * b \in Nat /\ n * b \in Nat  BY <1>1, <2>0, Product
    <3>2. (r + 1) * b = r * b + b  BY <1>1, <2>0
    <3> QED BY <3>1, <3>2
  <2>2. CASE r < m
    <3>1. i \in first + (r * b + r) .. first + (r * b + r) + b  BY <1>2, <2>0, <2>2
    <3> QED BY <1>1, <2>1, <2>2, <3>1
  <2>3. CASE m <= r
    <3>1. i \in first + (r * b + m) .. first + (r * b + m) + b - 1  BY <1>2, <2>0, <2>3
    <3> QED BY <1>1, <2>1, <2>3, <3>1
  <2> QED BY <1>1, <2>0, <2>2, <2>3
<1>4. first .. last - 1 \subseteq S
  <2> SUFFICES ASSUME NEW i \in first .. last - 1
               PROVE  \E r \in 0 .. n - 1 : i \in Slice(r, n, first, last)
    OBVIOUS
  <2> DEFINE k == i - first
  <2>1. n * b \in Nat /\ m * b \in Nat  BY <1>1
  <2>2. k \in Nat /\ k < n * b + m  BY <1>1
  <2> HIDE DEF b, m
  <2>3. CASE k < m * b + m
    <3> DEFINE r == k \div (b + 1)
    <3>1. /\ r \in Nat /\ r * (b + 1) <= k /\ k < r * (b + 1) + (b + 1)
      <4>1. b + 1 \in Nat \ {0}  BY <1>1
      <4> HIDE DEF k
      <4> QED BY <2>2, <4>1, Quotient
    <3> HIDE DEF r
    <3>2. r * (b + 1) = r * b + r /\ m * (b + 1) = m * b + m /\ r * b \in Nat  BY <1>1, <3>1
    <3>3. r * (b + 1) < m * (b + 1)  BY <1>1, <2>1, <2>2, <2>3, <3>1, <3>2
    <3>4. r < m  BY <1>1, <3>1, <3>3, Cancel
    <3>5. i \in Slice(r, n, first, last)  BY <1>1, <1>2, <2>2, <3>1, <3>2, <3>4
    <3> QED BY <1>1, <3>1, <3>4, <3>5
  <2>4. CASE ~(k < m * b + m)
    <3> DEFINE d == (k - (m * b + m)) \div b
    <3>1. b \in Nat \ {0}
      <4>1. CASE b = 0
        <5>1. n * b = 0 /\ m * b = 0  BY <1>1, <4>1
        <5> QED BY <1>1, <2>2, <2>4, <5>1
      <4> QED BY <1>1, <4>1
    <3>2. k - (m * b + m) \in Nat  BY <1>1, <2>1, <2>2, <2>4
    <3>3. /\ d \in Nat /\ d * b \in Nat /\ d * b <= k - (m * b + m)
          /\ k - (m * b + m) < d * b + b
      BY <3>1, <3>2, Quotient
    <3> HIDE DEF d
    <3>4. (m + d) * b = m * b + d * b  BY <1>1, <3>3
    <3>5. (m + d) * b < n * b  BY <1>1, <2>1, <2>2, <3>3, <3>4
    <3>6. m + d \in Nat /\ m + d < n /\ m <= m + d  BY <1>1, <3>3, <3>5, Cancel
    <3>7. i \in Slice(m + d, n, first, last)  BY <1>1, <1>2, <2>1, <2>2, <3>3, <3>4, <3>6
    <3> QED BY <3>6, <3>7
  <2> QED BY <2>3, <2>4
<1> QED BY <1>3, <1>4

-----------------------------------------------------------------------------
(* The least and the greatest element of a finite set, by the              *)
(* well-foundedness of the order of its subsets.                           *)

\* A strict order on a finite set that is not empty has a maximal element.
LEMMA MaximalElement ==
  ASSUME NEW S, IsFiniteSet(S), S # {}, NEW R,
         \A x \in S : <<x, x>> \notin R,
         \A x, y, z \in S : <<x, y>> \in R /\ <<y, z>> \in R => <<x, z>> \in R
  PROVE  \E x \in S : \A y \in S : <<x, y>> \notin R
<1> DEFINE Above(x) == {y \in S : <<x, y>> \in R}
           T == {Above(x) : x \in S}
<1>1. IsWellFoundedOn(StrictSubsetOrdering(S), FiniteSubsetsOf(S))
  BY FS_StrictSubsetOrderingWellFounded
<1>2. T \subseteq FiniteSubsetsOf(S)
  <2>1. ASSUME NEW x \in S
        PROVE  Above(x) \in FiniteSubsetsOf(S)
    <3>1. Above(x) \in SUBSET S  OBVIOUS
    <3>2. IsFiniteSet(Above(x))  BY <3>1, FS_Subset
    <3> QED BY <3>1, <3>2 DEF FiniteSubsetsOf
  <2> QED BY <2>1
<1>3. PICK A \in T : \A B \in T : <<B, A>> \notin StrictSubsetOrdering(S)
  <2>1. T # {}
    <3>1. PICK x : x \in S  OBVIOUS
    <3>2. Above(x) \in T  BY <3>1
    <3> QED BY <3>2
  <2> HIDE DEF T
  <2> QED BY <1>1, <1>2, <2>1, WFMin
<1>4. PICK x \in S : A = Above(x)  OBVIOUS
<1>5. ASSUME NEW y \in S, <<x, y>> \in R
      PROVE  FALSE
  <2>1. \A z \in Above(y) : z \in Above(x)  BY <1>5
  <2>2. y \in Above(x) /\ y \notin Above(y)  BY <1>5
  <2>3. Above(y) \in SUBSET S /\ Above(x) \in SUBSET S  OBVIOUS
  <2>4. Above(y) \in T  OBVIOUS
  <2> HIDE DEF Above, T
  <2>5. <<Above(y), Above(x)>> \in StrictSubsetOrdering(S)
    BY <2>1, <2>2, <2>3 DEF StrictSubsetOrdering
  <2> QED BY <1>3, <1>4, <2>4, <2>5
<1> QED BY <1>5

\* Max of a finite set of integers that is not empty is its greatest element.
LEMMA MaxOfFinite ==
  ASSUME NEW S \in SUBSET Int, IsFiniteSet(S), S # {}
  PROVE  Max(S) \in S /\ \A y \in S : Max(S) >= y
<1> DEFINE R == {p \in S \X S : p[1] < p[2]}
<1>1. \A x, y \in S : <<x, y>> \in R <=> x < y  OBVIOUS
<1>2. \E x \in S : \A y \in S : <<x, y>> \notin R
  <2>1. \A x \in S : <<x, x>> \notin R  BY <1>1
  <2>2. \A x, y, z \in S : <<x, y>> \in R /\ <<y, z>> \in R => <<x, z>> \in R  BY <1>1
  <2> HIDE DEF R
  <2> QED BY <2>1, <2>2, MaximalElement
<1> HIDE DEF R
<1>3. PICK x \in S : \A y \in S : <<x, y>> \notin R  BY <1>2
<1>4. \A y \in S : x >= y
  <2> TAKE y \in S
  <2>1. x \in Int /\ y \in Int  OBVIOUS
  <2>2. <<x, y>> \notin R  BY <1>3
  <2>3. ~(x < y)  BY <1>1, <2>2, Zenon
  <2> QED BY <2>1, <2>3
<1> QED BY <1>4 DEF Max

\* Min of a finite set of integers that is not empty is its least element.
LEMMA MinOfFinite ==
  ASSUME NEW S \in SUBSET Int, IsFiniteSet(S), S # {}
  PROVE  Min(S) \in S /\ \A y \in S : Min(S) <= y
<1> DEFINE R == {p \in S \X S : p[2] < p[1]}
<1>1. \A x, y \in S : <<x, y>> \in R <=> y < x  OBVIOUS
<1>2. \E x \in S : \A y \in S : <<x, y>> \notin R
  <2>1. \A x \in S : <<x, x>> \notin R  BY <1>1
  <2>2. \A x, y, z \in S : <<x, y>> \in R /\ <<y, z>> \in R => <<x, z>> \in R  BY <1>1
  <2> HIDE DEF R
  <2> QED BY <2>1, <2>2, MaximalElement
<1> HIDE DEF R
<1>3. PICK x \in S : \A y \in S : <<x, y>> \notin R  BY <1>2
<1>4. \A y \in S : x <= y
  <2> TAKE y \in S
  <2>1. x \in Int /\ y \in Int  OBVIOUS
  <2>2. <<x, y>> \notin R  BY <1>3
  <2>3. ~(y < x)  BY <1>1, <2>2, Zenon
  <2> QED BY <2>1, <2>3
<1> QED BY <1>4 DEF Min

-----------------------------------------------------------------------------
(* The operations on the disk keep its type.                               *)

\* One file may be replaced by any other.
LEMMA FileUpdate ==
  ASSUME DiskTypeOK, NEW c \in Chk, NEW r \in Rank
  PROVE  /\ files[c][r] \in File
         /\ h5[c] \in File
         /\ \A f \in File : [files EXCEPT ![c][r] = f] \in [Chk -> [Rank -> File]]
         /\ \A f \in File : [h5 EXCEPT ![c] = f] \in [Chk -> File]
BY DEF DiskTypeOK

\* Every update of a file the operations below make.
LEMMA FileChanges ==
  ASSUME NEW f \in File
  PROVE  /\ \A s \in FileStatus : [f EXCEPT !.st = s] \in File
         /\ \A row \in Row : [f EXCEPT !.rows = f.rows \cup {row}] \in File
         /\ \A n \in Nat : [f EXCEPT !.done = f.done \cup {n}] \in File
         /\ \A g \in File : [f EXCEPT !.rows = f.rows \cup g.rows,
                                      !.done = f.done \cup g.done] \in File
         /\ \A tc, mx \in Nat : [f EXCEPT !.tc = tc, !.mx = mx] \in File
         /\ \A tc, mx, uid \in Nat :
              [f EXCEPT !.st = "closed", !.tc = tc, !.mx = mx, !.uid = uid] \in File
BY DEF File, FileStatus

LEMMA NoFileType == NoFile \in File
BY DEF NoFile, File, FileStatus

LEMMA CreateDirectoryType ==
  ASSUME DiskTypeOK, NEW c \in Chk, CreateDirectory(c)
  PROVE  DiskTypeOK'
BY DEF DiskTypeOK, CreateDirectory

LEMMA OpenOutputFileType ==
  ASSUME DiskTypeOK, NEW c \in Chk, NEW r \in Rank, OpenOutputFile(c, r)
  PROVE  DiskTypeOK'
<1>1. [NoFile EXCEPT !.st = "open"] \in File  BY NoFileType, FileChanges DEF FileStatus
<1> QED BY <1>1, FileUpdate DEF OpenOutputFile, DiskTypeOK

LEMMA WriteClusterType ==
  ASSUME DiskTypeOK, NEW c \in Chk, NEW r \in Rank, NEW row \in Row, WriteCluster(c, r, row)
  PROVE  DiskTypeOK'
<1>1. [files[c][r] EXCEPT !.rows = files[c][r].rows \cup {row}] \in File  BY FileUpdate, FileChanges
<1>2. files' = [files EXCEPT ![c][r] =
                  [files[c][r] EXCEPT !.rows = files[c][r].rows \cup {row}]]
  BY DEF WriteCluster
<1> QED BY <1>1, <1>2, FileUpdate DEF WriteCluster, DiskTypeOK

LEMMA NoteDoneType ==
  ASSUME DiskTypeOK, NEW c \in Chk, NEW r \in Rank, NEW n \in Nat, NoteDone(c, r, n)
  PROVE  DiskTypeOK'
<1>1. [files[c][r] EXCEPT !.done = files[c][r].done \cup {n}] \in File  BY FileUpdate, FileChanges
<1>2. files' = [files EXCEPT ![c][r] =
                  [files[c][r] EXCEPT !.done = files[c][r].done \cup {n}]]
  BY DEF NoteDone
<1> QED BY <1>1, <1>2, FileUpdate DEF NoteDone, DiskTypeOK

LEMMA CloseOutputFileType ==
  ASSUME DiskTypeOK, NEW c \in Chk, NEW r \in Rank, NEW tc \in Nat, NEW mx \in Nat,
         NEW uid \in Nat, CloseOutputFile(c, r, tc, mx, uid)
  PROVE  /\ DiskTypeOK'
         /\ files'[c][r].tc = tc
         /\ \A d \in Chk, q \in Rank : d # c \/ q # r => files'[d][q] = files[d][q]
<1> DEFINE f == [files[c][r] EXCEPT !.st = "closed", !.tc = tc, !.mx = mx, !.uid = uid]
<1>1. f \in File  BY FileUpdate, FileChanges
<1>2. f.tc = tc  BY FileUpdate DEF File
<1>3. files' = [files EXCEPT ![c][r] = f] /\ hasDir' = hasDir /\ h5' = h5
  BY DEF CloseOutputFile, DiskTypeOK
<1> HIDE DEF f
<1>4. DiskTypeOK'  BY <1>1, <1>3, FileUpdate DEF DiskTypeOK
<1> QED BY <1>1, <1>2, <1>3, <1>4 DEF DiskTypeOK

LEMMA OverwriteAttrsType ==
  ASSUME DiskTypeOK, NEW c \in Chk, NEW r \in Rank, NEW tc \in Nat, NEW mx \in Nat,
         OverwriteAttrs(c, r, tc, mx)
  PROVE  DiskTypeOK'
<1>1. [files[c][r] EXCEPT !.tc = tc, !.mx = mx] \in File  BY FileUpdate, FileChanges
<1>2. /\ files' = [files EXCEPT ![c][r] = [files[c][r] EXCEPT !.tc = tc, !.mx = mx]]
      /\ hasDir' = hasDir /\ h5' = h5
  BY DEF OverwriteAttrs, DiskTypeOK
<1> QED BY <1>1, <1>2, FileUpdate DEF DiskTypeOK

LEMMA CopyFirstFileType ==
  ASSUME DiskTypeOK, NEW c \in Chk, Min(RanksIn(c)) \in Rank, CopyFirstFile(c)
  PROVE  DiskTypeOK'
<1>1. [files[c][Min(RanksIn(c))] EXCEPT !.st = "open"] \in File
  BY FileUpdate, FileChanges DEF FileStatus
<1> QED BY <1>1, FileUpdate DEF CopyFirstFile, DiskTypeOK

LEMMA AppendFileType ==
  ASSUME DiskTypeOK, NEW c \in Chk, NEW r \in Rank, AppendFile(c, r)
  PROVE  DiskTypeOK'
<1>1. [h5[c] EXCEPT !.rows = h5[c].rows \cup files[c][r].rows,
                    !.done = h5[c].done \cup files[c][r].done] \in File
  BY FileUpdate, FileChanges
<1>2. h5' = [h5 EXCEPT ![c] = [h5[c] EXCEPT !.rows = h5[c].rows \cup files[c][r].rows,
                                            !.done = h5[c].done \cup files[c][r].done]]
  BY DEF AppendFile, DiskTypeOK
<1> QED BY <1>1, <1>2, FileUpdate DEF AppendFile, DiskTypeOK

LEMMA CloseConsolidatedType ==
  ASSUME DiskTypeOK, NEW c \in Chk, CloseConsolidated(c)
  PROVE  DiskTypeOK'
<1>1. h5[c] \in File  BY DEF DiskTypeOK
<1>2. [h5[c] EXCEPT !.st = "closed"] \in File  BY <1>1, FileChanges DEF FileStatus
<1>3. h5' = [h5 EXCEPT ![c] = [h5[c] EXCEPT !.st = "closed"]]  BY DEF CloseConsolidated
<1> QED BY <1>2, <1>3 DEF CloseConsolidated, DiskTypeOK

LEMMA RemoveDirectoryType ==
  ASSUME DiskTypeOK, NEW c \in Chk, RemoveDirectory(c)
  PROVE  DiskTypeOK'
BY NoFileType DEF RemoveDirectory, DiskTypeOK

LEMMA ProcessDiesType ==
  ASSUME DiskTypeOK, NEW legible \in BOOLEAN, ProcessDies(legible)
  PROVE  DiskTypeOK'
<1>1. ASSUME NEW f \in File
      PROVE  Torn(f) \in File /\ Interrupted(f, legible) \in File
  BY <1>1, FileChanges DEF Torn, Interrupted, FileStatus
<1> QED BY <1>1 DEF ProcessDies, DiskTypeOK

LEMMA DeleteRefusedType ==
  ASSUME DiskTypeOK, NEW c \in Chk, DeleteRefused(c)
  PROVE  DiskTypeOK'
BY NoFileType, RemoveDirectoryType DEF DeleteRefused, DiskTypeOK

-----------------------------------------------------------------------------
(* What a restart reads from the disk.                                     *)

\* The first rank with a file is a rank.
LEMMA RanksInType ==
  ASSUME NEW S \in SUBSET Rank, S # {}
  PROVE  Min(S) \in S
<1>1. IsFiniteSet(Rank) /\ Rank \in SUBSET Int  BY OutputAssumption, FS_Interval DEF Rank
<1>2. IsFiniteSet(S) /\ S \in SUBSET Int  BY <1>1, FS_Subset
<1> QED BY <1>2, MinOfFinite

\* The last of some checkpoints is one of them.
LEMMA MaxOfCheckpoints ==
  ASSUME NEW S \in SUBSET Chk, S # {}
  PROVE  Max(S) \in S
<1>1. IsFiniteSet(Chk) /\ Chk \in SUBSET Int  BY OutputAssumption, FS_Interval DEF Chk
<1>2. IsFiniteSet(S) /\ S \in SUBSET Int  BY <1>1, FS_Subset
<1> QED BY <1>2, MaxOfFinite

LEMMA MaxCheckpointType ==
  ASSUME FoundCheckpoints # {}
  PROVE  MaxCheckpoint \in Chk
<1>1. FoundCheckpoints \in SUBSET Chk  BY DEF FoundCheckpoints
<1> QED BY <1>1, MaxOfCheckpoints DEF MaxCheckpoint

\* What restartSetup returns.
LEMMA RestartValues ==
  ASSUME DiskTypeOK, NEW c \in Chk, Readable(c)
  PROVE  RestartTrialsDone(c) \in Nat /\ RestartMaxTrial(c) \in Nat
<1>1. RestartSource(c) \subseteq File  BY DEF DiskTypeOK, RestartSource, RanksIn
<1>2. RestartFile(c) \in File  BY <1>1 DEF RestartFile, Readable
<1> QED BY <1>2 DEF RestartTrialsDone, RestartMaxTrial, File

\* What findRestartUidForRank returns.
LEMMA RestartUidType ==
  ASSUME DiskTypeOK, NEW r \in Rank
  PROVE  RestartUid(r) \in Nat
<1>1. FirstUid(r) \in Nat  BY OutputAssumption DEF FirstUid, Rank
<1>2. ASSUME UidCheckpoints(r) # {}
      PROVE  UidFile(r) \in File
  <2>1. UidCheckpoints(r) \in SUBSET Chk  BY DEF UidCheckpoints
  <2>2. Max(UidCheckpoints(r)) \in Chk  BY <1>2, <2>1, MaxOfCheckpoints
  <2> QED BY <2>2 DEF UidFile, DiskTypeOK
<1> QED BY <1>1, <1>2 DEF RestartUid, File

\* What a restart reads changes only with the disk.
LEMMA DiskSame ==
  ASSUME UNCHANGED disk
  PROVE  /\ FoundCheckpoints' = FoundCheckpoints
         /\ MaxCheckpoint' = MaxCheckpoint
         /\ RestartTrialsDone(MaxCheckpoint)' = RestartTrialsDone(MaxCheckpoint)
         /\ RestartMaxTrial(MaxCheckpoint)' = RestartMaxTrial(MaxCheckpoint)
BY DEF disk, FoundCheckpoints, MaxCheckpoint, RestartTrialsDone, RestartMaxTrial,
       RestartFile, RestartSource, HasH5, Exists, RanksIn

-----------------------------------------------------------------------------
(* Types.                                                                  *)

USE DEF sessionVars, setupVars, trialVars, signalVars, rootVars

\* The numbering of a session's trials.
LEMMA NumberingType ==
  ASSUME TypeOK, NEW r \in Rank
  PROVE  /\ NumberingStart(r) \in Nat /\ NumberingEnd(r) \in Nat /\ BatchSize(r) \in Nat
         /\ NumberingStart(r) <= NumberingEnd(r) /\ TrialsCompleted(r) \in Nat
BY RunAssumption
DEF TypeOK, NumberingStart, NumberingEnd, BatchSize, TrialsRemaining, TrialsCompleted

\* The first trial of a rank's slice of a batch.
LEMMA SliceFirstType ==
  ASSUME TypeOK, NEW r \in Rank, r < size, NEW first \in Nat, first < NumberingEnd(r)
  PROVE  SliceFirst(r, first, Lesser(first + BatchSize(r), NumberingEnd(r))) \in Nat
<1> DEFINE total == Lesser(first + BatchSize(r), NumberingEnd(r)) - first
<1>1. total \in Nat  BY NumberingType DEF Lesser
<1>2. r \in Nat /\ size \in Nat \ {0}  BY OutputAssumption DEF TypeOK, Rank
<1> HIDE DEF total
<1>3. Base(total, size) \in Nat /\ Remainder(total, size) \in Nat  BY <1>1, <1>2, DivMod
<1>4. r * Base(total, size) \in Nat  BY <1>2, <1>3
<1>5. PrecedingCount(r, total, size) \in Nat  BY <1>2, <1>3, <1>4 DEF PrecedingCount, Lesser
<1> QED BY <1>5 DEF SliceFirst, RankFirst, total

\* The loop head of run().
LEMMA EnterBatchType ==
  ASSUME TypeOK, NEW r \in Rank, r < size, NEW first \in Nat, EnterBatch(r, first)
  PROVE  /\ pc' \in [Rank -> {"idle"} \cup CollectivePcs \cup LocalPcs]
         /\ exit' \in [Rank -> {"none", "done", "sigterm", "error"}]
         /\ batchStart' \in [Rank -> Nat]
         /\ nextTrial' \in [Rank -> Nat]
<1>1. CASE first < NumberingEnd(r)
  <2>1. SliceFirst(r, first, Lesser(first + BatchSize(r), NumberingEnd(r))) \in Nat
    BY <1>1, SliceFirstType
  <2>2. /\ pc' = [pc EXCEPT ![r] = "batch"] /\ exit' = exit
        /\ batchStart' = [batchStart EXCEPT ![r] = first]
        /\ nextTrial' = [nextTrial EXCEPT ![r] =
              SliceFirst(r, first, Lesser(first + BatchSize(r), NumberingEnd(r)))]
    BY <1>1 DEF EnterBatch
  <2> QED BY <2>1, <2>2 DEF TypeOK, LocalPcs
<1>2. CASE ~(first < NumberingEnd(r))  BY <1>2 DEF EnterBatch, TypeOK, LocalPcs
<1> QED BY <1>1, <1>2

\* The end of a process.
LEMMA ForgetType ==
  ASSUME TypeOK, Forget, DiskTypeOK',
         outcome' \in {"none", "done", "sigterm", "error", "crash"}
  PROVE  TypeOK'
<1>1. Idle \in Task /\ 0 \in Chk /\ 0 \in Rank /\ 0 \in 0 .. MaxRanks
  BY OutputAssumption DEF Idle, Task, Chk, Rank
<1>2. NoSync \in [tc : Nat, mx : Nat, next : Rank]  BY <1>1 DEF NoSync
<1>3. NoMerge \in [chk : 0 .. MaxChk + 1, last : 0 .. MaxRanks]  BY OutputAssumption DEF NoMerge
<1>4. task' \in [Rank -> [Thread -> Task]]  BY <1>1 DEF Forget
<1> QED BY <1>1, <1>2, <1>3, <1>4 DEF TypeOK, Forget

LEMMA LastType ==
  ASSUME NEW m \in [chk : 0 .. MaxChk + 1, last : 0 .. MaxRanks], NEW q \in Rank
  PROVE  [m EXCEPT !.last = q] \in [chk : 0 .. MaxChk + 1, last : 0 .. MaxRanks]
BY OutputAssumption DEF Rank

\* Cleaning up after a merge: files of merge.chk go, and at last its directory.
LEMMA CleanupEffect ==
  ASSUME IInv, NEW r \in Rank, MergeUnlink(r) \/ MergeRemove(r)
  PROVE  /\ pc[r] = "merge" /\ pc' = pc /\ h5' = h5 /\ DiskTypeOK'
         /\ merge.chk \in Chk /\ ~MergeUnstarted /\ h5[merge.chk].st = "closed"
         /\ \A d \in Chk : d # merge.chk => hasDir'[d] = hasDir[d]
         /\ \A d \in Chk, q \in Rank :
              files'[d][q] = files[d][q] \/ (d = merge.chk /\ files'[d][q] = NoFile)
<1>1. /\ DiskTypeOK /\ merge.chk \in Chk /\ pc[r] = "merge" /\ pc' = pc /\ h5' = h5
      /\ ~MergeUnstarted /\ h5[merge.chk].st = "closed"
  BY DEF IInv, TypeOK, MergeWithinCheckpoints, MergeUnlink, MergeRemove, RemoveFile, RemoveDirectory
<1>2. CASE MergeUnlink(r)
  <2>1. Min(RanksIn(merge.chk)) \in Rank  BY <1>2, RanksInType DEF MergeUnlink, RanksIn
  <2> QED BY <1>1, <1>2, <2>1, NoFileType DEF MergeUnlink, RemoveFile, DiskTypeOK
<1>3. CASE MergeRemove(r)  BY <1>1, <1>3, NoFileType DEF MergeRemove, RemoveDirectory, DiskTypeOK
<1> QED BY <1>1, <1>2, <1>3

\* Every step keeps the types.
LEMMA TypeStep ==
  ASSUME IInv, [Next]_vars
  PROVE  TypeOK'
<1> USE DEF TypeOK
<1>1. ASSUME NEW n \in RankCounts, NEW again \in BOOLEAN, Launch(n, again)
    PROVE  TypeOK'
  BY <1>1, OutputAssumption, RunAssumption DEF IInv, Launch, LocalPcs, disk, DiskTypeOK
<1>2. ASSUME NEW r \in Rank, SetupThrows(r)
    PROVE  TypeOK'
  BY <1>2 DEF IInv, SetupThrows, ConstructorThrows, CollectivePcs, disk, DiskTypeOK
<1>3. ASSUME NEW r \in Rank, SetupFresh(r)
    PROVE  TypeOK'
  <2>1. FirstUid(r) \in Nat  BY OutputAssumption DEF FirstUid, Rank
  <2> QED BY <1>3, <2>1 DEF IInv, SetupFresh, LocalPcs, disk, DiskTypeOK
<1>4. ASSUME NEW r \in Rank, SetupRestart(r)
    PROVE  TypeOK'
  <2>1. MaxCheckpoint \in Chk /\ MaxCheckpoint + 1 \in Chk
    BY <1>4, MaxCheckpointType, OutputAssumption DEF SetupRestart, Chk
  <2>2. RestartTrialsDone(MaxCheckpoint) \in Nat /\ RestartMaxTrial(MaxCheckpoint) \in Nat
    BY <1>4, <2>1, RestartValues DEF IInv, SetupRestart, SetupRefused
  <2>3. RestartUid(r) \in Nat  BY RestartUidType DEF IInv
  <2> QED BY <1>4, <2>1, <2>2, <2>3 DEF IInv, SetupRestart, LocalPcs, disk, DiskTypeOK
<1>5. ASSUME NEW r \in Rank, OpenThrows(r)
    PROVE  TypeOK'
  BY <1>5 DEF IInv, OpenThrows, ConstructorThrows, CollectivePcs, disk, DiskTypeOK
<1>6. ASSUME NEW r \in Rank, OpenCheck(r)
    PROVE  TypeOK'
  BY <1>6 DEF IInv, OpenCheck, CollectivePcs, BarrierPcs, disk, DiskTypeOK
<1>7. ASSUME NEW r \in Rank, MakeDir(r)
    PROVE  TypeOK'
  <2>1. DiskTypeOK'  BY <1>7, CreateDirectoryType DEF IInv, MakeDir
  <2> QED BY <1>7, <2>1 DEF IInv, MakeDir, CollectivePcs, BarrierPcs, disk
<1>8. ASSUME NEW r \in Rank, OpenFiles(r)
    PROVE  TypeOK'
  <2>1. DiskTypeOK'  BY <1>8, OpenOutputFileType DEF IInv, OpenFiles
  <2>2. r < size  BY <1>8 DEF IInv, OpenFiles, OnlyActiveRun
  <2>3. batchStart[r] + BatchSize(r) \in Nat /\ NumberingStart(r) \in Nat  BY NumberingType DEF IInv
  <2>4. /\ pc' \in [Rank -> {"idle"} \cup CollectivePcs \cup LocalPcs]
        /\ exit' \in [Rank -> {"none", "done", "sigterm", "error"}]
        /\ batchStart' \in [Rank -> Nat] /\ nextTrial' \in [Rank -> Nat]
    BY <1>8, <2>2, <2>3, EnterBatchType DEF IInv, OpenFiles
  <2> QED BY <1>8, <2>1, <2>4 DEF IInv, OpenFiles, disk
<1>9. ASSUME NEW r \in Rank, NEW t \in Thread, SkipTrial(r, t)
    PROVE  TypeOK'
  BY <1>9 DEF IInv, SkipTrial, TaskUnchanged, disk, DiskTypeOK
<1>10. ASSUME NEW r \in Rank, NEW t \in Thread, BeginTrial(r, t)
     PROVE  TypeOK'
  BY <1>10 DEF IInv, BeginTrial, TaskUnchanged, Task, disk, DiskTypeOK
<1>11. ASSUME NEW r \in Rank, NEW t \in Thread, WriteTrial(r, t)
     PROVE  TypeOK'
  <2>1. task[r][t] \in Task  BY DEF IInv
  <2>2. [trial |-> task[r][t].trial, uid |-> task[r][t].uid] \in Row  BY <2>1 DEF Task, Row
  <2>3. DiskTypeOK'  BY <1>11, <2>2, WriteClusterType DEF IInv, WriteTrial
  <2> QED BY <1>11, <2>1, <2>3 DEF IInv, WriteTrial, TaskUnchanged, MaxTrialAfter, Task, disk
<1>12. ASSUME NEW r \in Rank, NEW t \in Thread, FinishTrial(r, t)
     PROVE  TypeOK'
  <2>1. task[r][t] \in Task  BY DEF IInv
  <2>2. DiskTypeOK'  BY <1>12, <2>1, NoteDoneType DEF IInv, FinishTrial, Task
  <2> QED BY <1>12, <2>2 DEF IInv, FinishTrial, TaskUnchanged, Idle, Task, disk
<1>13. ASSUME NEW r \in Rank, NEW t \in Thread, FailTrial(r, t)
     PROVE  TypeOK'
  BY <1>13 DEF IInv, FailTrial, TaskUnchanged, Idle, Task, disk, DiskTypeOK
<1>14. ASSUME NEW r \in Rank, SigtermArrives(r)
     PROVE  TypeOK'
  BY <1>14 DEF IInv, SigtermArrives, disk, DiskTypeOK
<1>15. ASSUME NEW r \in Rank, BatchFailed(r)
     PROVE  TypeOK'
  BY <1>15 DEF IInv, BatchFailed, LocalPcs, disk, DiskTypeOK
<1>16. ASSUME NEW r \in Rank, BatchDone(r)
     PROVE  TypeOK'
  BY <1>16 DEF IInv, BatchDone, CollectivePcs, disk, DiskTypeOK
<1>17. ASSUME Reduce
     PROVE  TypeOK'
  BY <1>17 DEF IInv, Reduce, LocalPcs, disk, DiskTypeOK
<1>18. ASSUME Barrier
     PROVE  TypeOK'
  <2>1. \A r \in Rank : AfterBarrier(r) \in {"idle"} \cup CollectivePcs \cup LocalPcs
    BY DEF IInv, AfterBarrier, CollectivePcs, BarrierPcs, LocalPcs
  <2>2. ASSUME NEW r \in Rank, pc[r] = "synced", exit[r] = "none"
        PROVE  chkNum[r] + 1 \in Chk
    <3>1. r \in Active  BY <2>2, OutputAssumption DEF IInv, OnlyActiveRun, Active, Rank
    <3> QED BY <1>18, <2>2, <3>1, OutputAssumption DEF IInv, Barrier, Chk
  <2> QED BY <1>18, <2>1, <2>2 DEF IInv, Barrier, NextCheckpointNumber, disk, DiskTypeOK
<1>19. ASSUME Finalize
     PROVE  TypeOK'
  <2>1. exit[0] \in {"none", "done", "sigterm", "error"}  BY OutputAssumption DEF IInv, Rank
  <2>2. DiskTypeOK'  BY <1>19 DEF IInv, Finalize, disk, DiskTypeOK
  <2> QED BY <1>19, <2>1, <2>2, ForgetType DEF IInv, Finalize
<1>20. ASSUME NEW r \in Rank, Close(r)
     PROVE  TypeOK'
  <2>1. TrialsCompleted(r) \in Nat  BY NumberingType DEF IInv
  <2>2. DiskTypeOK'  BY <1>20, <2>1, CloseOutputFileType DEF IInv, Close
  <2> QED BY <1>20, <2>2 DEF IInv, Close, CollectivePcs, BarrierPcs, disk
<1>21. ASSUME NEW r \in Rank, SyncRead(r)
     PROVE  TypeOK'
  <2>1. sync \in [tc : Nat, mx : Nat, next : Rank] /\ prior[r] \in Nat  BY DEF IInv
  <2>2. pc[0] = "sync_read" /\ r = 0  BY <1>21 DEF IInv, SyncRead, RootOnly
  <2>3. Left(sync.next) \in File /\ prior[0] \in Nat  BY <2>1, <2>2, FileUpdate DEF IInv, Left
  <2>4. sync.next \in Active
    BY <2>1, <2>2, OutputAssumption DEF IInv, SyncVisitsRanks, Active, Rank
  <2>5. Share(sync.next) \in Nat  BY <2>2, <2>3, <2>4 DEF IInv, SharesCount, Share, File
  <2>6. Left(sync.next).mx \in Nat  BY <2>3 DEF File
  <2>7. 0 \in Rank /\ (sync.next + 1 < size => sync.next + 1 \in Rank)
    <3>1. size \in 0 .. MaxRanks /\ sync.next \in Rank  BY <2>1 DEF IInv
    <3> QED BY <3>1, OutputAssumption DEF Rank
  <2>8. sync' \in [tc : Nat, mx : Nat, next : Rank]  BY <1>21, <2>1, <2>5, <2>6, <2>7 DEF SyncRead
  <2> QED BY <1>21, <2>8 DEF IInv, SyncRead, LocalPcs, disk, DiskTypeOK
<1>22. ASSUME NEW r \in Rank, SyncWrite(r)
     PROVE  TypeOK'
  <2>1. sync \in [tc : Nat, mx : Nat, next : Rank]  BY DEF IInv
  <2>2. DiskTypeOK'  BY <1>22, <2>1, OverwriteAttrsType DEF IInv, SyncWrite
  <2>3. 0 \in Rank /\ (sync.next + 1 < size => sync.next + 1 \in Rank)
    <3>1. size \in 0 .. MaxRanks /\ sync.next \in Rank  BY <2>1 DEF IInv
    <3> QED BY <3>1, OutputAssumption DEF Rank
  <2>4. sync' \in [tc : Nat, mx : Nat, next : Rank]  BY <1>22, <2>1, <2>3 DEF SyncWrite, NoSync
  <2> QED BY <1>22, <2>2, <2>4 DEF IInv, SyncWrite, CollectivePcs, BarrierPcs, disk
<1>23. ASSUME NEW r \in Rank, MergeSkip(r)
     PROVE  TypeOK'
  <2>1. merge \in [chk : 0 .. MaxChk + 1, last : 0 .. MaxRanks] /\ chkNum[0] \in Chk
    BY OutputAssumption DEF IInv, Rank
  <2>2. merge.chk + 1 \in 0 .. MaxChk + 1
    BY <1>23, <2>1, OutputAssumption DEF MergeSkip, MergeOver, Chk
  <2>3. merge' \in [chk : 0 .. MaxChk + 1, last : 0 .. MaxRanks]  BY <1>23, <2>1, <2>2 DEF MergeSkip
  <2> QED BY <1>23, <2>3 DEF IInv, MergeSkip, disk, DiskTypeOK
<1>24. ASSUME NEW r \in Rank, MergeCopy(r)
     PROVE  TypeOK'
  <2>4. merge \in [chk : 0 .. MaxChk + 1, last : 0 .. MaxRanks] /\ chkNum[0] \in Chk
    BY OutputAssumption DEF IInv, Rank
  <2>1. merge.chk \in Chk  BY <1>24, <2>4, OutputAssumption DEF MergeCopy, MergeOver, Chk
  <2>2. Min(RanksIn(merge.chk)) \in Rank  BY <1>24, RanksInType DEF MergeCopy, RanksIn
  <2>3. DiskTypeOK'  BY <1>24, <2>1, <2>2, CopyFirstFileType DEF IInv, MergeCopy
  <2> QED BY <1>24, <2>2, <2>3, <2>4, LastType DEF IInv, MergeCopy, disk
<1>25. ASSUME NEW r \in Rank, MergeAppend(r)
     PROVE  TypeOK'
  <2>1. merge.chk \in Chk  BY <1>25 DEF IInv, MergeAppend, MergeWithinCheckpoints
  <2>2. Min(NotYetMerged) \in Rank  BY <1>25, RanksInType DEF MergeAppend, NotYetMerged, RanksIn
  <2>3. DiskTypeOK'  BY <1>25, <2>1, <2>2, AppendFileType DEF IInv, MergeAppend
  <2> QED BY <1>25, <2>2, <2>3, LastType DEF IInv, MergeAppend, disk
<1>26. ASSUME NEW r \in Rank, MergeClose(r)
     PROVE  TypeOK'
  <2>1. merge.chk \in Chk  BY <1>26 DEF IInv, MergeClose, MergeWithinCheckpoints
  <2>2. DiskTypeOK'  BY <1>26, <2>1, CloseConsolidatedType DEF IInv, MergeClose
  <2> QED BY <1>26, <2>2 DEF IInv, MergeClose, disk
<1>27. ASSUME NEW r \in Rank, MergeUnlink(r) \/ MergeRemove(r)
     PROVE  TypeOK'
  <2>1. merge.chk \in Chk /\ DiskTypeOK'  BY <1>27, CleanupEffect
  <2> QED BY <1>27, <2>1, OutputAssumption DEF IInv, MergeUnlink, MergeRemove, Chk, disk
<1>28. ASSUME NEW r \in Rank, MergeDone(r)
     PROVE  TypeOK'
  BY <1>28, OutputAssumption DEF IInv, MergeDone, NoMerge, CollectivePcs, disk, DiskTypeOK
<1>29. ASSUME Crash
     PROVE  TypeOK'
  <2>1. DiskTypeOK'  BY <1>29, ProcessDiesType DEF IInv, Crash
  <2> QED BY <1>29, <2>1, ForgetType DEF IInv, Crash
<1>30. ASSUME DeleteUnreadable
     PROVE  TypeOK'
  <2>1. DiskTypeOK'  BY <1>30, MaxCheckpointType, DeleteRefusedType DEF IInv, DeleteUnreadable
  <2> QED BY <1>30, <2>1 DEF IInv, DeleteUnreadable, disk
<1>31. CASE UNCHANGED vars  BY <1>31 DEF IInv, vars, disk, DiskTypeOK
<1> QED BY <1>1, <1>2, <1>3, <1>4, <1>5, <1>6, <1>7, <1>8, <1>9, <1>10, <1>11, <1>12, <1>13,
     <1>14, <1>15, <1>16, <1>17, <1>18, <1>19, <1>20, <1>21, <1>22, <1>23, <1>24, <1>25,
     <1>26, <1>27, <1>28, <1>29, <1>30, <1>31
  DEF Next, RankStep, Setup, Open, Trial, Batch, Save, Merge, Collective, Outside,
      Finished

-----------------------------------------------------------------------------
(* What each rank does by itself.                                          *)

\* What a rank's own program counter and memory are worth.
Local ==
  /\ OnlyActiveRun /\ FreshUntilSetup /\ TrialsOnlyInBatch /\ RootOnly
  /\ ExitOnlyAtEnd /\ InRunWhenClosing

\* Every step keeps what a rank does by itself.
LEMMA LocalStep ==
  ASSUME IInv, [Next]_vars
  PROVE  Local'
<1> USE DEF IInv, TypeOK, Local, OnlyActiveRun, FreshUntilSetup, TrialsOnlyInBatch,
   RootOnly, ExitOnlyAtEnd, InRunWhenClosing, Closing, SyncPcs
<1>a. 0 \in Rank /\ \A r \in Rank : r \in Nat  BY OutputAssumption DEF Rank
<1>1. ASSUME NEW n \in RankCounts, NEW again \in BOOLEAN, Launch(n, again)
    PROVE  Local'
  BY <1>1, <1>a DEF Launch, Running
<1>2. ASSUME NEW r \in Rank, SetupThrows(r)
    PROVE  Local'
  BY <1>2 DEF SetupThrows, ConstructorThrows
<1>3. ASSUME NEW r \in Rank, SetupFresh(r)
    PROVE  Local'
  BY <1>3 DEF SetupFresh
<1>4. ASSUME NEW r \in Rank, SetupRestart(r)
    PROVE  Local'
  BY <1>4 DEF SetupRestart
<1>5. ASSUME NEW r \in Rank, OpenThrows(r)
    PROVE  Local'
  BY <1>5 DEF OpenThrows, ConstructorThrows
<1>6. ASSUME NEW r \in Rank, OpenCheck(r)
    PROVE  Local'
  BY <1>6 DEF OpenCheck
<1>7. ASSUME NEW r \in Rank, MakeDir(r)
    PROVE  Local'
  BY <1>7 DEF MakeDir
<1>8. ASSUME NEW r \in Rank, OpenFiles(r)
    PROVE  Local'
  <2>1. /\ pc[r] = "open_files"
        /\ inRun' = [inRun EXCEPT ![r] = TRUE]
        /\ UNCHANGED <<size, count, prior, restartMax, chkNum, task>>
    BY <1>8 DEF OpenFiles
  <2>2. \/ pc' = [pc EXCEPT ![r] = "batch"] /\ exit' = exit
        \/ pc' = [pc EXCEPT ![r] = "close"] /\ exit' = [exit EXCEPT ![r] = "done"]
    BY <1>8 DEF OpenFiles, EnterBatch
  <2>3. CASE pc' = [pc EXCEPT ![r] = "batch"] /\ exit' = exit  BY <2>1, <2>3
  <2>4. CASE pc' = [pc EXCEPT ![r] = "close"] /\ exit' = [exit EXCEPT ![r] = "done"]  BY <2>1, <2>4
  <2> QED BY <2>2, <2>3, <2>4
<1>9. ASSUME NEW r \in Rank, NEW t \in Thread, SkipTrial(r, t)
    PROVE  Local'
  BY <1>9 DEF SkipTrial, TaskUnchanged
<1>10. ASSUME NEW r \in Rank, NEW t \in Thread, BeginTrial(r, t)
     PROVE  Local'
  BY <1>10 DEF BeginTrial, TaskUnchanged
<1>11. ASSUME NEW r \in Rank, NEW t \in Thread, WriteTrial(r, t)
     PROVE  Local'
  BY <1>11 DEF WriteTrial, TaskUnchanged
<1>12. ASSUME NEW r \in Rank, NEW t \in Thread, FinishTrial(r, t)
     PROVE  Local'
  BY <1>12 DEF FinishTrial, TaskUnchanged, Idle
<1>13. ASSUME NEW r \in Rank, NEW t \in Thread, FailTrial(r, t)
     PROVE  Local'
  BY <1>13 DEF FailTrial, TaskUnchanged, Idle
<1>14. ASSUME NEW r \in Rank, SigtermArrives(r)
     PROVE  Local'
  BY <1>14 DEF SigtermArrives
<1>15. ASSUME NEW r \in Rank, BatchFailed(r)
     PROVE  Local'
  BY <1>15 DEF BatchFailed, BatchOver
<1>16. ASSUME NEW r \in Rank, BatchDone(r)
     PROVE  Local'
  BY <1>16 DEF BatchDone, BatchOver
<1>17. ASSUME Reduce
     PROVE  Local'
  BY <1>17 DEF Reduce, Active
<1>18. ASSUME Barrier
     PROVE  Local'
  BY <1>18 DEF Barrier, AfterBarrier, NextCheckpointNumber, BarrierPcs, Active
<1>19. ASSUME Finalize
     PROVE  Local'
  BY <1>19 DEF Finalize, Forget, Idle
<1>20. ASSUME NEW r \in Rank, Close(r)
     PROVE  Local'
  BY <1>20 DEF Close
<1>21. ASSUME NEW r \in Rank, SyncRead(r)
     PROVE  Local'
  <2>1. pc' = pc \/ pc' = [pc EXCEPT ![r] = "sync_write"]  BY <1>21 DEF SyncRead
  <2>2. UNCHANGED <<size, inRun, exit, count, prior, restartMax, chkNum, task>>
    BY <1>21 DEF SyncRead
  <2>3. pc[r] = "sync_read"  BY <1>21 DEF SyncRead
  <2>4. CASE pc' = pc  BY <2>2, <2>4
  <2>5. CASE pc' = [pc EXCEPT ![r] = "sync_write"]  BY <2>2, <2>3, <2>5
  <2> QED BY <2>1, <2>4, <2>5
<1>22. ASSUME NEW r \in Rank, SyncWrite(r)
     PROVE  Local'
  <2>1. pc' = pc \/ pc' = [pc EXCEPT ![r] = "synced"]  BY <1>22 DEF SyncWrite
  <2>2. UNCHANGED <<size, inRun, exit, count, prior, restartMax, chkNum, task>>
    BY <1>22 DEF SyncWrite
  <2>3. pc[r] = "sync_write"  BY <1>22 DEF SyncWrite
  <2>4. CASE pc' = pc  BY <2>2, <2>4
  <2>5. CASE pc' = [pc EXCEPT ![r] = "synced"]  BY <2>2, <2>3, <2>5
  <2> QED BY <2>1, <2>4, <2>5
<1>23. ASSUME NEW r \in Rank, MergeSkip(r)
     PROVE  Local'
  BY <1>23 DEF MergeSkip
<1>24. ASSUME NEW r \in Rank, MergeCopy(r)
     PROVE  Local'
  BY <1>24 DEF MergeCopy
<1>25. ASSUME NEW r \in Rank, MergeAppend(r)
     PROVE  Local'
  BY <1>25 DEF MergeAppend
<1>26. ASSUME NEW r \in Rank, MergeClose(r)
     PROVE  Local'
  BY <1>26 DEF MergeClose
<1>27. ASSUME NEW r \in Rank, MergeUnlink(r) \/ MergeRemove(r)
     PROVE  Local'
  BY <1>27 DEF MergeUnlink, MergeRemove
<1>28. ASSUME NEW r \in Rank, MergeDone(r)
     PROVE  Local'
  BY <1>28 DEF MergeDone
<1>29. ASSUME Crash
     PROVE  Local'
  BY <1>29 DEF Crash, Forget, Idle
<1>30. ASSUME DeleteUnreadable
     PROVE  Local'
  BY <1>30 DEF DeleteUnreadable
<1>31. CASE UNCHANGED vars  BY <1>31 DEF vars
<1> QED BY <1>1, <1>2, <1>3, <1>4, <1>5, <1>6, <1>7, <1>8, <1>9, <1>10, <1>11, <1>12, <1>13,
     <1>14,
     <1>15, <1>16, <1>17, <1>18, <1>19, <1>20, <1>21, <1>22, <1>23, <1>24,
     <1>25, <1>26, <1>27, <1>28, <1>29, <1>30, <1>31
  DEF Next, RankStep, Setup, Open, Trial, Batch, Save, Merge, Collective, Outside, Finished

-----------------------------------------------------------------------------
(* What the ranks do together.                                             *)

\* The numbering of a session does not change while it runs.
LEMMA NumberingSame ==
  ASSUME UNCHANGED <<restart, prior, restartMax>>
  PROVE  \A r : /\ NumberingStart(r)' = NumberingStart(r)
               /\ NumberingEnd(r)' = NumberingEnd(r)
               /\ BatchSize(r)' = BatchSize(r)
BY DEF NumberingStart, NumberingEnd, BatchSize, TrialsRemaining

\* Ranks that read the same number their trials alike.
LEMMA NumberingAgrees ==
  ASSUME NEW q, NEW r, prior[q] = prior[r], restartMax[q] = restartMax[r]
  PROVE  /\ NumberingStart(q) = NumberingStart(r)
         /\ NumberingEnd(q) = NumberingEnd(r)
         /\ BatchSize(q) = BatchSize(r)
BY DEF NumberingStart, NumberingEnd, BatchSize, TrialsRemaining

\* The ranks of a session.
LEMMA ActiveRanks ==
  ASSUME IInv
  PROVE  /\ Active \subseteq Rank
         /\ \A r \in Rank : pc[r] # "idle" => r \in Active
<1>1. size \in 0 .. MaxRanks  BY DEF IInv, TypeOK
<1> QED BY <1>1, OutputAssumption DEF IInv, OnlyActiveRun, Active, Rank

\* A rank is in no phase but the one all ranks are in.
LEMMA OnePhase ==
  ASSUME IInv, NEW r \in Rank, pc[r] \in DirPcs \cup RunPcs \cup SyncPcs \cup {"merge"}
  PROVE  \A q \in Active : pc[q] \notin {"setup", "open_check", "open_checked"}
<1>1. r \in Active  BY ActiveRanks DEF DirPcs, RunPcs, SyncPcs
<1>2. PICK P \in Phases : \A q \in Active : pc[q] \in P  BY DEF IInv, RanksAgree, SamePhase
<1> QED BY <1>1, <1>2 DEF Phases, OpenPcs, DirPcs, RunPcs, SyncPcs, EndPcs

\* A rank moves on within the phase.
LEMMA PhaseMove ==
  ASSUME IInv, NEW r \in Rank, NEW p, pc' = [pc EXCEPT ![r] = p], size' = size,
         \A P \in Phases : pc[r] \in P => p \in P
  PROVE  SamePhase'
<1>1. PICK P \in Phases : \A q \in Active : pc[q] \in P  BY DEF IInv, RanksAgree, SamePhase
<1>2. Active' = Active  BY DEF Active
<1>3. \A q \in Active : pc'[q] \in P  BY <1>1, ActiveRanks DEF IInv, TypeOK
<1> QED BY <1>1, <1>2, <1>3 DEF SamePhase, Phases, OpenPcs, DirPcs, RunPcs, SyncPcs, EndPcs

\* A step that changes none of what the ranks agree on.
LEMMA AgreeFrame ==
  ASSUME IInv,
         UNCHANGED <<size, restart, pc, inRun, exit, prior, restartMax, chkNum, batchStart>>
  PROVE  RanksAgree'
BY NumberingSame
DEF IInv, SamePhase, RanksAgree, Constructed, Closing, GoingOn, BatchFirst, Active

\* Every step keeps the ranks in agreement.
LEMMA AgreeStep ==
  ASSUME IInv, [Next]_vars
  PROVE  RanksAgree'
<1>1. ASSUME NEW n \in RankCounts, NEW again \in BOOLEAN, Launch(n, again)
    PROVE  RanksAgree'
  <2>1. Active' \subseteq Rank /\ \A r \in Active' : pc'[r] = "setup"
    BY <1>1, RunAssumption, OutputAssumption DEF Launch, Active, Rank
  <2> QED
    BY <2>1
    DEF SamePhase, Phases, OpenPcs, RanksAgree, Constructed, Closing, GoingOn,
        BatchFirst, SyncPcs
<1>2. ASSUME NEW r \in Rank, SetupThrows(r)
    PROVE  RanksAgree'
  <2>1. SamePhase'
    BY <1>2, PhaseMove
    DEF SetupThrows, ConstructorThrows, Phases, OpenPcs, DirPcs, RunPcs, SyncPcs,
        EndPcs
  <2>2. \A q : BatchSize(q)' = BatchSize(q) /\ NumberingStart(q)' = NumberingStart(q)
    BY <1>2, NumberingSame DEF SetupThrows, ConstructorThrows
  <2> QED
    BY <1>2, <2>1, <2>2, ActiveRanks
    DEF SetupThrows, ConstructorThrows, IInv, TypeOK, RanksAgree, Constructed,
        Closing, GoingOn, BatchFirst, SyncPcs, Active
<1>3. ASSUME NEW r \in Rank, SetupFresh(r)
    PROVE  RanksAgree'
  <2>1. SamePhase'
    BY <1>3, PhaseMove DEF SetupFresh, Phases, OpenPcs, DirPcs, RunPcs, SyncPcs, EndPcs
  <2>2. r \in Active /\ pc[r] = "setup"  BY <1>3, ActiveRanks DEF SetupFresh
  <2>3. \A q \in Active :
           ~inRun[q] /\ (Constructed(q) => pc[q] \in {"open_check", "open_checked"})
    <3>1. PICK P \in Phases : \A q \in Active : pc[q] \in P  BY DEF IInv, RanksAgree, SamePhase
    <3> QED
      BY <2>2, <3>1
      DEF IInv, NoneInRunDuringSetup, Constructed, Phases, OpenPcs, DirPcs, RunPcs,
          SyncPcs, EndPcs
  <2>4. /\ UNCHANGED <<size, restart, inRun, exit, batchStart>>
        /\ pc' = [pc EXCEPT ![r] = "open_check"]
    BY <1>3 DEF SetupFresh
  <2>5. Active' = Active  BY <2>4 DEF Active
  <2> DEFINE P == 0
             M == 0
             C == 0
  <2>6. \A q \in Active : Constructed(q) => prior[q] = P /\ restartMax[q] = M /\ chkNum[q] = C
    BY <1>3, <2>3 DEF SetupFresh, IInv, SetupReadsDisk
  <2>7. prior[r] = P /\ restartMax[r] = M /\ chkNum[r] = C  BY <2>2 DEF IInv, FreshUntilSetup
  <2> HIDE DEF P, M, C
  <2>8. \A q \in Active : q # r => /\ prior'[q] = prior[q] /\ restartMax'[q] = restartMax[q]
                                 /\ chkNum'[q] = chkNum[q] /\ pc'[q] = pc[q]
    BY <1>3, <2>4, ActiveRanks DEF SetupFresh, IInv, TypeOK
  <2>9. /\ pc'[r] = "open_check" /\ prior'[r] = P /\ restartMax'[r] = M /\ chkNum'[r] = C
    BY <1>3, <2>4, <2>7 DEF SetupFresh, IInv, TypeOK
  <2>10. ASSUME NEW q \in Active, Constructed(q)'
         PROVE  /\ prior'[q] = P /\ restartMax'[q] = M /\ chkNum'[q] = C
                /\ pc'[q] \in {"open_check", "open_checked"} /\ ~inRun'[q]
    BY <2>2, <2>3, <2>4, <2>6, <2>8, <2>9, <2>10 DEF Constructed
  <2>11. ASSUME NEW q \in Active, GoingOn(q)'
         PROVE  BatchFirst(q)' = IF restart THEN M + 1 ELSE 0
    BY <2>4, <2>10, <2>11 DEF GoingOn, BatchFirst, Closing, SyncPcs, NumberingStart
  <2>12. \A q \in Active : ~Closing(q)'  BY <2>2, <2>3, <2>8, <2>9 DEF Closing, Constructed, SyncPcs
  <2> QED BY <2>1, <2>5, <2>10, <2>11, <2>12 DEF RanksAgree
<1>4. ASSUME NEW r \in Rank, SetupRestart(r)
    PROVE  RanksAgree'
  <2>1. SamePhase'
    BY <1>4, PhaseMove DEF SetupRestart, Phases, OpenPcs, DirPcs, RunPcs, SyncPcs, EndPcs
  <2>2. r \in Active /\ pc[r] = "setup"  BY <1>4, ActiveRanks DEF SetupRestart
  <2>3. \A q \in Active :
           ~inRun[q] /\ (Constructed(q) => pc[q] \in {"open_check", "open_checked"})
    <3>1. PICK P \in Phases : \A q \in Active : pc[q] \in P  BY DEF IInv, RanksAgree, SamePhase
    <3> QED
      BY <2>2, <3>1
      DEF IInv, NoneInRunDuringSetup, Constructed, Phases, OpenPcs, DirPcs, RunPcs,
          SyncPcs, EndPcs
  <2>4. /\ UNCHANGED <<size, restart, inRun, exit, batchStart>>
        /\ pc' = [pc EXCEPT ![r] = "open_check"]
    BY <1>4 DEF SetupRestart
  <2>5. Active' = Active  BY <2>4 DEF Active
  <2> DEFINE P == RestartTrialsDone(MaxCheckpoint)
             M == RestartMaxTrial(MaxCheckpoint)
             C == MaxCheckpoint + 1
  <2>6. \A q \in Active : Constructed(q) => prior[q] = P /\ restartMax[q] = M /\ chkNum[q] = C
    BY <1>4, <2>3 DEF SetupRestart, IInv, SetupReadsDisk
  <2>7. /\ prior' = [prior EXCEPT ![r] = P] /\ restartMax' = [restartMax EXCEPT ![r] = M]
        /\ chkNum' = [chkNum EXCEPT ![r] = C]
    BY <1>4 DEF SetupRestart
  <2> HIDE DEF P, M, C
  <2>8. \A q \in Active : q # r => /\ prior'[q] = prior[q] /\ restartMax'[q] = restartMax[q]
                                 /\ chkNum'[q] = chkNum[q] /\ pc'[q] = pc[q]
    BY <1>4, <2>4, ActiveRanks DEF SetupRestart, IInv, TypeOK
  <2>9. /\ pc'[r] = "open_check" /\ prior'[r] = P /\ restartMax'[r] = M /\ chkNum'[r] = C
    BY <1>4, <2>4, <2>7 DEF SetupRestart, IInv, TypeOK
  <2>10. ASSUME NEW q \in Active, Constructed(q)'
         PROVE  /\ prior'[q] = P /\ restartMax'[q] = M /\ chkNum'[q] = C
                /\ pc'[q] \in {"open_check", "open_checked"} /\ ~inRun'[q]
    BY <2>2, <2>3, <2>4, <2>6, <2>8, <2>9, <2>10 DEF Constructed
  <2>11. ASSUME NEW q \in Active, GoingOn(q)'
         PROVE  BatchFirst(q)' = IF restart THEN M + 1 ELSE 0
    BY <2>4, <2>10, <2>11 DEF GoingOn, BatchFirst, Closing, SyncPcs, NumberingStart
  <2>12. \A q \in Active : ~Closing(q)'  BY <2>2, <2>3, <2>8, <2>9 DEF Closing, Constructed, SyncPcs
  <2> QED BY <2>1, <2>5, <2>10, <2>11, <2>12 DEF RanksAgree
<1>5. ASSUME NEW r \in Rank, OpenThrows(r)
    PROVE  RanksAgree'
  <2>1. SamePhase'
    BY <1>5, PhaseMove
    DEF OpenThrows, ConstructorThrows, Phases, OpenPcs, DirPcs, RunPcs, SyncPcs,
        EndPcs
  <2>2. \A q : BatchSize(q)' = BatchSize(q) /\ NumberingStart(q)' = NumberingStart(q)
    BY <1>5, NumberingSame DEF OpenThrows, ConstructorThrows
  <2> QED
    BY <1>5, <2>1, <2>2, ActiveRanks
    DEF OpenThrows, ConstructorThrows, IInv, TypeOK, RanksAgree, Constructed, Closing,
        GoingOn, BatchFirst, SyncPcs, Active
<1>6. ASSUME NEW r \in Rank, OpenCheck(r)
    PROVE  RanksAgree'
  <2>1. SamePhase'
    BY <1>6, PhaseMove DEF OpenCheck, Phases, OpenPcs, DirPcs, RunPcs, SyncPcs, EndPcs
  <2>2. \A q : BatchSize(q)' = BatchSize(q) /\ NumberingStart(q)' = NumberingStart(q)
    BY <1>6, NumberingSame DEF OpenCheck
  <2> QED
    BY <1>6, <2>1, <2>2, ActiveRanks
    DEF OpenCheck, IInv, TypeOK, RanksAgree, Constructed, Closing, GoingOn,
        BatchFirst, SyncPcs, Active
<1>7. ASSUME NEW r \in Rank, MakeDir(r)
    PROVE  RanksAgree'
  <2>1. SamePhase'  BY <1>7, PhaseMove DEF MakeDir, Phases, OpenPcs, DirPcs, RunPcs, SyncPcs, EndPcs
  <2>2. \A q : BatchSize(q)' = BatchSize(q) /\ NumberingStart(q)' = NumberingStart(q)
    BY <1>7, NumberingSame DEF MakeDir
  <2> QED
    BY <1>7, <2>1, <2>2, ActiveRanks
    DEF MakeDir, IInv, TypeOK, RanksAgree, Constructed, Closing, GoingOn, BatchFirst,
        SyncPcs, Active
<1>8. ASSUME NEW r \in Rank, OpenFiles(r)
    PROVE  RanksAgree'
  <2>1. SamePhase'
    <3>1. pc' = [pc EXCEPT ![r] = "batch"] \/ pc' = [pc EXCEPT ![r] = "close"]
      BY <1>8 DEF OpenFiles, EnterBatch
    <3>2. pc[r] = "open_files" /\ size' = size  BY <1>8 DEF OpenFiles
    <3> QED BY <3>1, <3>2, PhaseMove DEF Phases, OpenPcs, DirPcs, RunPcs, SyncPcs, EndPcs
  <2> DEFINE first == IF inRun[r] THEN batchStart[r] + BatchSize(r) ELSE NumberingStart(r)
  <2>2. /\ UNCHANGED <<size, restart, prior, restartMax, chkNum>>
        /\ pc[r] = "open_files" /\ inRun' = [inRun EXCEPT ![r] = TRUE]
    BY <1>8 DEF OpenFiles
  <2>3. /\ Active' = Active
        /\ \A q : BatchSize(q)' = BatchSize(q) /\ NumberingStart(q)' = NumberingStart(q)
    BY <2>2, NumberingSame DEF Active
  <2>4. BatchFirst(r) = first /\ GoingOn(r) /\ ~Closing(r)
    BY <2>2 DEF BatchFirst, GoingOn, Constructed, Closing, SyncPcs
  <2>5. r \in Active /\ Active \subseteq Rank  BY <2>2, ActiveRanks
  <2>6. CASE pc' = [pc EXCEPT ![r] = "batch"] /\ batchStart' = [batchStart EXCEPT ![r] = first]
             /\ exit' = exit
    <3> HIDE DEF first
    <3> QED
      BY <2>1, <2>2, <2>3, <2>4, <2>5, <2>6
      DEF IInv, TypeOK, RanksAgree, Constructed, Closing, GoingOn, BatchFirst,
          SyncPcs
  <2>7. CASE pc' = [pc EXCEPT ![r] = "close"] /\ batchStart' = batchStart
             /\ exit' = [exit EXCEPT ![r] = "done"]
    <3> HIDE DEF first
    <3> QED
      BY <2>1, <2>2, <2>3, <2>4, <2>5, <2>7
      DEF IInv, TypeOK, RanksAgree, Constructed, Closing, GoingOn, BatchFirst,
          SyncPcs
  <2> QED BY <1>8, <2>6, <2>7 DEF OpenFiles, EnterBatch
<1>9. ASSUME NEW r \in Rank, NEW t \in Thread, SkipTrial(r, t)
    PROVE  RanksAgree'
  BY <1>9, AgreeFrame DEF SkipTrial, TaskUnchanged
<1>10. ASSUME NEW r \in Rank, NEW t \in Thread, BeginTrial(r, t)
     PROVE  RanksAgree'
  BY <1>10, AgreeFrame DEF BeginTrial, TaskUnchanged
<1>11. ASSUME NEW r \in Rank, NEW t \in Thread, WriteTrial(r, t)
     PROVE  RanksAgree'
  BY <1>11, AgreeFrame DEF WriteTrial, TaskUnchanged
<1>12. ASSUME NEW r \in Rank, NEW t \in Thread, FinishTrial(r, t)
     PROVE  RanksAgree'
  BY <1>12, AgreeFrame DEF FinishTrial, TaskUnchanged
<1>13. ASSUME NEW r \in Rank, NEW t \in Thread, FailTrial(r, t)
     PROVE  RanksAgree'
  BY <1>13, AgreeFrame DEF FailTrial, TaskUnchanged
<1>14. ASSUME NEW r \in Rank, SigtermArrives(r)
     PROVE  RanksAgree'
  BY <1>14, AgreeFrame DEF SigtermArrives
<1>15. ASSUME NEW r \in Rank, BatchFailed(r)
     PROVE  RanksAgree'
  <2>1. SamePhase'
    BY <1>15, PhaseMove
    DEF BatchFailed, BatchOver, Phases, OpenPcs, DirPcs, RunPcs, SyncPcs, EndPcs
  <2>2. \A q : BatchSize(q)' = BatchSize(q) /\ NumberingStart(q)' = NumberingStart(q)
    BY <1>15, NumberingSame DEF BatchFailed, BatchOver
  <2> QED
    BY <1>15, <2>1, <2>2, ActiveRanks
    DEF BatchFailed, BatchOver, IInv, TypeOK, RanksAgree, Constructed, Closing,
        GoingOn, BatchFirst, SyncPcs, Active
<1>16. ASSUME NEW r \in Rank, BatchDone(r)
     PROVE  RanksAgree'
  <2>1. SamePhase'
    BY <1>16, PhaseMove
    DEF BatchDone, BatchOver, Phases, OpenPcs, DirPcs, RunPcs, SyncPcs, EndPcs
  <2>2. \A q : BatchSize(q)' = BatchSize(q) /\ NumberingStart(q)' = NumberingStart(q)
    BY <1>16, NumberingSame DEF BatchDone, BatchOver
  <2> QED
    BY <1>16, <2>1, <2>2, ActiveRanks
    DEF BatchDone, BatchOver, IInv, TypeOK, RanksAgree, Constructed, Closing, GoingOn,
        BatchFirst, SyncPcs, Active
<1>17. ASSUME Reduce
     PROVE  RanksAgree'
  <2>1. SamePhase'
    BY <1>17, ActiveRanks
    DEF IInv, TypeOK, Reduce, SamePhase, Active, Phases, OpenPcs, DirPcs, RunPcs,
        SyncPcs, EndPcs
  <2>2. UNCHANGED <<size, restart, prior, restartMax, chkNum, batchStart, inRun>>
    BY <1>17 DEF Reduce
  <2>3. ASSUME NEW q \in Active, NEW r \in Active
        PROVE  /\ prior[q] = prior[r] /\ restartMax[q] = restartMax[r]
               /\ chkNum[q] = chkNum[r] /\ batchStart[q] = batchStart[r]
    BY <1>17
    DEF Reduce, IInv, RanksAgree, Constructed, Closing, GoingOn, BatchFirst, SyncPcs
  <2>4. ASSUME NEW q \in Active, NEW r \in Active
        PROVE  LastBatch(q) = LastBatch(r)
    BY <2>3, NumberingAgrees DEF LastBatch, BatchEnd
  <2>5. ASSUME NEW q \in Active, NEW r \in Active
        PROVE  exit'[q] = exit'[r] /\ pc'[q] = "close"
    BY <1>17, <2>4, ActiveRanks DEF Reduce, SigtermAgreed, IInv, TypeOK
  <2>6. Active' = Active  BY <2>2 DEF Active
  <2> QED
    BY <2>1, <2>2, <2>3, <2>5, <2>6
    DEF RanksAgree, Constructed, Closing, GoingOn, BatchFirst, SyncPcs
<1>18. ASSUME Barrier
     PROVE  RanksAgree'
  <2>1. Active' = Active /\ Active \subseteq Rank  BY <1>18, ActiveRanks DEF Barrier, Active
  <2>2. /\ UNCHANGED <<size, restart, prior, restartMax, batchStart, inRun, exit>>
        /\ pc' = [r \in Rank |-> AfterBarrier(r)]
        /\ \A r \in Active : pc[r] \in {"open_checked", "dir_made", "closed", "synced"}
        /\ chkNum' = [r \in Rank |-> IF pc[r] = "synced" /\ exit[r] = "none"
                                     THEN chkNum[r] + 1 ELSE chkNum[r]]
    BY <1>18 DEF Barrier, BarrierPcs, NextCheckpointNumber
  <2>3. \A q : BatchSize(q)' = BatchSize(q) /\ NumberingStart(q)' = NumberingStart(q)
    BY <2>2, NumberingSame
  <2>4. \/ \A r \in Active : pc[r] = "open_checked"
        \/ \A r \in Active : pc[r] = "dir_made"
        \/ \A r \in Active : pc[r] = "closed"
        \/ \A r \in Active : pc[r] = "synced"
    <3>1. PICK P \in Phases : \A q \in Active : pc[q] \in P  BY DEF IInv, RanksAgree, SamePhase
    <3> QED BY <2>2, <3>1 DEF Phases, OpenPcs, DirPcs, RunPcs, SyncPcs, EndPcs
  <2>5. CASE \A r \in Active : pc[r] = "open_checked"
    <3>1. \A r \in Active : pc'[r] \in DirPcs  BY <2>1, <2>2, <2>5 DEF AfterBarrier, DirPcs
    <3> QED
      BY <2>1, <2>2, <2>3, <2>5, <3>1
      DEF IInv, RanksAgree, Constructed, Closing, GoingOn, BatchFirst, SyncPcs,
          SamePhase, Phases, DirPcs
  <2>6. CASE \A r \in Active : pc[r] = "dir_made"
    <3>1. \A r \in Active : pc'[r] = "open_files"  BY <2>1, <2>2, <2>6 DEF AfterBarrier
    <3> QED
      BY <2>1, <2>2, <2>3, <2>6, <3>1
      DEF IInv, RanksAgree, Constructed, Closing, GoingOn, BatchFirst, SyncPcs,
          SamePhase, Phases, RunPcs
  <2>7. CASE \A r \in Active : pc[r] = "closed"
    <3>1. \A r \in Active : pc'[r] \in SyncPcs  BY <2>1, <2>2, <2>7 DEF AfterBarrier, SyncPcs
    <3> QED
      BY <2>1, <2>2, <2>3, <2>7, <3>1
      DEF IInv, RanksAgree, Constructed, Closing, GoingOn, BatchFirst, SyncPcs,
          SamePhase, Phases
  <2>8. CASE \A r \in Active : pc[r] = "synced"
    <3>1. \A r \in Active : Closing(r)  BY <2>8 DEF Closing, SyncPcs
    <3>2. CASE \A r \in Active : exit[r] = "none"
      <4>1. \A r \in Active : pc'[r] = "open_check" /\ inRun[r] /\ chkNum'[r] = chkNum[r] + 1
        BY <2>1, <2>2, <2>8, <3>1, <3>2 DEF AfterBarrier, IInv, InRunWhenClosing
      <4>2. \A q, r \in Active : BatchSize(q) = BatchSize(r)
        BY <2>8, NumberingAgrees DEF IInv, RanksAgree, Constructed
      <4> QED
        BY <2>1, <2>2, <2>3, <2>8, <3>2, <4>1, <4>2
        DEF IInv, RanksAgree, Constructed, Closing, GoingOn, BatchFirst, SyncPcs,
            SamePhase, Phases, OpenPcs
    <3>3. CASE \A r \in Active : exit[r] # "none"
      <4>1. \A r \in Active : pc'[r] \in EndPcs  BY <2>1, <2>2, <2>8, <3>3 DEF AfterBarrier, EndPcs
      <4> QED
        BY <2>1, <2>2, <2>3, <4>1
        DEF RanksAgree, Constructed, Closing, GoingOn, BatchFirst, SyncPcs,
            SamePhase, Phases, EndPcs
    <3> QED BY <3>1, <3>2, <3>3 DEF IInv, RanksAgree
  <2> QED BY <2>4, <2>5, <2>6, <2>7, <2>8
<1>19. ASSUME Finalize
     PROVE  RanksAgree'
  <2>1. Active' = {}  BY <1>19 DEF Finalize, Forget, Active
  <2> QED BY <2>1 DEF RanksAgree, SamePhase, Phases
<1>20. ASSUME NEW r \in Rank, Close(r)
     PROVE  RanksAgree'
  <2>1. SamePhase'  BY <1>20, PhaseMove DEF Close, Phases, OpenPcs, DirPcs, RunPcs, SyncPcs, EndPcs
  <2>2. \A q : BatchSize(q)' = BatchSize(q) /\ NumberingStart(q)' = NumberingStart(q)
    BY <1>20, NumberingSame DEF Close
  <2> QED
    BY <1>20, <2>1, <2>2, ActiveRanks
    DEF Close, IInv, TypeOK, RanksAgree, Constructed, Closing, GoingOn, BatchFirst,
        SyncPcs, Active
<1>21. ASSUME NEW r \in Rank, SyncRead(r)
     PROVE  RanksAgree'
  <2>1. pc' = pc \/ pc' = [pc EXCEPT ![r] = "sync_write"]  BY <1>21 DEF SyncRead
  <2>2. UNCHANGED <<size, restart, inRun, exit, prior, restartMax, chkNum, batchStart>>
    BY <1>21 DEF SyncRead
  <2>3. pc[r] = "sync_read"  BY <1>21 DEF SyncRead
  <2>4. \A s : BatchSize(s)' = BatchSize(s) /\ NumberingStart(s)' = NumberingStart(s)
    BY <2>2, NumberingSame
  <2>5. CASE pc' = pc  BY <2>2, <2>5, AgreeFrame
  <2>6. CASE pc' = [pc EXCEPT ![r] = "sync_write"]
    <3>1. SamePhase'
      BY <2>2, <2>3, <2>6, PhaseMove DEF Phases, OpenPcs, DirPcs, RunPcs, SyncPcs, EndPcs
    <3> QED
      BY <2>2, <2>3, <2>4, <2>6, <3>1, ActiveRanks
      DEF IInv, TypeOK, RanksAgree, Constructed, Closing, GoingOn, BatchFirst,
          SyncPcs, Active
  <2> QED BY <2>1, <2>5, <2>6
<1>22. ASSUME NEW r \in Rank, SyncWrite(r)
     PROVE  RanksAgree'
  <2>1. pc' = pc \/ pc' = [pc EXCEPT ![r] = "synced"]  BY <1>22 DEF SyncWrite
  <2>2. UNCHANGED <<size, restart, inRun, exit, prior, restartMax, chkNum, batchStart>>
    BY <1>22 DEF SyncWrite
  <2>3. pc[r] = "sync_write"  BY <1>22 DEF SyncWrite
  <2>4. \A s : BatchSize(s)' = BatchSize(s) /\ NumberingStart(s)' = NumberingStart(s)
    BY <2>2, NumberingSame
  <2>5. CASE pc' = pc  BY <2>2, <2>5, AgreeFrame
  <2>6. CASE pc' = [pc EXCEPT ![r] = "synced"]
    <3>1. SamePhase'
      BY <2>2, <2>3, <2>6, PhaseMove DEF Phases, OpenPcs, DirPcs, RunPcs, SyncPcs, EndPcs
    <3> QED
      BY <2>2, <2>3, <2>4, <2>6, <3>1, ActiveRanks
      DEF IInv, TypeOK, RanksAgree, Constructed, Closing, GoingOn, BatchFirst,
          SyncPcs, Active
  <2> QED BY <2>1, <2>5, <2>6
<1>23. ASSUME NEW r \in Rank, MergeSkip(r)
     PROVE  RanksAgree'
  BY <1>23, AgreeFrame DEF MergeSkip
<1>24. ASSUME NEW r \in Rank, MergeCopy(r)
     PROVE  RanksAgree'
  BY <1>24, AgreeFrame DEF MergeCopy
<1>25. ASSUME NEW r \in Rank, MergeAppend(r)
     PROVE  RanksAgree'
  BY <1>25, AgreeFrame DEF MergeAppend
<1>26. ASSUME NEW r \in Rank, MergeClose(r)
     PROVE  RanksAgree'
  BY <1>26, AgreeFrame DEF MergeClose
<1>27. ASSUME NEW r \in Rank, MergeUnlink(r) \/ MergeRemove(r)
     PROVE  RanksAgree'
  BY <1>27, AgreeFrame DEF MergeUnlink, MergeRemove
<1>28. ASSUME NEW r \in Rank, MergeDone(r)
     PROVE  RanksAgree'
  <2>1. SamePhase'
    BY <1>28, PhaseMove DEF MergeDone, Phases, OpenPcs, DirPcs, RunPcs, SyncPcs, EndPcs
  <2>2. \A q : BatchSize(q)' = BatchSize(q) /\ NumberingStart(q)' = NumberingStart(q)
    BY <1>28, NumberingSame DEF MergeDone
  <2> QED
    BY <1>28, <2>1, <2>2, ActiveRanks
    DEF MergeDone, IInv, TypeOK, RanksAgree, Constructed, Closing, GoingOn,
        BatchFirst, SyncPcs, Active
<1>29. ASSUME Crash
     PROVE  RanksAgree'
  <2>1. Active' = {}  BY <1>29 DEF Crash, Forget, Active
  <2> QED BY <2>1 DEF RanksAgree, SamePhase, Phases
<1>30. ASSUME DeleteUnreadable
     PROVE  RanksAgree'
  BY <1>30, AgreeFrame DEF DeleteUnreadable
<1>31. CASE UNCHANGED vars  BY <1>31, AgreeFrame DEF vars
<1> QED BY <1>1, <1>2, <1>3, <1>4, <1>5, <1>6, <1>7, <1>8, <1>9, <1>10, <1>11, <1>12, <1>13,
     <1>14,
     <1>15, <1>16, <1>17, <1>18, <1>19, <1>20, <1>21, <1>22, <1>23, <1>24,
     <1>25, <1>26, <1>27, <1>28, <1>29, <1>30, <1>31
  DEF Next, RankStep, Setup, Open, Trial, Batch, Save, Merge, Collective, Outside, Finished

-----------------------------------------------------------------------------
(* What a constructor reads.                                               *)

\* What the ranks have read, and when.
SetupInv == NoneInRunDuringSetup /\ SetupReadsDisk

\* No rank enters its constructor, or reads anything else in it.
LEMMA SetupFrame ==
  ASSUME IInv, UNCHANGED <<size, restart, inRun, disk>>,
         \A q \in Active : pc'[q] = "setup" => pc[q] = "setup",
         \A q \in Active : pc'[q] \in {"open_check", "open_checked"} /\ ~inRun[q] =>
           /\ pc[q] \in {"open_check", "open_checked"}
           /\ prior'[q] = prior[q] /\ restartMax'[q] = restartMax[q] /\ chkNum'[q] = chkNum[q]
  PROVE  SetupInv'
<1>1. Active' = Active  BY DEF Active
<1> QED BY <1>1, DiskSame DEF IInv, SetupInv, NoneInRunDuringSetup, SetupReadsDisk

\* Once a rank is past the opening of its files, no constructor is running.
LEMMA SetupOver ==
  ASSUME IInv, NEW r \in Rank, pc[r] \in DirPcs \cup RunPcs \cup SyncPcs \cup {"merge"},
         size' = size, NEW p, p \notin {"setup", "open_check", "open_checked"},
         pc' = pc \/ pc' = [pc EXCEPT ![r] = p]
  PROVE  SetupInv'
<1>1. Active' = Active /\ Active \subseteq Rank  BY ActiveRanks DEF Active
<1>2. \A q \in Active : pc'[q] \notin {"setup", "open_check", "open_checked"}
  BY <1>1, OnePhase DEF IInv, TypeOK
<1> QED BY <1>1, <1>2 DEF SetupInv, NoneInRunDuringSetup, SetupReadsDisk

\* Every step leaves a constructor with the disk it was launched with.
LEMMA SetupStep ==
  ASSUME IInv, [Next]_vars
  PROVE  SetupInv'
<1>1. ASSUME NEW n \in RankCounts, NEW again \in BOOLEAN, Launch(n, again)
    PROVE  SetupInv'
  <2>1. \A r \in Rank : ~inRun'[r]
    BY <1>1, ActiveRanks DEF Launch, Running, Active, IInv, FreshUntilSetup
  <2>2. Active' \subseteq Rank /\ \A r \in Active' : pc'[r] = "setup"
    BY <1>1, RunAssumption, OutputAssumption DEF Launch, Active, Rank
  <2> QED BY <2>1, <2>2 DEF SetupInv, NoneInRunDuringSetup, SetupReadsDisk
<1>2. ASSUME NEW r \in Rank, SetupThrows(r)
    PROVE  SetupInv'
  BY <1>2, SetupFrame, ActiveRanks DEF SetupThrows, ConstructorThrows, IInv, TypeOK
<1>3. ASSUME NEW r \in Rank, SetupFresh(r)
    PROVE  SetupInv'
  <2>1. Active' = Active /\ Active \subseteq Rank /\ r \in Active
    BY <1>3, ActiveRanks DEF SetupFresh, Active
  <2>2. /\ UNCHANGED <<size, restart, inRun, disk>> /\ pc[r] = "setup"
        /\ pc' = [pc EXCEPT ![r] = "open_check"]
        /\ \A q \in Active : q # r => /\ pc'[q] = pc[q] /\ prior'[q] = prior[q]
                                   /\ restartMax'[q] = restartMax[q] /\ chkNum'[q] = chkNum[q]
    BY <1>3, <2>1 DEF SetupFresh, IInv, TypeOK
  <2>3. NoneInRunDuringSetup'  BY <2>1, <2>2 DEF IInv, TypeOK, NoneInRunDuringSetup
  <2>4. prior'[r] = 0 /\ restartMax'[r] = 0 /\ chkNum'[r] = 0
    BY <1>3, <2>2 DEF SetupFresh, IInv, FreshUntilSetup
  <2>5. ~(restart /\ FoundCheckpoints # {})  BY <1>3 DEF SetupFresh
  <2> QED BY <2>1, <2>2, <2>3, <2>4, <2>5, DiskSame DEF IInv, SetupInv, SetupReadsDisk
<1>4. ASSUME NEW r \in Rank, SetupRestart(r)
    PROVE  SetupInv'
  <2>1. Active' = Active /\ Active \subseteq Rank /\ r \in Active
    BY <1>4, ActiveRanks DEF SetupRestart, Active
  <2>2. /\ UNCHANGED <<size, restart, inRun, disk>> /\ pc[r] = "setup"
        /\ pc' = [pc EXCEPT ![r] = "open_check"]
        /\ \A q \in Active : q # r => /\ pc'[q] = pc[q] /\ prior'[q] = prior[q]
                                   /\ restartMax'[q] = restartMax[q] /\ chkNum'[q] = chkNum[q]
    BY <1>4, <2>1 DEF SetupRestart, IInv, TypeOK
  <2>3. NoneInRunDuringSetup'  BY <2>1, <2>2 DEF IInv, TypeOK, NoneInRunDuringSetup
  <2>4. /\ prior'[r] = RestartTrialsDone(MaxCheckpoint)
        /\ restartMax'[r] = RestartMaxTrial(MaxCheckpoint)
        /\ chkNum'[r] = MaxCheckpoint + 1
    BY <1>4 DEF SetupRestart, IInv, TypeOK
  <2>5. restart /\ FoundCheckpoints # {}  BY <1>4 DEF SetupRestart
  <2> QED BY <2>1, <2>2, <2>3, <2>4, <2>5, DiskSame DEF IInv, SetupInv, SetupReadsDisk
<1>5. ASSUME NEW r \in Rank, OpenThrows(r)
    PROVE  SetupInv'
  BY <1>5, SetupFrame, ActiveRanks DEF OpenThrows, ConstructorThrows, IInv, TypeOK
<1>6. ASSUME NEW r \in Rank, OpenCheck(r)
    PROVE  SetupInv'
  BY <1>6, SetupFrame, ActiveRanks DEF OpenCheck, IInv, TypeOK
<1>7. ASSUME NEW r \in Rank, MakeDir(r)
    PROVE  SetupInv'
  <2>1. pc' = pc \/ pc' = [pc EXCEPT ![r] = "dir_made"]  BY <1>7 DEF MakeDir
  <2>2. size' = size /\ pc[r] \in DirPcs \cup RunPcs \cup SyncPcs \cup {"merge"}
    BY <1>7 DEF MakeDir, IInv, TrialsOnlyInBatch, DirPcs, RunPcs, SyncPcs
  <2> QED BY <2>1, <2>2, SetupOver
<1>8. ASSUME NEW r \in Rank, OpenFiles(r)
    PROVE  SetupInv'
  <2>1. size' = size /\ pc[r] \in RunPcs  BY <1>8 DEF OpenFiles, RunPcs
  <2>2. pc' = [pc EXCEPT ![r] = "batch"] \/ pc' = [pc EXCEPT ![r] = "close"]
    BY <1>8 DEF OpenFiles, EnterBatch
  <2> QED BY <2>1, <2>2, SetupOver
<1>9. ASSUME NEW r \in Rank, NEW t \in Thread, SkipTrial(r, t)
    PROVE  SetupInv'
  <2>1. pc' = pc \/ pc' = [pc EXCEPT ![r] = "batch"]  BY <1>9 DEF SkipTrial, TaskUnchanged
  <2>2. size' = size /\ pc[r] \in DirPcs \cup RunPcs \cup SyncPcs \cup {"merge"}
    BY <1>9 DEF SkipTrial, TaskUnchanged, IInv, TrialsOnlyInBatch, DirPcs, RunPcs, SyncPcs
  <2> QED BY <2>1, <2>2, SetupOver
<1>10. ASSUME NEW r \in Rank, NEW t \in Thread, BeginTrial(r, t)
     PROVE  SetupInv'
  <2>1. pc' = pc \/ pc' = [pc EXCEPT ![r] = "batch"]  BY <1>10 DEF BeginTrial, TaskUnchanged
  <2>2. size' = size /\ pc[r] \in DirPcs \cup RunPcs \cup SyncPcs \cup {"merge"}
    BY <1>10
    DEF BeginTrial, TaskUnchanged, IInv, TrialsOnlyInBatch, DirPcs, RunPcs, SyncPcs
  <2> QED BY <2>1, <2>2, SetupOver
<1>11. ASSUME NEW r \in Rank, NEW t \in Thread, WriteTrial(r, t)
     PROVE  SetupInv'
  <2>1. pc' = pc \/ pc' = [pc EXCEPT ![r] = "batch"]  BY <1>11 DEF WriteTrial, TaskUnchanged
  <2>2. size' = size /\ pc[r] \in DirPcs \cup RunPcs \cup SyncPcs \cup {"merge"}
    BY <1>11
    DEF WriteTrial, TaskUnchanged, IInv, TrialsOnlyInBatch, DirPcs, RunPcs, SyncPcs
  <2> QED BY <2>1, <2>2, SetupOver
<1>12. ASSUME NEW r \in Rank, NEW t \in Thread, FinishTrial(r, t)
     PROVE  SetupInv'
  <2>1. pc' = pc \/ pc' = [pc EXCEPT ![r] = "batch"]  BY <1>12 DEF FinishTrial, TaskUnchanged
  <2>2. size' = size /\ pc[r] \in DirPcs \cup RunPcs \cup SyncPcs \cup {"merge"}
    BY <1>12
    DEF FinishTrial, TaskUnchanged, IInv, TrialsOnlyInBatch, DirPcs, RunPcs, SyncPcs
  <2> QED BY <2>1, <2>2, SetupOver
<1>13. ASSUME NEW r \in Rank, NEW t \in Thread, FailTrial(r, t)
     PROVE  SetupInv'
  <2>1. pc' = pc \/ pc' = [pc EXCEPT ![r] = "batch"]  BY <1>13 DEF FailTrial, TaskUnchanged
  <2>2. size' = size /\ pc[r] \in DirPcs \cup RunPcs \cup SyncPcs \cup {"merge"}
    BY <1>13
    DEF FailTrial, TaskUnchanged, IInv, TrialsOnlyInBatch, DirPcs, RunPcs, SyncPcs
  <2> QED BY <2>1, <2>2, SetupOver
<1>14. ASSUME NEW r \in Rank, SigtermArrives(r)
     PROVE  SetupInv'
  BY <1>14, SetupFrame, ActiveRanks DEF SigtermArrives, IInv, TypeOK
<1>15. ASSUME NEW r \in Rank, BatchFailed(r)
     PROVE  SetupInv'
  <2>1. pc' = pc \/ pc' = [pc EXCEPT ![r] = "close"]  BY <1>15 DEF BatchFailed, BatchOver
  <2>2. size' = size /\ pc[r] \in DirPcs \cup RunPcs \cup SyncPcs \cup {"merge"}
    BY <1>15 DEF BatchFailed, BatchOver, IInv, TrialsOnlyInBatch, DirPcs, RunPcs, SyncPcs
  <2> QED BY <2>1, <2>2, SetupOver
<1>16. ASSUME NEW r \in Rank, BatchDone(r)
     PROVE  SetupInv'
  <2>1. pc' = pc \/ pc' = [pc EXCEPT ![r] = "reduce"]  BY <1>16 DEF BatchDone, BatchOver
  <2>2. size' = size /\ pc[r] \in DirPcs \cup RunPcs \cup SyncPcs \cup {"merge"}
    BY <1>16 DEF BatchDone, BatchOver, IInv, TrialsOnlyInBatch, DirPcs, RunPcs, SyncPcs
  <2> QED BY <2>1, <2>2, SetupOver
<1>17. ASSUME Reduce
     PROVE  SetupInv'
  <2>1. \A q \in Active : pc'[q] = "close"  BY <1>17, ActiveRanks DEF Reduce
  <2> QED BY <1>17, <2>1, SetupFrame DEF Reduce
<1>18. ASSUME Barrier
     PROVE  SetupInv'
  <2>1. Active' = Active /\ Active \subseteq Rank  BY <1>18, ActiveRanks DEF Barrier, Active
  <2>2. UNCHANGED <<size, restart, inRun, disk>> /\ pc' = [r \in Rank |-> AfterBarrier(r)]
    BY <1>18 DEF Barrier
  <2>3. \A q \in Active : pc[q] \in BarrierPcs  BY <1>18 DEF Barrier
  <2>4. ASSUME NEW q \in Active
        PROVE  pc'[q] # "setup" /\ (pc'[q] \in {"open_check", "open_checked"} => inRun[q])
    <3>1. pc'[q] = AfterBarrier(q)  BY <2>1, <2>2
    <3>2. pc[q] = "synced" => inRun[q]  BY <2>1 DEF IInv, InRunWhenClosing, Closing, SyncPcs
    <3> QED BY <2>3, <3>1, <3>2 DEF AfterBarrier, BarrierPcs
  <2> QED BY <2>2, <2>4, SetupFrame
<1>19. ASSUME Finalize
     PROVE  SetupInv'
  <2>1. Active' = {}  BY <1>19 DEF Finalize, Forget, Active
  <2> QED BY <2>1 DEF SetupInv, NoneInRunDuringSetup, SetupReadsDisk
<1>20. ASSUME NEW r \in Rank, Close(r)
     PROVE  SetupInv'
  <2>1. pc' = pc \/ pc' = [pc EXCEPT ![r] = "closed"]  BY <1>20 DEF Close
  <2>2. size' = size /\ pc[r] \in DirPcs \cup RunPcs \cup SyncPcs \cup {"merge"}
    BY <1>20 DEF Close, IInv, TrialsOnlyInBatch, DirPcs, RunPcs, SyncPcs
  <2> QED BY <2>1, <2>2, SetupOver
<1>21. ASSUME NEW r \in Rank, SyncRead(r)
     PROVE  SetupInv'
  <2>1. pc' = pc \/ pc' = [pc EXCEPT ![r] = "sync_write"]  BY <1>21 DEF SyncRead
  <2>2. size' = size /\ pc[r] \in DirPcs \cup RunPcs \cup SyncPcs \cup {"merge"}
    BY <1>21 DEF SyncRead, IInv, TrialsOnlyInBatch, DirPcs, RunPcs, SyncPcs
  <2> QED BY <2>1, <2>2, SetupOver
<1>22. ASSUME NEW r \in Rank, SyncWrite(r)
     PROVE  SetupInv'
  <2>1. pc' = pc \/ pc' = [pc EXCEPT ![r] = "synced"]  BY <1>22 DEF SyncWrite
  <2>2. size' = size /\ pc[r] \in DirPcs \cup RunPcs \cup SyncPcs \cup {"merge"}
    BY <1>22 DEF SyncWrite, IInv, TrialsOnlyInBatch, DirPcs, RunPcs, SyncPcs
  <2> QED BY <2>1, <2>2, SetupOver
<1>23. ASSUME NEW r \in Rank, MergeSkip(r)
     PROVE  SetupInv'
  <2>1. pc' = pc \/ pc' = [pc EXCEPT ![r] = "merge"]  BY <1>23 DEF MergeSkip
  <2>2. size' = size /\ pc[r] \in DirPcs \cup RunPcs \cup SyncPcs \cup {"merge"}
    BY <1>23 DEF MergeSkip, IInv, TrialsOnlyInBatch, DirPcs, RunPcs, SyncPcs
  <2> QED BY <2>1, <2>2, SetupOver
<1>24. ASSUME NEW r \in Rank, MergeCopy(r)
     PROVE  SetupInv'
  <2>1. pc' = pc \/ pc' = [pc EXCEPT ![r] = "merge"]  BY <1>24 DEF MergeCopy
  <2>2. size' = size /\ pc[r] \in DirPcs \cup RunPcs \cup SyncPcs \cup {"merge"}
    BY <1>24 DEF MergeCopy, IInv, TrialsOnlyInBatch, DirPcs, RunPcs, SyncPcs
  <2> QED BY <2>1, <2>2, SetupOver
<1>25. ASSUME NEW r \in Rank, MergeAppend(r)
     PROVE  SetupInv'
  <2>1. pc' = pc \/ pc' = [pc EXCEPT ![r] = "merge"]  BY <1>25 DEF MergeAppend
  <2>2. size' = size /\ pc[r] \in DirPcs \cup RunPcs \cup SyncPcs \cup {"merge"}
    BY <1>25 DEF MergeAppend, IInv, TrialsOnlyInBatch, DirPcs, RunPcs, SyncPcs
  <2> QED BY <2>1, <2>2, SetupOver
<1>26. ASSUME NEW r \in Rank, MergeClose(r)
     PROVE  SetupInv'
  <2>1. pc' = pc \/ pc' = [pc EXCEPT ![r] = "merge"]  BY <1>26 DEF MergeClose
  <2>2. size' = size /\ pc[r] \in DirPcs \cup RunPcs \cup SyncPcs \cup {"merge"}
    BY <1>26 DEF MergeClose, IInv, TrialsOnlyInBatch, DirPcs, RunPcs, SyncPcs
  <2> QED BY <2>1, <2>2, SetupOver
<1>27. ASSUME NEW r \in Rank, MergeUnlink(r) \/ MergeRemove(r)
     PROVE  SetupInv'
  <2>1. pc' = pc \/ pc' = [pc EXCEPT ![r] = "merge"]  BY <1>27 DEF MergeUnlink, MergeRemove
  <2>2. size' = size /\ pc[r] \in DirPcs \cup RunPcs \cup SyncPcs \cup {"merge"}
    BY <1>27 DEF MergeUnlink, MergeRemove, IInv, TrialsOnlyInBatch, DirPcs, RunPcs, SyncPcs
  <2> QED BY <2>1, <2>2, SetupOver
<1>28. ASSUME NEW r \in Rank, MergeDone(r)
     PROVE  SetupInv'
  <2>1. pc' = pc \/ pc' = [pc EXCEPT ![r] = "finalize"]  BY <1>28 DEF MergeDone
  <2>2. size' = size /\ pc[r] \in DirPcs \cup RunPcs \cup SyncPcs \cup {"merge"}
    BY <1>28 DEF MergeDone, IInv, TrialsOnlyInBatch, DirPcs, RunPcs, SyncPcs
  <2> QED BY <2>1, <2>2, SetupOver
<1>29. ASSUME Crash
     PROVE  SetupInv'
  <2>1. Active' = {}  BY <1>29 DEF Crash, Forget, Active
  <2> QED BY <2>1 DEF SetupInv, NoneInRunDuringSetup, SetupReadsDisk
<1>30. ASSUME DeleteUnreadable
     PROVE  SetupInv'
  <2>1. Active' = {}  BY <1>30 DEF DeleteUnreadable, Running, Active
  <2> QED BY <2>1 DEF SetupInv, NoneInRunDuringSetup, SetupReadsDisk
<1>31. CASE UNCHANGED vars  BY <1>31, SetupFrame DEF vars
<1> QED BY <1>1, <1>2, <1>3, <1>4, <1>5, <1>6, <1>7, <1>8, <1>9, <1>10, <1>11, <1>12, <1>13,
     <1>14,
     <1>15, <1>16, <1>17, <1>18, <1>19, <1>20, <1>21, <1>22, <1>23, <1>24,
     <1>25, <1>26, <1>27, <1>28, <1>29, <1>30, <1>31
  DEF Next, RankStep, Setup, Open, Trial, Batch, Save, Merge, Collective, Outside, Finished

-----------------------------------------------------------------------------
(* What the files count, and what rank 0 makes of it.                      *)

\* What closed files hold, and how far rank 0 is with them.
SaveInv == ClosedFileCounts /\ SharesCount /\ SyncVisitsRanks

\* While a rank does one thing, no rank does what belongs to another phase.
LEMMA Apart ==
  ASSUME IInv, NEW r \in Rank, pc[r] # "idle"
  PROVE  /\ pc[r] \notin SyncPcs => pc[0] \notin SyncPcs
         /\ pc[r] \notin RunPcs => \A q \in Rank : pc[q] # "closed"
<1>1. /\ 0 \in Rank /\ r \in Active
      /\ \A q \in Rank : pc[q] # "idle" => q \in Active
  BY ActiveRanks, OutputAssumption DEF Rank
<1>2. PICK P \in Phases : \A q \in Active : pc[q] \in P  BY DEF IInv, RanksAgree, SamePhase
<1> QED BY <1>1, <1>2 DEF Phases, OpenPcs, DirPcs, RunPcs, SyncPcs, EndPcs

\* The closed files, and rank 0's position in syncCheckpoints, stay as they are.
LEMMA SaveFrame ==
  ASSUME IInv, pc[0] \notin {"sync_read", "sync_write"},
         pc'[0] \notin {"sync_read", "sync_write"}, sync' = sync,
         \A q \in Rank : pc'[q] = "closed" =>
           /\ pc[q] = "closed"
           /\ prior'[q] = prior[q] /\ count'[q] = count[q] /\ chkNum'[q] = chkNum[q]
           /\ files'[chkNum[q]][q].tc = files[chkNum[q]][q].tc
  PROVE  SaveInv'
BY DEF IInv, SaveInv, ClosedFileCounts, SharesCount, SyncVisitsRanks, TrialsCompleted

\* A rank outside syncCheckpoints moves on, and touches no file but its own.
LEMMA SaveMove ==
  ASSUME IInv, NEW r \in Rank, pc[r] # "idle", pc[r] \notin SyncPcs, pc[r] # "closed",
         NEW p, p \notin {"closed", "sync_read", "sync_write"},
         pc' = [pc EXCEPT ![r] = p], sync' = sync,
         \A q \in Rank : q # r =>
           /\ prior'[q] = prior[q] /\ count'[q] = count[q] /\ chkNum'[q] = chkNum[q]
           /\ \A c \in Chk : files'[c][q] = files[c][q]
  PROVE  SaveInv'
<1>1. pc[0] \notin SyncPcs /\ 0 \in Rank  BY Apart, OutputAssumption DEF Rank
<1>2. pc \in [Rank -> {"idle"} \cup CollectivePcs \cup LocalPcs] /\ chkNum \in [Rank -> Chk]
  BY DEF IInv, TypeOK
<1>3. pc'[0] \notin {"sync_read", "sync_write"}  BY <1>1, <1>2 DEF SyncPcs
<1> QED BY <1>1, <1>2, <1>3, SaveFrame DEF SyncPcs

\* Nothing SaveInv is about changes.
LEMMA SaveSame ==
  ASSUME IInv, UNCHANGED <<size, pc, prior, count, chkNum, sync, files>>
  PROVE  SaveInv'
BY DEF IInv, SaveInv, ClosedFileCounts, SharesCount, SyncVisitsRanks, TrialsCompleted,
       Left, Active

\* Every step keeps the counts in the closed files right.
LEMMA SaveStep ==
  ASSUME IInv, [Next]_vars
  PROVE  SaveInv'
<1>1. ASSUME NEW n \in RankCounts, NEW again \in BOOLEAN, Launch(n, again)
    PROVE  SaveInv'
  <2>1. \A q \in Rank : pc[q] = "idle"
    BY <1>1 DEF Launch, Running, Rank, IInv, TypeOK, OnlyActiveRun
  <2>2. \A q \in Rank : pc'[q] \in {"setup", "idle"}  BY <1>1 DEF Launch
  <2>3. 0 \in Rank /\ sync' = sync  BY <1>1, OutputAssumption DEF Launch, Rank
  <2> QED BY <2>1, <2>2, <2>3, SaveFrame
<1>2. ASSUME NEW r \in Rank, SetupThrows(r)
    PROVE  SaveInv'
  <2>1. /\ pc[r] \notin SyncPcs /\ pc[r] \notin {"idle", "closed"}
        /\ pc' = [pc EXCEPT ![r] = "finalize"] /\ sync' = sync
    BY <1>2 DEF SetupThrows, ConstructorThrows, SyncPcs, IInv, TypeOK, TrialsOnlyInBatch
  <2>2. \A q \in Rank : q # r =>
           /\ prior'[q] = prior[q] /\ count'[q] = count[q] /\ chkNum'[q] = chkNum[q]
           /\ \A c \in Chk : files'[c][q] = files[c][q]
    BY <1>2 DEF SetupThrows, ConstructorThrows, disk, IInv, TypeOK
  <2> QED BY <2>1, <2>2, SaveMove
<1>3. ASSUME NEW r \in Rank, SetupFresh(r)
    PROVE  SaveInv'
  <2>1. /\ pc[r] \notin SyncPcs /\ pc[r] \notin {"idle", "closed"}
        /\ pc' = [pc EXCEPT ![r] = "open_check"] /\ sync' = sync
    BY <1>3 DEF SetupFresh, SyncPcs, IInv, TypeOK, TrialsOnlyInBatch
  <2>2. \A q \in Rank : q # r =>
           /\ prior'[q] = prior[q] /\ count'[q] = count[q] /\ chkNum'[q] = chkNum[q]
           /\ \A c \in Chk : files'[c][q] = files[c][q]
    BY <1>3 DEF SetupFresh, disk, IInv, TypeOK
  <2> QED BY <2>1, <2>2, SaveMove
<1>4. ASSUME NEW r \in Rank, SetupRestart(r)
    PROVE  SaveInv'
  <2>1. /\ pc[r] \notin SyncPcs /\ pc[r] \notin {"idle", "closed"}
        /\ pc' = [pc EXCEPT ![r] = "open_check"] /\ sync' = sync
    BY <1>4 DEF SetupRestart, SyncPcs, IInv, TypeOK, TrialsOnlyInBatch
  <2>2. \A q \in Rank : q # r =>
           /\ prior'[q] = prior[q] /\ count'[q] = count[q] /\ chkNum'[q] = chkNum[q]
           /\ \A c \in Chk : files'[c][q] = files[c][q]
    BY <1>4 DEF SetupRestart, disk, IInv, TypeOK
  <2> QED BY <2>1, <2>2, SaveMove
<1>5. ASSUME NEW r \in Rank, OpenThrows(r)
    PROVE  SaveInv'
  <2>1. /\ pc[r] \notin SyncPcs /\ pc[r] \notin {"idle", "closed"}
        /\ pc' = [pc EXCEPT ![r] = "finalize"] /\ sync' = sync
    BY <1>5 DEF OpenThrows, ConstructorThrows, SyncPcs, IInv, TypeOK, TrialsOnlyInBatch
  <2>2. \A q \in Rank : q # r =>
           /\ prior'[q] = prior[q] /\ count'[q] = count[q] /\ chkNum'[q] = chkNum[q]
           /\ \A c \in Chk : files'[c][q] = files[c][q]
    BY <1>5 DEF OpenThrows, ConstructorThrows, disk, IInv, TypeOK
  <2> QED BY <2>1, <2>2, SaveMove
<1>6. ASSUME NEW r \in Rank, OpenCheck(r)
    PROVE  SaveInv'
  <2>1. /\ pc[r] \notin SyncPcs /\ pc[r] \notin {"idle", "closed"}
        /\ pc' = [pc EXCEPT ![r] = "open_checked"] /\ sync' = sync
    BY <1>6 DEF OpenCheck, SyncPcs, IInv, TypeOK, TrialsOnlyInBatch
  <2>2. \A q \in Rank : q # r =>
           /\ prior'[q] = prior[q] /\ count'[q] = count[q] /\ chkNum'[q] = chkNum[q]
           /\ \A c \in Chk : files'[c][q] = files[c][q]
    BY <1>6 DEF OpenCheck, disk, IInv, TypeOK
  <2> QED BY <2>1, <2>2, SaveMove
<1>7. ASSUME NEW r \in Rank, MakeDir(r)
    PROVE  SaveInv'
  <2>1. /\ pc[r] \notin SyncPcs /\ pc[r] \notin {"idle", "closed"}
        /\ pc' = [pc EXCEPT ![r] = "dir_made"] /\ sync' = sync
    BY <1>7 DEF MakeDir, SyncPcs, IInv, TypeOK, TrialsOnlyInBatch
  <2>2. \A q \in Rank : q # r =>
           /\ prior'[q] = prior[q] /\ count'[q] = count[q] /\ chkNum'[q] = chkNum[q]
           /\ \A c \in Chk : files'[c][q] = files[c][q]
    BY <1>7 DEF MakeDir, CreateDirectory, IInv, TypeOK, DiskTypeOK
  <2> QED BY <2>1, <2>2, SaveMove
<1>8. ASSUME NEW r \in Rank, OpenFiles(r)
    PROVE  SaveInv'
  <2>1. /\ pc[r] \notin SyncPcs /\ pc[r] \notin {"idle", "closed"} /\ sync' = sync
    BY <1>8 DEF OpenFiles, SyncPcs
  <2>2. \A q \in Rank : q # r =>
           /\ prior'[q] = prior[q] /\ count'[q] = count[q] /\ chkNum'[q] = chkNum[q]
           /\ \A c \in Chk : files'[c][q] = files[c][q]
    BY <1>8 DEF OpenFiles, OpenOutputFile, IInv, TypeOK, DiskTypeOK
  <2>3. pc' = [pc EXCEPT ![r] = "batch"] \/ pc' = [pc EXCEPT ![r] = "close"]
    BY <1>8 DEF OpenFiles, EnterBatch
  <2> QED BY <2>1, <2>2, <2>3, SaveMove
<1>9. ASSUME NEW r \in Rank, NEW t \in Thread, SkipTrial(r, t)
    PROVE  SaveInv'
  <2>1. /\ pc[r] \notin SyncPcs /\ pc[r] \notin {"idle", "closed"}
        /\ pc' = [pc EXCEPT ![r] = "batch"] /\ sync' = sync
    BY <1>9 DEF SkipTrial, TaskUnchanged, SyncPcs, IInv, TypeOK, TrialsOnlyInBatch
  <2>2. \A q \in Rank : q # r =>
           /\ prior'[q] = prior[q] /\ count'[q] = count[q] /\ chkNum'[q] = chkNum[q]
           /\ \A c \in Chk : files'[c][q] = files[c][q]
    BY <1>9 DEF SkipTrial, TaskUnchanged, disk, IInv, TypeOK
  <2> QED BY <2>1, <2>2, SaveMove
<1>10. ASSUME NEW r \in Rank, NEW t \in Thread, BeginTrial(r, t)
     PROVE  SaveInv'
  <2>1. /\ pc[r] \notin SyncPcs /\ pc[r] \notin {"idle", "closed"}
        /\ pc' = [pc EXCEPT ![r] = "batch"] /\ sync' = sync
    BY <1>10 DEF BeginTrial, TaskUnchanged, SyncPcs, IInv, TypeOK, TrialsOnlyInBatch
  <2>2. \A q \in Rank : q # r =>
           /\ prior'[q] = prior[q] /\ count'[q] = count[q] /\ chkNum'[q] = chkNum[q]
           /\ \A c \in Chk : files'[c][q] = files[c][q]
    BY <1>10 DEF BeginTrial, TaskUnchanged, disk, IInv, TypeOK
  <2> QED BY <2>1, <2>2, SaveMove
<1>11. ASSUME NEW r \in Rank, NEW t \in Thread, WriteTrial(r, t)
     PROVE  SaveInv'
  <2>1. /\ pc[r] \notin SyncPcs /\ pc[r] \notin {"idle", "closed"}
        /\ pc' = [pc EXCEPT ![r] = "batch"] /\ sync' = sync
    BY <1>11 DEF WriteTrial, TaskUnchanged, SyncPcs, IInv, TypeOK, TrialsOnlyInBatch
  <2>2. \A q \in Rank : q # r =>
           /\ prior'[q] = prior[q] /\ count'[q] = count[q] /\ chkNum'[q] = chkNum[q]
           /\ \A c \in Chk : files'[c][q] = files[c][q]
    BY <1>11 DEF WriteTrial, TaskUnchanged, WriteCluster, IInv, TypeOK, DiskTypeOK
  <2> QED BY <2>1, <2>2, SaveMove
<1>12. ASSUME NEW r \in Rank, NEW t \in Thread, FinishTrial(r, t)
     PROVE  SaveInv'
  <2>1. /\ pc[r] \notin SyncPcs /\ pc[r] \notin {"idle", "closed"}
        /\ pc' = [pc EXCEPT ![r] = "batch"] /\ sync' = sync
    BY <1>12 DEF FinishTrial, TaskUnchanged, SyncPcs, IInv, TypeOK, TrialsOnlyInBatch
  <2>2. \A q \in Rank : q # r =>
           /\ prior'[q] = prior[q] /\ count'[q] = count[q] /\ chkNum'[q] = chkNum[q]
           /\ \A c \in Chk : files'[c][q] = files[c][q]
    BY <1>12 DEF FinishTrial, TaskUnchanged, NoteDone, IInv, TypeOK, DiskTypeOK
  <2> QED BY <2>1, <2>2, SaveMove
<1>13. ASSUME NEW r \in Rank, NEW t \in Thread, FailTrial(r, t)
     PROVE  SaveInv'
  <2>1. /\ pc[r] \notin SyncPcs /\ pc[r] \notin {"idle", "closed"}
        /\ pc' = [pc EXCEPT ![r] = "batch"] /\ sync' = sync
    BY <1>13 DEF FailTrial, TaskUnchanged, SyncPcs, IInv, TypeOK, TrialsOnlyInBatch
  <2>2. \A q \in Rank : q # r =>
           /\ prior'[q] = prior[q] /\ count'[q] = count[q] /\ chkNum'[q] = chkNum[q]
           /\ \A c \in Chk : files'[c][q] = files[c][q]
    BY <1>13 DEF FailTrial, TaskUnchanged, disk, IInv, TypeOK
  <2> QED BY <2>1, <2>2, SaveMove
<1>14. ASSUME NEW r \in Rank, SigtermArrives(r)
     PROVE  SaveInv'
  BY <1>14, SaveSame DEF SigtermArrives, disk
<1>15. ASSUME NEW r \in Rank, BatchFailed(r)
     PROVE  SaveInv'
  <2>1. /\ pc[r] \notin SyncPcs /\ pc[r] \notin {"idle", "closed"}
        /\ pc' = [pc EXCEPT ![r] = "close"] /\ sync' = sync
    BY <1>15 DEF BatchFailed, BatchOver, SyncPcs, IInv, TypeOK, TrialsOnlyInBatch
  <2>2. \A q \in Rank : q # r =>
           /\ prior'[q] = prior[q] /\ count'[q] = count[q] /\ chkNum'[q] = chkNum[q]
           /\ \A c \in Chk : files'[c][q] = files[c][q]
    BY <1>15 DEF BatchFailed, BatchOver, disk, IInv, TypeOK
  <2> QED BY <2>1, <2>2, SaveMove
<1>16. ASSUME NEW r \in Rank, BatchDone(r)
     PROVE  SaveInv'
  <2>1. /\ pc[r] \notin SyncPcs /\ pc[r] \notin {"idle", "closed"}
        /\ pc' = [pc EXCEPT ![r] = "reduce"] /\ sync' = sync
    BY <1>16 DEF BatchDone, BatchOver, SyncPcs, IInv, TypeOK, TrialsOnlyInBatch
  <2>2. \A q \in Rank : q # r =>
           /\ prior'[q] = prior[q] /\ count'[q] = count[q] /\ chkNum'[q] = chkNum[q]
           /\ \A c \in Chk : files'[c][q] = files[c][q]
    BY <1>16 DEF BatchDone, BatchOver, disk, IInv, TypeOK
  <2> QED BY <2>1, <2>2, SaveMove
<1>17. ASSUME Reduce
     PROVE  SaveInv'
  <2>1. 0 \in Rank /\ sync' = sync /\ Active \subseteq Rank
    BY <1>17, ActiveRanks, OutputAssumption DEF Reduce, Rank
  <2>2. \A q \in Rank : pc[q] # "idle" => pc[q] = "reduce" /\ pc'[q] = "close"
    BY <1>17, ActiveRanks DEF Reduce
  <2>3. \A q \in Rank : pc[q] = "idle" => pc'[q] \in {"idle", "close"}  BY <1>17 DEF Reduce
  <2> QED BY <2>1, <2>2, <2>3, SaveFrame
<1>18. ASSUME Barrier
     PROVE  SaveInv'
  <2>1. /\ 0 \in Rank /\ Active \subseteq Rank /\ Active' = Active
        /\ \A q \in Rank : pc[q] # "idle" => q \in Active
    BY <1>18, ActiveRanks, OutputAssumption DEF Barrier, Active, Rank
  <2>2. /\ UNCHANGED <<size, prior, count, sync, files>>
        /\ pc' = [r \in Rank |-> AfterBarrier(r)]
        /\ \A r \in Active : pc[r] \in BarrierPcs
        /\ chkNum' = [r \in Rank |-> IF pc[r] = "synced" /\ exit[r] = "none"
                                     THEN NextCheckpointNumber(r) ELSE chkNum[r]]
    BY <1>18 DEF Barrier, disk
  <2>3. \A q \in Rank : /\ pc'[q] # "closed" /\ pc'[q] # "sync_write"
                        /\ pc[q] \notin {"sync_read", "sync_write"}
    BY <2>1, <2>2 DEF AfterBarrier, BarrierPcs
  <2>4. sync = NoSync  BY <2>1, <2>3 DEF IInv, SyncVisitsRanks
  <2>5. CASE pc'[0] = "sync_read"
    <3>1. pc[0] = "closed" /\ 0 \in Active  BY <2>1, <2>2, <2>5 DEF AfterBarrier, BarrierPcs
    <3>2. PICK P \in Phases : \A q \in Active : pc[q] \in P  BY DEF IInv, RanksAgree, SamePhase
    <3>3. \A q \in Active : pc[q] = "closed"
      BY <2>2, <3>1, <3>2 DEF BarrierPcs, Phases, OpenPcs, DirPcs, RunPcs, SyncPcs, EndPcs
    <3>4. \A q \in Active : prior[q] = prior[0] /\ chkNum[q] = chkNum[0]
      BY <3>1, <3>3 DEF IInv, RanksAgree, Constructed
    <3>5. \A q \in Active : chkNum'[q] = chkNum[q]  BY <2>1, <2>2, <3>3
    <3>6. \A q \in Active : files[chkNum[0]][q].tc = prior[0] + count[q] /\ count[q] \in Nat
      BY <2>1, <3>3, <3>4 DEF IInv, TypeOK, ClosedFileCounts, TrialsCompleted
    <3>7. prior[0] \in Nat  BY <2>1 DEF IInv, TypeOK
    <3>8. SharesCount'  BY <2>1, <2>2, <3>1, <3>5, <3>6, <3>7 DEF SharesCount, Left
    <3>9. sync'.next < size'  BY <2>1, <2>2, <2>4, <3>1 DEF NoSync, Active, IInv, TypeOK
    <3> QED BY <2>3, <2>5, <3>8, <3>9 DEF SaveInv, ClosedFileCounts, SyncVisitsRanks
  <2>6. CASE pc'[0] # "sync_read"
    BY <2>1, <2>2, <2>3, <2>4, <2>6
    DEF SaveInv, ClosedFileCounts, SharesCount, SyncVisitsRanks
  <2> QED BY <2>5, <2>6
<1>19. ASSUME Finalize
     PROVE  SaveInv'
  <2>1. 0 \in Rank /\ sync' = NoSync /\ \A q \in Rank : pc'[q] = "idle"
    BY <1>19, OutputAssumption DEF Finalize, Forget, Rank
  <2> QED BY <2>1 DEF SaveInv, ClosedFileCounts, SharesCount, SyncVisitsRanks
<1>20. ASSUME NEW r \in Rank, Close(r)
     PROVE  SaveInv'
  <2>1. /\ r \in Rank /\ chkNum[r] \in Chk /\ TrialsCompleted(r) \in Nat /\ maxTrial[r] \in Nat
        /\ nextUid[r] \in Nat /\ DiskTypeOK
    BY NumberingType DEF IInv, TypeOK
  <2>2. CloseOutputFile(chkNum[r], r, TrialsCompleted(r), maxTrial[r], nextUid[r])
    BY <1>20 DEF Close
  <2>3. /\ files'[chkNum[r]][r].tc = TrialsCompleted(r)
        /\ \A d \in Chk, q \in Rank : d # chkNum[r] \/ q # r => files'[d][q] = files[d][q]
    <3> HIDE DEF CloseOutputFile
    <3> QED BY <2>1, <2>2, CloseOutputFileType
  <2>4. /\ UNCHANGED <<prior, count, chkNum, sync>> /\ pc[r] = "close"
        /\ pc' = [pc EXCEPT ![r] = "closed"]
    BY <1>20 DEF Close
  <2>5. 0 \in Rank /\ pc[0] \notin SyncPcs  BY <2>4, Apart, OutputAssumption DEF SyncPcs, Rank
  <2>6. pc'[0] \notin {"sync_read", "sync_write"}  BY <2>4, <2>5 DEF IInv, TypeOK, SyncPcs
  <2>7. ASSUME NEW q \in Rank, pc'[q] = "closed"
        PROVE  files'[chkNum'[q]][q].tc = prior'[q] + count'[q]
    <3>1. CASE q = r  BY <2>3, <2>4, <3>1 DEF TrialsCompleted
    <3>2. CASE q # r
      <4>1. pc[q] = "closed" /\ chkNum[q] \in Chk  BY <2>4, <2>7, <3>2 DEF IInv, TypeOK
      <4>2. files'[chkNum[q]][q] = files[chkNum[q]][q]  BY <2>3, <3>2, <4>1
      <4> QED BY <2>4, <4>1, <4>2 DEF IInv, ClosedFileCounts, TrialsCompleted
    <3> QED BY <3>1, <3>2
  <2> QED
    BY <2>4, <2>5, <2>6, <2>7
    DEF IInv, SaveInv, ClosedFileCounts, TrialsCompleted, SharesCount,
        SyncVisitsRanks, SyncPcs
<1>21. ASSUME NEW r \in Rank, SyncRead(r)
     PROVE  SaveInv'
  <2>1. r = 0 /\ 0 \in Rank /\ \A q \in Rank : pc[q] # "closed"
    BY <1>21, Apart DEF SyncRead, IInv, RootOnly, RunPcs
  <2>2. /\ UNCHANGED <<size, prior, count, chkNum>>
        /\ sync.next \in Rank /\ size \in 0 .. MaxRanks
    BY <1>21 DEF SyncRead, IInv, TypeOK
  <2>3. sync.next < size  BY <1>21, <2>1 DEF SyncRead, IInv, SyncVisitsRanks
  <2>4. pc[0] = "sync_read" /\ files' = files  BY <1>21, <2>1 DEF SyncRead, disk
  <2>5. CASE sync.next + 1 < size
    <3>1. pc' = pc /\ sync'.next = sync.next + 1  BY <1>21, <2>5 DEF SyncRead
    <3> QED
      BY <2>1, <2>2, <2>4, <2>5, <3>1
      DEF IInv, SaveInv, ClosedFileCounts, SharesCount, SyncVisitsRanks, Left,
          Active
  <2>6. CASE ~(sync.next + 1 < size)
    <3>1. pc' = [pc EXCEPT ![0] = "sync_write"] /\ sync'.next = 0  BY <1>21, <2>1, <2>6 DEF SyncRead
    <3>2. pc'[0] = "sync_write" /\ \A q \in Rank : pc'[q] # "closed"  BY <2>1, <3>1 DEF IInv, TypeOK
    <3>3. sync'.next < size'  BY <2>2, <2>3, <3>1 DEF Rank
    <3> QED BY <3>2, <3>3 DEF SaveInv, ClosedFileCounts, SharesCount, SyncVisitsRanks
  <2> QED BY <2>5, <2>6
<1>22. ASSUME NEW r \in Rank, SyncWrite(r)
     PROVE  SaveInv'
  <2>1. r = 0 /\ 0 \in Rank /\ \A q \in Rank : pc[q] # "closed"
    BY <1>22, Apart DEF SyncWrite, IInv, RootOnly, RunPcs
  <2>2. /\ UNCHANGED <<size, prior, count, chkNum>>
        /\ sync.next \in Rank /\ size \in 0 .. MaxRanks
    BY <1>22 DEF SyncWrite, IInv, TypeOK
  <2>4. pc[0] = "sync_write"  BY <1>22, <2>1 DEF SyncWrite
  <2>5. CASE sync.next + 1 < size
    <3>1. pc' = pc /\ sync' = [sync EXCEPT !.next = sync.next + 1]  BY <1>22, <2>5 DEF SyncWrite
    <3>2. sync'.next = sync.next + 1  BY <3>1 DEF IInv, TypeOK
    <3> QED
      BY <2>1, <2>2, <2>4, <2>5, <3>1, <3>2
      DEF SaveInv, ClosedFileCounts, SharesCount, SyncVisitsRanks
  <2>6. CASE ~(sync.next + 1 < size)
    <3>1. pc' = [pc EXCEPT ![0] = "synced"] /\ sync' = NoSync  BY <1>22, <2>1, <2>6 DEF SyncWrite
    <3>2. pc'[0] = "synced" /\ \A q \in Rank : pc'[q] # "closed"  BY <2>1, <3>1 DEF IInv, TypeOK
    <3> QED BY <3>1, <3>2 DEF SaveInv, ClosedFileCounts, SharesCount, SyncVisitsRanks
  <2> QED BY <2>5, <2>6
<1>23. ASSUME NEW r \in Rank, MergeSkip(r)
     PROVE  SaveInv'
  <2>1. /\ pc[r] = "merge" /\ sync' = sync
        /\ pc' = pc \/ pc' = [pc EXCEPT ![r] = "finalize"]
    BY <1>23 DEF MergeSkip
  <2>2. 0 \in Rank /\ pc[0] \notin SyncPcs /\ \A q \in Rank : pc[q] # "closed"
    BY <2>1, Apart, OutputAssumption DEF SyncPcs, RunPcs, Rank
  <2>3. pc'[0] \notin SyncPcs /\ \A q \in Rank : pc'[q] # "closed"
    BY <2>1, <2>2 DEF IInv, TypeOK, SyncPcs
  <2> QED BY <2>1, <2>2, <2>3, SaveFrame DEF SyncPcs
<1>24. ASSUME NEW r \in Rank, MergeCopy(r)
     PROVE  SaveInv'
  <2>1. /\ pc[r] = "merge" /\ sync' = sync
        /\ pc' = pc \/ pc' = [pc EXCEPT ![r] = "finalize"]
    BY <1>24 DEF MergeCopy
  <2>2. 0 \in Rank /\ pc[0] \notin SyncPcs /\ \A q \in Rank : pc[q] # "closed"
    BY <2>1, Apart, OutputAssumption DEF SyncPcs, RunPcs, Rank
  <2>3. pc'[0] \notin SyncPcs /\ \A q \in Rank : pc'[q] # "closed"
    BY <2>1, <2>2 DEF IInv, TypeOK, SyncPcs
  <2> QED BY <2>1, <2>2, <2>3, SaveFrame DEF SyncPcs
<1>25. ASSUME NEW r \in Rank, MergeAppend(r)
     PROVE  SaveInv'
  <2>1. /\ pc[r] = "merge" /\ sync' = sync
        /\ pc' = pc \/ pc' = [pc EXCEPT ![r] = "finalize"]
    BY <1>25 DEF MergeAppend
  <2>2. 0 \in Rank /\ pc[0] \notin SyncPcs /\ \A q \in Rank : pc[q] # "closed"
    BY <2>1, Apart, OutputAssumption DEF SyncPcs, RunPcs, Rank
  <2>3. pc'[0] \notin SyncPcs /\ \A q \in Rank : pc'[q] # "closed"
    BY <2>1, <2>2 DEF IInv, TypeOK, SyncPcs
  <2> QED BY <2>1, <2>2, <2>3, SaveFrame DEF SyncPcs
<1>26. ASSUME NEW r \in Rank, MergeClose(r)
     PROVE  SaveInv'
  <2>1. /\ pc[r] = "merge" /\ sync' = sync
        /\ pc' = pc \/ pc' = [pc EXCEPT ![r] = "finalize"]
    BY <1>26 DEF MergeClose
  <2>2. 0 \in Rank /\ pc[0] \notin SyncPcs /\ \A q \in Rank : pc[q] # "closed"
    BY <2>1, Apart, OutputAssumption DEF SyncPcs, RunPcs, Rank
  <2>3. pc'[0] \notin SyncPcs /\ \A q \in Rank : pc'[q] # "closed"
    BY <2>1, <2>2 DEF IInv, TypeOK, SyncPcs
  <2> QED BY <2>1, <2>2, <2>3, SaveFrame DEF SyncPcs
<1>27. ASSUME NEW r \in Rank, MergeUnlink(r) \/ MergeRemove(r)
     PROVE  SaveInv'
  <2>1. /\ pc[r] = "merge" /\ sync' = sync
        /\ pc' = pc \/ pc' = [pc EXCEPT ![r] = "finalize"]
    BY <1>27 DEF MergeUnlink, MergeRemove
  <2>2. 0 \in Rank /\ pc[0] \notin SyncPcs /\ \A q \in Rank : pc[q] # "closed"
    BY <2>1, Apart, OutputAssumption DEF SyncPcs, RunPcs, Rank
  <2>3. pc'[0] \notin SyncPcs /\ \A q \in Rank : pc'[q] # "closed"
    BY <2>1, <2>2 DEF IInv, TypeOK, SyncPcs
  <2> QED BY <2>1, <2>2, <2>3, SaveFrame DEF SyncPcs
<1>28. ASSUME NEW r \in Rank, MergeDone(r)
     PROVE  SaveInv'
  <2>1. /\ pc[r] = "merge" /\ sync' = sync
        /\ pc' = pc \/ pc' = [pc EXCEPT ![r] = "finalize"]
    BY <1>28 DEF MergeDone
  <2>2. 0 \in Rank /\ pc[0] \notin SyncPcs /\ \A q \in Rank : pc[q] # "closed"
    BY <2>1, Apart, OutputAssumption DEF SyncPcs, RunPcs, Rank
  <2>3. pc'[0] \notin SyncPcs /\ \A q \in Rank : pc'[q] # "closed"
    BY <2>1, <2>2 DEF IInv, TypeOK, SyncPcs
  <2> QED BY <2>1, <2>2, <2>3, SaveFrame DEF SyncPcs
<1>29. ASSUME Crash
     PROVE  SaveInv'
  <2>1. 0 \in Rank /\ sync' = NoSync /\ \A q \in Rank : pc'[q] = "idle"
    BY <1>29, OutputAssumption DEF Crash, Forget, Rank
  <2> QED BY <2>1 DEF SaveInv, ClosedFileCounts, SharesCount, SyncVisitsRanks
<1>30. ASSUME DeleteUnreadable
     PROVE  SaveInv'
  <2>1. /\ 0 \in Rank /\ UNCHANGED <<pc, sync>> /\ size = 0
    BY <1>30, OutputAssumption DEF DeleteUnreadable, Running, Rank
  <2>2. \A q \in Rank : pc[q] = "idle"  BY <2>1 DEF IInv, TypeOK, OnlyActiveRun, Rank
  <2> QED BY <2>1, <2>2, SaveFrame
<1>31. CASE UNCHANGED vars  BY <1>31, SaveSame DEF vars, disk
<1> QED BY <1>1, <1>2, <1>3, <1>4, <1>5, <1>6, <1>7, <1>8, <1>9, <1>10, <1>11, <1>12, <1>13,
     <1>14,
     <1>15, <1>16, <1>17, <1>18, <1>19, <1>20, <1>21, <1>22, <1>23, <1>24,
     <1>25, <1>26, <1>27, <1>28, <1>29, <1>30, <1>31
  DEF Next, RankStep, Setup, Open, Trial, Batch, Save, Merge, Collective, Outside, Finished

LEMMA MergeTypes ==
  ASSUME IInv
  PROVE  /\ merge \in [chk : 0 .. MaxChk + 1, last : 0 .. MaxRanks]
         /\ chkNum \in [Rank -> Chk] /\ 0 \in Rank
         /\ ~MergeOver => merge.chk \in Chk
<1>1. /\ merge \in [chk : 0 .. MaxChk + 1, last : 0 .. MaxRanks]
      /\ chkNum \in [Rank -> Chk] /\ 0 \in Rank
  BY OutputAssumption DEF IInv, TypeOK, Rank
<1>2. chkNum[0] \in 0 .. MaxChk /\ merge.chk \in 0 .. MaxChk + 1  BY <1>1 DEF Chk
<1>3. ~MergeOver => merge.chk \in Chk  BY <1>2, OutputAssumption DEF MergeOver, Chk
<1> QED BY <1>1, <1>3

\* Every step keeps consolidation within the checkpoints there are.
LEMMA MergeStep ==
  ASSUME IInv, [Next]_vars
  PROVE  MergeWithinCheckpoints'
<1>1. ASSUME NEW n \in RankCounts, NEW again \in BOOLEAN, Launch(n, again)
    PROVE  MergeWithinCheckpoints'
  BY <1>1 DEF Launch, IInv, MergeWithinCheckpoints, MergeUnstarted
<1>2. ASSUME NEW r \in Rank, SetupThrows(r)
    PROVE  MergeWithinCheckpoints'
  BY <1>2 DEF SetupThrows, ConstructorThrows, IInv, MergeWithinCheckpoints, MergeUnstarted
<1>3. ASSUME NEW r \in Rank, SetupFresh(r)
    PROVE  MergeWithinCheckpoints'
  BY <1>3 DEF SetupFresh, IInv, MergeWithinCheckpoints, MergeUnstarted
<1>4. ASSUME NEW r \in Rank, SetupRestart(r)
    PROVE  MergeWithinCheckpoints'
  BY <1>4 DEF SetupRestart, IInv, MergeWithinCheckpoints, MergeUnstarted
<1>5. ASSUME NEW r \in Rank, OpenThrows(r)
    PROVE  MergeWithinCheckpoints'
  BY <1>5 DEF OpenThrows, ConstructorThrows, IInv, MergeWithinCheckpoints, MergeUnstarted
<1>6. ASSUME NEW r \in Rank, OpenCheck(r)
    PROVE  MergeWithinCheckpoints'
  BY <1>6 DEF OpenCheck, IInv, MergeWithinCheckpoints, MergeUnstarted
<1>7. ASSUME NEW r \in Rank, MakeDir(r)
    PROVE  MergeWithinCheckpoints'
  BY <1>7 DEF MakeDir, IInv, MergeWithinCheckpoints, MergeUnstarted
<1>8. ASSUME NEW r \in Rank, OpenFiles(r)
    PROVE  MergeWithinCheckpoints'
  BY <1>8 DEF OpenFiles, EnterBatch, IInv, MergeWithinCheckpoints, MergeUnstarted
<1>9. ASSUME NEW r \in Rank, NEW t \in Thread, SkipTrial(r, t)
    PROVE  MergeWithinCheckpoints'
  BY <1>9 DEF SkipTrial, TaskUnchanged, IInv, MergeWithinCheckpoints, MergeUnstarted
<1>10. ASSUME NEW r \in Rank, NEW t \in Thread, BeginTrial(r, t)
     PROVE  MergeWithinCheckpoints'
  BY <1>10 DEF BeginTrial, TaskUnchanged, IInv, MergeWithinCheckpoints, MergeUnstarted
<1>11. ASSUME NEW r \in Rank, NEW t \in Thread, WriteTrial(r, t)
     PROVE  MergeWithinCheckpoints'
  BY <1>11 DEF WriteTrial, TaskUnchanged, IInv, MergeWithinCheckpoints, MergeUnstarted
<1>12. ASSUME NEW r \in Rank, NEW t \in Thread, FinishTrial(r, t)
     PROVE  MergeWithinCheckpoints'
  BY <1>12
  DEF FinishTrial, TaskUnchanged, Idle, IInv, MergeWithinCheckpoints, MergeUnstarted
<1>13. ASSUME NEW r \in Rank, NEW t \in Thread, FailTrial(r, t)
     PROVE  MergeWithinCheckpoints'
  BY <1>13
  DEF FailTrial, TaskUnchanged, Idle, IInv, MergeWithinCheckpoints, MergeUnstarted
<1>14. ASSUME NEW r \in Rank, SigtermArrives(r)
     PROVE  MergeWithinCheckpoints'
  BY <1>14 DEF SigtermArrives, IInv, MergeWithinCheckpoints, MergeUnstarted
<1>15. ASSUME NEW r \in Rank, BatchFailed(r)
     PROVE  MergeWithinCheckpoints'
  BY <1>15 DEF BatchFailed, BatchOver, IInv, MergeWithinCheckpoints, MergeUnstarted
<1>16. ASSUME NEW r \in Rank, BatchDone(r)
     PROVE  MergeWithinCheckpoints'
  BY <1>16 DEF BatchDone, BatchOver, IInv, MergeWithinCheckpoints, MergeUnstarted
<1>17. ASSUME Reduce
     PROVE  MergeWithinCheckpoints'
  BY <1>17 DEF Reduce, Active, IInv, MergeWithinCheckpoints, MergeUnstarted
<1>18. ASSUME Barrier
     PROVE  MergeWithinCheckpoints'
  BY <1>18
  DEF Barrier, AfterBarrier, NextCheckpointNumber, BarrierPcs, Active, IInv,
      MergeWithinCheckpoints, MergeUnstarted
<1>19. ASSUME Finalize
     PROVE  MergeWithinCheckpoints'
  BY <1>19 DEF Finalize, Forget, NoMerge, MergeWithinCheckpoints, MergeUnstarted
<1>20. ASSUME NEW r \in Rank, Close(r)
     PROVE  MergeWithinCheckpoints'
  BY <1>20 DEF Close, IInv, MergeWithinCheckpoints, MergeUnstarted
<1>21. ASSUME NEW r \in Rank, SyncRead(r)
     PROVE  MergeWithinCheckpoints'
  BY <1>21 DEF SyncRead, IInv, MergeWithinCheckpoints, MergeUnstarted
<1>22. ASSUME NEW r \in Rank, SyncWrite(r)
     PROVE  MergeWithinCheckpoints'
  BY <1>22 DEF SyncWrite, IInv, MergeWithinCheckpoints, MergeUnstarted
<1>23. ASSUME NEW r \in Rank, MergeSkip(r)
     PROVE  MergeWithinCheckpoints'
  BY <1>23, MergeTypes
  DEF MergeSkip, MergeWithinCheckpoints, MergeUnstarted, NoMerge, IInv
<1>24. ASSUME NEW r \in Rank, MergeCopy(r)
     PROVE  MergeWithinCheckpoints'
  BY <1>24, MergeTypes
  DEF MergeCopy, MergeWithinCheckpoints, MergeUnstarted, NoMerge, IInv
<1>25. ASSUME NEW r \in Rank, MergeAppend(r)
     PROVE  MergeWithinCheckpoints'
  BY <1>25, MergeTypes
  DEF MergeAppend, MergeWithinCheckpoints, MergeUnstarted, NoMerge, IInv
<1>26. ASSUME NEW r \in Rank, MergeClose(r)
     PROVE  MergeWithinCheckpoints'
  BY <1>26 DEF MergeClose, MergeWithinCheckpoints, MergeUnstarted, IInv
<1>27. ASSUME NEW r \in Rank, MergeUnlink(r) \/ MergeRemove(r)
     PROVE  MergeWithinCheckpoints'
  BY <1>27, MergeTypes
  DEF MergeUnlink, MergeRemove, MergeWithinCheckpoints, MergeUnstarted, NoMerge, IInv
<1>28. ASSUME NEW r \in Rank, MergeDone(r)
     PROVE  MergeWithinCheckpoints'
  BY <1>28, MergeTypes
  DEF MergeDone, MergeWithinCheckpoints, MergeUnstarted, NoMerge, IInv
<1>29. ASSUME Crash
     PROVE  MergeWithinCheckpoints'
  BY <1>29 DEF Crash, Forget, NoMerge, MergeWithinCheckpoints, MergeUnstarted
<1>30. ASSUME DeleteUnreadable
     PROVE  MergeWithinCheckpoints'
  BY <1>30 DEF DeleteUnreadable, IInv, MergeWithinCheckpoints, MergeUnstarted
<1>31. CASE UNCHANGED vars  BY <1>31 DEF vars, IInv, MergeWithinCheckpoints, MergeUnstarted
<1> QED BY <1>1, <1>2, <1>3, <1>4, <1>5, <1>6, <1>7, <1>8, <1>9, <1>10, <1>11, <1>12, <1>13,
     <1>14,
     <1>15, <1>16, <1>17, <1>18, <1>19, <1>20, <1>21, <1>22, <1>23, <1>24,
     <1>25, <1>26, <1>27, <1>28, <1>29, <1>30, <1>31
  DEF Next, RankStep, Setup, Open, Trial, Batch, Save, Merge, Collective, Outside, Finished

-----------------------------------------------------------------------------
(* The theorems.                                                           *)

\* A run begins in the invariant ...
LEMMA InitInv == Init => IInv
<1> SUFFICES ASSUME Init
             PROVE  IInv
  OBVIOUS
<1> USE DEF Init
<1>1. Idle \in Task /\ NoFile \in File  BY NoFileType DEF Idle, Task
<1>2. /\ NoSync \in [tc : Nat, mx : Nat, next : Rank]
      /\ NoMerge \in [chk : 0 .. MaxChk + 1, last : 0 .. MaxRanks]
  BY OutputAssumption DEF NoSync, NoMerge, Rank
<1>3. DiskTypeOK  BY <1>1 DEF DiskInit, DiskTypeOK
<1>4. /\ sessions \in 0 .. MaxSessions /\ size \in 0 .. MaxRanks
      /\ chkNum \in [Rank -> Chk] /\ task \in [Rank -> [Thread -> Task]]
  BY <1>1, OutputAssumption, RunAssumption DEF Chk
<1>5. TypeOK  BY <1>2, <1>3, <1>4 DEF TypeOK
<1>6. Active = {} /\ \A r \in Rank : pc[r] = "idle"  BY DEF Active
<1>7. 0 \in Rank  BY OutputAssumption DEF Rank
<1>8. RanksAgree  BY <1>6 DEF RanksAgree, SamePhase, Phases
<1>9. /\ OnlyActiveRun /\ FreshUntilSetup /\ TrialsOnlyInBatch /\ RootOnly
      /\ ExitOnlyAtEnd /\ InRunWhenClosing
  BY <1>6
  DEF OnlyActiveRun, FreshUntilSetup, TrialsOnlyInBatch, RootOnly, ExitOnlyAtEnd,
      InRunWhenClosing, Closing, SyncPcs, Idle
<1>10. NoneInRunDuringSetup /\ SetupReadsDisk  BY <1>6 DEF NoneInRunDuringSetup, SetupReadsDisk
<1>11. ClosedFileCounts /\ SharesCount /\ SyncVisitsRanks
  BY <1>6, <1>7 DEF ClosedFileCounts, SharesCount, SyncVisitsRanks
<1>12. MergeWithinCheckpoints  BY DEF MergeWithinCheckpoints, MergeUnstarted, NoMerge
<1> QED BY <1>5, <1>8, <1>9, <1>10, <1>11, <1>12 DEF IInv

\* ... and no step leaves it.
LEMMA NextInv == IInv /\ [Next]_vars => IInv'
BY TypeStep, LocalStep, AgreeStep, SetupStep, SaveStep, MergeStep
DEF IInv, Local, SetupInv, SaveInv

\* The inductive invariant holds in every session of a run, for any numbers of
\* ranks, threads, trials and sessions and any faults.
THEOREM Inductive == Spec => []IInv
BY InitInv, NextInv, PTL DEF Spec

\* Every variable keeps its type: no checkpoint number, trial number, unique ID
\* or count of trials leaves its range, and syncCheckpoints subtracts nothing
\* larger from a file's trials_completed.
THEOREM TypeCorrect == Spec => []TypeOK
<1>1. IInv => TypeOK  BY DEF IInv
<1> QED BY <1>1, Inductive, PTL

\* The ranks of a session agree on the phase they are in, the checkpoint number,
\* what a restart found, the batch they number, and whether to roll over.
THEOREM Agreement == Spec => []RanksAgree
<1>1. IInv => RanksAgree  BY DEF IInv
<1> QED BY <1>1, Inductive, PTL

-----------------------------------------------------------------------------
(* Names, files and rows: DiskInv.                                         *)

USE DEF sessionVars, setupVars, trialVars, signalVars, rootVars

-----------------------------------------------------------------------------
(* The ranks of a session.                                                 *)

\* Ranks that make a checkpoint, run or synchronise do so together, and with
\* the same checkpoint.
LEMMA Together ==
  ASSUME IInv, NEW r \in Rank, NEW P \in {DirPcs, RunPcs, SyncPcs}, pc[r] \in P
  PROVE  \A q \in Active : pc[q] \in P /\ chkNum[q] = chkNum[r]
<1>1. r \in Active  BY ActiveRanks DEF DirPcs, RunPcs, SyncPcs
<1>2. PICK Q \in Phases : \A q \in Active : pc[q] \in Q  BY DEF IInv, RanksAgree, SamePhase
<1>3. P = Q  BY <1>1, <1>2 DEF Phases, OpenPcs, DirPcs, RunPcs, SyncPcs, EndPcs
<1>4. \A q \in Active : Constructed(q)  BY <1>2, <1>3 DEF Constructed, DirPcs, RunPcs, SyncPcs
<1> QED BY <1>1, <1>2, <1>3, <1>4 DEF IInv, RanksAgree

\* While rank 0 consolidates, the others are done.
LEMMA MergeAlone ==
  ASSUME IInv, NEW r \in Rank, pc[r] = "merge"
  PROVE  r = 0 /\ \A q \in Rank : pc[q] \in EndPcs \cup {"idle"}
<1>1. r \in Active /\ \A q \in Rank : pc[q] # "idle" => q \in Active  BY ActiveRanks
<1>2. PICK P \in Phases : \A q \in Active : pc[q] \in P  BY DEF IInv, RanksAgree, SamePhase
<1>3. P = EndPcs  BY <1>1, <1>2 DEF Phases, OpenPcs, DirPcs, RunPcs, SyncPcs, EndPcs
<1> QED BY <1>1, <1>2, <1>3 DEF IInv, RootOnly

-----------------------------------------------------------------------------
(* The numbers of the checkpoints.                                         *)

\* Where a rank is when it has no checkpoint of its own.
Aside == {"idle", "setup", "finalize", "merge"}

NamesInv == NoGaps /\ NumbersTaken /\ DirectoryMade

\* Rank q goes nowhere that would tell it more of the disk than it knew.
Keeps(q) ==
  \/ pc'[q] = pc[q] /\ inRun'[q] = inRun[q]
  \/ pc'[q] \in Aside
  \/ pc[q] \in RunPcs /\ pc'[q] \in RunPcs
  \/ pc[q] \in SyncPcs /\ pc'[q] \in SyncPcs

LEMMA FoundSame ==
  ASSUME UNCHANGED <<hasDir, h5>>
  PROVE  FoundCheckpoints' = FoundCheckpoints
BY DEF FoundCheckpoints, Exists, HasH5

\* The same checkpoints are there, and the ranks keep to what they know.
LEMMA NamesFrame ==
  ASSUME NamesInv, UNCHANGED <<hasDir, h5, chkNum>>, \A q \in Rank : Keeps(q)
  PROVE  NamesInv'
<1>1. FoundCheckpoints' = FoundCheckpoints  BY FoundSame
<1>2. NoGaps'  BY <1>1 DEF NamesInv, NoGaps
<1>3. NumbersTaken'
  BY <1>1
  DEF NamesInv, NumbersTaken, NameFree, Keeps, Aside, RunPcs, SyncPcs
<1>4. DirectoryMade'  BY DEF NamesInv, DirectoryMade, Keeps, Aside, RunPcs, SyncPcs
<1> QED BY <1>2, <1>3, <1>4 DEF NamesInv

\* No rank has a checkpoint.
LEMMA NamesAside ==
  ASSUME NoGaps', \A q \in Rank : pc'[q] \in Aside
  PROVE  NamesInv'
BY DEF NamesInv, NumbersTaken, NameFree, DirectoryMade, Aside, DirPcs, RunPcs, SyncPcs

\* What there is stays there, under one form or the other.
LEMMA MergeNames ==
  ASSUME IInv, NamesInv, NEW r \in Rank, Merge(r)
  PROVE  NamesInv'
<1>1. /\ r = 0 /\ \A q \in Rank : pc[q] \in Aside
      /\ \A q \in Rank : pc'[q] \in Aside
  <2>1. pc[r] = "merge"
    BY DEF Merge, MergeSkip, MergeCopy, MergeAppend, MergeClose, MergeUnlink, MergeRemove, MergeDone
  <2>2. pc' = pc \/ pc' = [pc EXCEPT ![r] = "finalize"]
    BY DEF Merge, MergeSkip, MergeCopy, MergeAppend, MergeClose, MergeUnlink, MergeRemove, MergeDone
  <2> QED BY <2>1, <2>2, MergeAlone DEF IInv, TypeOK, Aside, EndPcs
<1>2. FoundCheckpoints' = FoundCheckpoints
  <2> USE DEF FoundCheckpoints, Exists, HasH5
  <2>0. /\ ~MergeUnstarted \/ ~MergeOver => merge.chk \in Chk
        /\ hasDir \in [Chk -> BOOLEAN] /\ h5 \in [Chk -> File]
        /\ \A c \in Chk : h5[c] \in File
    BY MergeTypes DEF IInv, MergeWithinCheckpoints, TypeOK, DiskTypeOK
  <2>1. CASE MergeSkip(r) \/ MergeDone(r)  BY <2>1 DEF MergeSkip, MergeDone, disk
  <2>2. CASE MergeCopy(r)
    <3>1. /\ h5' = [h5 EXCEPT ![merge.chk] =
                      [files[merge.chk][Min(RanksIn(merge.chk))] EXCEPT !.st = "open"]]
          /\ hasDir' = hasDir /\ hasDir[merge.chk]
      BY <2>2 DEF MergeCopy, CopyFirstFile
    <3> QED BY <2>0, <3>1
  <2>3. CASE MergeAppend(r)
    <3>1. hasDir' = hasDir /\ \A c \in Chk : h5'[c].st = h5[c].st
      BY <2>0, <2>3 DEF MergeAppend, AppendFile, File
    <3> QED BY <3>1
  <2>4. CASE MergeClose(r)
    <3>1. /\ hasDir' = hasDir
          /\ \A c \in Chk : h5'[c].st = IF c = merge.chk THEN "closed" ELSE h5[c].st
          /\ h5[merge.chk].st = "open"
      BY <2>0, <2>4 DEF MergeClose, CloseConsolidated, File
    <3> QED BY <3>1
  <2>5. CASE MergeUnlink(r) \/ MergeRemove(r)  BY <2>0, <2>5, CleanupEffect
  <2> QED BY <2>1, <2>2, <2>3, <2>4, <2>5 DEF Merge
<1>3. NoGaps'  BY <1>2 DEF NamesInv, NoGaps
<1> QED BY <1>1, <1>3, NamesAside

\* The last checkpoint there is.
LEMMA MaxCheckpointLast ==
  ASSUME FoundCheckpoints # {}
  PROVE  MaxCheckpoint \in FoundCheckpoints /\ \A c \in FoundCheckpoints : c <= MaxCheckpoint
<1>1. IsFiniteSet(Chk) /\ Chk \in SUBSET Int  BY OutputAssumption, FS_Interval DEF Chk
<1>2. FoundCheckpoints \in SUBSET Chk  BY DEF FoundCheckpoints
<1>3. IsFiniteSet(FoundCheckpoints) /\ FoundCheckpoints \in SUBSET Int  BY <1>1, <1>2, FS_Subset
<1>4. /\ MaxCheckpoint \in FoundCheckpoints
      /\ \A c \in FoundCheckpoints : MaxCheckpoint >= c
  BY <1>3, MaxOfFinite DEF MaxCheckpoint
<1> QED BY <1>3, <1>4

\* The checkpoint findRestartUidForRank stops at is the last of those it looks for.
LEMMA LastUidCheckpoint ==
  ASSUME NEW r \in Rank, UidCheckpoints(r) # {}
  PROVE  /\ Max(UidCheckpoints(r)) \in UidCheckpoints(r)
         /\ \A c \in UidCheckpoints(r) : c <= Max(UidCheckpoints(r))
<1>1. IsFiniteSet(Chk) /\ Chk \in SUBSET Int  BY OutputAssumption, FS_Interval DEF Chk
<1>2. UidCheckpoints(r) \in SUBSET Chk  BY DEF UidCheckpoints
<1>3. IsFiniteSet(UidCheckpoints(r)) /\ UidCheckpoints(r) \in SUBSET Int  BY <1>1, <1>2, FS_Subset
<1>4. /\ Max(UidCheckpoints(r)) \in UidCheckpoints(r)
      /\ \A c \in UidCheckpoints(r) : Max(UidCheckpoints(r)) >= c
  BY <1>3, MaxOfFinite
<1> QED BY <1>3, <1>4

\* A constructor takes the number after the last checkpoint, or 0.
LEMMA SetupNames ==
  ASSUME IInv, NamesInv, NEW r \in Rank, SetupFresh(r) \/ SetupRestart(r)
  PROVE  NamesInv'
<1>1. /\ pc[r] = "setup" /\ pc' = [pc EXCEPT ![r] = "open_check"]
      /\ ~inRun[r] /\ chkNum[r] = 0 /\ inRun' = inRun
      /\ hasDir' = hasDir /\ h5' = h5
  BY DEF SetupFresh, SetupRestart, IInv, FreshUntilSetup, disk
<1>2. FoundCheckpoints' = FoundCheckpoints  BY <1>1, FoundSame
<1>3. /\ 0 .. chkNum'[r] - 1 \subseteq FoundCheckpoints
      /\ \A q \in Rank : q # r => chkNum'[q] = chkNum[q]
  <2>1. CASE SetupFresh(r)
    <3>1. chkNum' = chkNum /\ 0 .. chkNum[r] - 1 = {}  BY <1>1, <2>1 DEF SetupFresh
    <3> QED BY <3>1
  <2>2. CASE SetupRestart(r)
    <3>1. /\ FoundCheckpoints # {}
          /\ chkNum' = [chkNum EXCEPT ![r] = MaxCheckpoint + 1]
      BY <2>2 DEF SetupRestart
    <3>2. MaxCheckpoint \in FoundCheckpoints /\ MaxCheckpoint \in Chk
      BY <3>1, MaxCheckpointLast, MaxCheckpointType
    <3>3. 0 .. MaxCheckpoint \subseteq FoundCheckpoints  BY <3>2 DEF NamesInv, NoGaps
    <3>4. chkNum'[r] - 1 = MaxCheckpoint  BY <3>1, <3>2, OutputAssumption DEF IInv, TypeOK, Chk
    <3> QED BY <3>1, <3>3, <3>4 DEF IInv, TypeOK
  <2> QED BY <2>1, <2>2
<1>4. \A q \in Rank : q # r => pc'[q] = pc[q]  BY <1>1 DEF IInv, TypeOK
<1>5. pc'[r] = "open_check"  BY <1>1 DEF IInv, TypeOK
<1>6. NoGaps'  BY <1>2 DEF NamesInv, NoGaps
<1>7. NumbersTaken'
  BY <1>1, <1>2, <1>3, <1>4, <1>5 DEF NamesInv, NumbersTaken, NameFree, RunPcs, SyncPcs
<1>8. DirectoryMade'  BY <1>1, <1>3, <1>4, <1>5 DEF NamesInv, DirectoryMade, RunPcs
<1> QED BY <1>6, <1>7, <1>8 DEF NamesInv

\* The check of openNewOutputFiles has found the name free.
LEMMA CheckNames ==
  ASSUME IInv, NamesInv, NEW r \in Rank, OpenCheck(r)
  PROVE  NamesInv'
<1>1. /\ pc[r] = "open_check" /\ pc' = [pc EXCEPT ![r] = "open_checked"]
      /\ ~Exists(chkNum[r]) /\ inRun' = inRun /\ chkNum' = chkNum
      /\ hasDir' = hasDir /\ h5' = h5
  BY DEF OpenCheck, disk
<1>2. FoundCheckpoints' = FoundCheckpoints  BY <1>1, FoundSame
<1>3. /\ chkNum[r] \in Chk /\ chkNum[r] \notin FoundCheckpoints
      /\ FoundCheckpoints \subseteq Chk
  BY <1>1 DEF IInv, TypeOK, FoundCheckpoints
<1>4. \A c \in FoundCheckpoints : c \in 0 .. chkNum[r] - 1
  <2>1. \A c \in FoundCheckpoints : chkNum[r] \notin 0 .. c  BY <1>3 DEF NamesInv, NoGaps
  <2> QED BY <1>3, <2>1, OutputAssumption DEF Chk
<1>5. FoundCheckpoints = 0 .. chkNum[r] - 1  BY <1>1, <1>4 DEF NamesInv, NumbersTaken
<1>6. pc'[r] = "open_checked" /\ \A q \in Rank : q # r => pc'[q] = pc[q]  BY <1>1 DEF IInv, TypeOK
<1>7. NoGaps'  BY <1>2 DEF NamesInv, NoGaps
<1>8. NumbersTaken'  BY <1>1, <1>2, <1>5, <1>6 DEF NamesInv, NumbersTaken, NameFree, RunPcs, SyncPcs
<1>9. DirectoryMade'  BY <1>1, <1>6 DEF NamesInv, DirectoryMade, RunPcs
<1> QED BY <1>7, <1>8, <1>9 DEF NamesInv

\* Rank 0 makes the directory of the next checkpoint.
LEMMA MakeDirNames ==
  ASSUME IInv, NamesInv, NEW r \in Rank, MakeDir(r)
  PROVE  NamesInv'
<1>1. /\ pc[r] = "make_dir" /\ pc' = [pc EXCEPT ![r] = "dir_made"]
      /\ hasDir' = [hasDir EXCEPT ![chkNum[r]] = TRUE] /\ h5' = h5
      /\ inRun' = inRun /\ chkNum' = chkNum
  BY DEF MakeDir, CreateDirectory
<1>2. /\ r = 0 /\ chkNum[r] \in Chk /\ hasDir \in [Chk -> BOOLEAN]
      /\ FoundCheckpoints = 0 .. chkNum[r] - 1
  BY <1>1 DEF IInv, RootOnly, TypeOK, DiskTypeOK, NamesInv, NumbersTaken, NameFree
<1>3. FoundCheckpoints' = FoundCheckpoints \cup {chkNum[r]} /\ hasDir'[chkNum[r]]
  BY <1>1, <1>2 DEF FoundCheckpoints, Exists, HasH5
<1>4. FoundCheckpoints' = 0 .. chkNum[r]  BY <1>2, <1>3, OutputAssumption DEF Chk
<1>5. \A q \in Rank : pc[q] # "idle" => pc[q] \in DirPcs /\ chkNum[q] = chkNum[r]
  BY <1>1, ActiveRanks, Together DEF DirPcs
<1>6. \A q \in Rank : (pc'[q] = "dir_made" /\ chkNum'[q] = chkNum[r]) \/ pc'[q] = "idle"
  BY <1>1, <1>2, <1>5 DEF IInv, TypeOK, RootOnly, DirPcs
<1>7. NoGaps'  BY <1>2, <1>4, OutputAssumption DEF NoGaps, Chk
<1>8. NumbersTaken'  BY <1>4, <1>6 DEF NumbersTaken, NameFree, RunPcs, SyncPcs
<1>9. DirectoryMade'  BY <1>3, <1>6 DEF DirectoryMade, RunPcs
<1> QED BY <1>7, <1>8, <1>9 DEF NamesInv

\* Every rank has seen to the directory, or closed its file.
LEMMA BarrierNames ==
  ASSUME IInv, NamesInv, Barrier
  PROVE  NamesInv'
<1>1. /\ hasDir' = hasDir /\ h5' = h5 /\ inRun' = inRun
      /\ \A q \in Rank : /\ pc'[q] = AfterBarrier(q)
                         /\ chkNum'[q] = IF pc[q] = "synced" /\ exit[q] = "none"
                                         THEN chkNum[q] + 1 ELSE chkNum[q]
  BY DEF Barrier, NextCheckpointNumber, disk
<1>2. FoundCheckpoints' = FoundCheckpoints  BY <1>1, FoundSame
<1>3. 0 \in Rank /\ 0 \in Active /\ \A q \in Rank : pc[q] # "idle" => q \in Active
  <2>1. size \in 0 .. MaxRanks /\ size # 0  BY DEF Barrier, Running, IInv, TypeOK
  <2>2. 0 \in Rank /\ 0 \in Active  BY <2>1, OutputAssumption DEF Active, Rank
  <2> QED BY <2>2, ActiveRanks
<1>4. \A q \in Rank : pc[q] \in BarrierPcs \cup {"idle"} /\ chkNum[q] \in Chk
  BY <1>3 DEF Barrier, IInv, TypeOK
<1>5. ASSUME NEW q \in Rank, pc[q] = "dir_made"
      PROVE  FoundCheckpoints = 0 .. chkNum[q] /\ hasDir[chkNum[q]]
  <2>1. pc[0] \in DirPcs /\ chkNum[0] = chkNum[q]  BY <1>3, <1>5, Together DEF DirPcs
  <2>2. pc[0] = "dir_made"  BY <1>3, <1>4, <2>1 DEF DirPcs, BarrierPcs
  <2>3. hasDir[chkNum[q]]  BY <1>3, <2>1, <2>2 DEF NamesInv, DirectoryMade
  <2>4. chkNum[q] \in FoundCheckpoints  BY <1>4, <2>3 DEF FoundCheckpoints, Exists
  <2>5. FoundCheckpoints \in {0 .. chkNum[q] - 1, 0 .. chkNum[q]}
    BY <1>5 DEF NamesInv, NumbersTaken
  <2>6. chkNum[q] \notin 0 .. chkNum[q] - 1  BY <1>4, OutputAssumption DEF Chk
  <2> QED BY <2>3, <2>4, <2>5, <2>6
<1>6. NoGaps'  BY <1>2 DEF NamesInv, NoGaps
<1>7. NumbersTaken'
  <2> SUFFICES ASSUME NEW q \in Rank
               PROVE  /\ pc'[q] = "open_check" => 0 .. chkNum'[q] - 1 \subseteq FoundCheckpoints
                      /\ NameFree(q)' => FoundCheckpoints = 0 .. chkNum'[q] - 1
                      /\ pc'[q] = "dir_made" =>
                           FoundCheckpoints \in {0 .. chkNum'[q] - 1, 0 .. chkNum'[q]}
                      /\ pc'[q] \in RunPcs \cup SyncPcs => FoundCheckpoints = 0 .. chkNum'[q]
    BY <1>2 DEF NumbersTaken
  <2>1. CASE pc[q] = "open_checked"
    <3>1. /\ FoundCheckpoints = 0 .. chkNum[q] - 1 /\ chkNum'[q] = chkNum[q]
          /\ pc'[q] \in DirPcs
      BY <1>1, <2>1 DEF NamesInv, NumbersTaken, NameFree, AfterBarrier, DirPcs
    <3> QED BY <3>1 DEF NameFree, DirPcs, RunPcs, SyncPcs
  <2>2. CASE pc[q] = "dir_made"
    <3>1. pc'[q] = "open_files" /\ chkNum'[q] = chkNum[q]  BY <1>1, <2>2 DEF AfterBarrier
    <3> QED BY <1>5, <2>2, <3>1 DEF NameFree
  <2>3. CASE pc[q] = "closed"
    <3>1. /\ FoundCheckpoints = 0 .. chkNum[q] /\ chkNum'[q] = chkNum[q]
          /\ pc'[q] \in SyncPcs
      BY <1>1, <2>3 DEF NamesInv, NumbersTaken, AfterBarrier, RunPcs, SyncPcs
    <3> QED BY <3>1 DEF NameFree, SyncPcs
  <2>4. CASE pc[q] = "synced"
    <3>1. FoundCheckpoints = 0 .. chkNum[q]  BY <2>4 DEF NamesInv, NumbersTaken, SyncPcs
    <3>2. CASE exit[q] = "none"
      <4>1. pc'[q] = "open_check" /\ chkNum'[q] = chkNum[q] + 1
        BY <1>1, <2>4, <3>2 DEF AfterBarrier
      <4>2. FoundCheckpoints = 0 .. chkNum'[q] - 1  BY <1>4, <3>1, <4>1, OutputAssumption DEF Chk
      <4> QED BY <4>1, <4>2 DEF RunPcs, SyncPcs
    <3>3. CASE exit[q] # "none"
      <4>1. pc'[q] \in Aside  BY <1>1, <2>4, <3>3 DEF AfterBarrier, Aside
      <4> QED BY <4>1 DEF Aside, NameFree, RunPcs, SyncPcs
    <3> QED BY <3>2, <3>3
  <2>5. CASE pc[q] = "idle"
    <3>1. pc'[q] = "idle"  BY <1>1, <2>5 DEF AfterBarrier
    <3> QED BY <3>1 DEF NameFree, RunPcs, SyncPcs
  <2> QED BY <1>4, <2>1, <2>2, <2>3, <2>4, <2>5 DEF BarrierPcs
<1>8. DirectoryMade'
  <2> SUFFICES ASSUME NEW q \in Rank, (pc'[q] = "dir_made" /\ q = 0) \/ pc'[q] \in RunPcs
               PROVE  hasDir[chkNum'[q]]
    BY <1>1 DEF DirectoryMade
  <2>1. pc[q] = "dir_made"  BY <1>1, <1>4 DEF AfterBarrier, BarrierPcs, RunPcs
  <2> QED BY <1>1, <1>5, <2>1
<1> QED BY <1>6, <1>7, <1>8 DEF NamesInv

\* A crash leaves every file that was there, if torn.
LEMMA CrashNames ==
  ASSUME IInv, NamesInv, Crash
  PROVE  NamesInv'
<1>1. PICK legible \in BOOLEAN : ProcessDies(legible)  BY DEF Crash
<1>2. hasDir' = hasDir /\ \A c \in Chk : h5'[c] = Interrupted(h5[c], legible)
  BY <1>1 DEF ProcessDies
<1>3. \A c \in Chk : h5[c] \in File  BY DEF IInv, TypeOK, DiskTypeOK
<1>4. \A f \in File : Interrupted(f, legible).st # "none" <=> f.st # "none"
  BY DEF Interrupted, Torn, File
<1>5. FoundCheckpoints' = FoundCheckpoints  BY <1>2, <1>3, <1>4 DEF FoundCheckpoints, Exists, HasH5
<1>6. NoGaps'  BY <1>5 DEF NamesInv, NoGaps
<1>7. \A q \in Rank : pc'[q] \in Aside  BY DEF Crash, Forget, Aside
<1> QED BY <1>6, <1>7, NamesAside

\* The user deletes the last checkpoint, or half of it.
LEMMA DeleteNames ==
  ASSUME IInv, NamesInv, DeleteUnreadable
  PROVE  NamesInv'
<1>1. /\ FoundCheckpoints # {} /\ MaxCheckpoint \in FoundCheckpoints
      /\ MaxCheckpoint \in Chk /\ \A c \in FoundCheckpoints : c <= MaxCheckpoint
  BY MaxCheckpointLast, MaxCheckpointType DEF DeleteUnreadable
<1>2. \A c \in Chk : c # MaxCheckpoint => hasDir'[c] = hasDir[c] /\ h5'[c] = h5[c]
  BY <1>1 DEF DeleteUnreadable, DeleteRefused, RemoveDirectory, IInv, TypeOK, DiskTypeOK
<1>3. \A c \in Chk : c # MaxCheckpoint => (c \in FoundCheckpoints' <=> c \in FoundCheckpoints)
  BY <1>2 DEF FoundCheckpoints, Exists, HasH5
<1>4. FoundCheckpoints' \subseteq Chk /\ FoundCheckpoints \subseteq Chk  BY DEF FoundCheckpoints
<1>5. NoGaps'
  <2> SUFFICES ASSUME NEW c \in FoundCheckpoints', NEW d \in 0 .. c
               PROVE  d \in FoundCheckpoints'
    BY DEF NoGaps
  <2>1. c \in FoundCheckpoints  BY <1>1, <1>3, <1>4
  <2>2. d \in FoundCheckpoints  BY <2>1 DEF NamesInv, NoGaps
  <2>3. d \in Chk /\ c \in Chk /\ d <= c /\ c <= MaxCheckpoint  BY <1>1, <1>4, <2>1, <2>2 DEF Chk
  <2>4. CASE d = MaxCheckpoint
    <3>1. c = d  BY <1>1, <2>3, <2>4 DEF Chk
    <3> QED BY <3>1
  <2>5. CASE d # MaxCheckpoint  BY <1>3, <2>2, <2>3, <2>5
  <2> QED BY <2>4, <2>5
<1>6. \A q \in Rank : pc'[q] \in Aside
  <2>1. size = 0 /\ pc' = pc  BY DEF DeleteUnreadable, Running
  <2> QED BY <2>1 DEF IInv, OnlyActiveRun, Rank, Aside
<1> QED BY <1>5, <1>6, NamesAside

\* Every step keeps the numbers of the checkpoints in order.
LEMMA NamesStep ==
  ASSUME IInv, NamesInv, [Next]_vars
  PROVE  NamesInv'
<1> USE NamesFrame DEF Keeps, Aside, RunPcs, SyncPcs, IInv, TypeOK, disk
<1>1. ASSUME NEW n \in RankCounts, NEW again \in BOOLEAN, Launch(n, again)
    PROVE  NamesInv'
  BY <1>1 DEF Launch
<1>2. ASSUME NEW r \in Rank, SetupThrows(r) \/ OpenThrows(r)
    PROVE  NamesInv'
  BY <1>2 DEF SetupThrows, OpenThrows, ConstructorThrows
<1>3. ASSUME NEW r \in Rank, OpenFiles(r)
    PROVE  NamesInv'
  <2>1. /\ UNCHANGED <<hasDir, h5, chkNum>> /\ pc[r] = "open_files"
        /\ inRun' = [inRun EXCEPT ![r] = TRUE]
        /\ pc' = [pc EXCEPT ![r] = "batch"] \/ pc' = [pc EXCEPT ![r] = "close"]
    BY <1>3 DEF OpenFiles, OpenOutputFile, EnterBatch
  <2> QED BY <2>1
<1>4. ASSUME NEW r \in Rank, NEW t \in Thread, Trial(r, t) \/ FailTrial(r, t)
    PROVE  NamesInv'
  <2>1. UNCHANGED <<hasDir, h5, chkNum, pc, inRun>>
    BY <1>4
    DEF Trial, SkipTrial, BeginTrial, WriteTrial, FinishTrial, FailTrial, TaskUnchanged,
        WriteCluster, NoteDone
  <2> QED BY <2>1
<1>5. ASSUME NEW r \in Rank, SigtermArrives(r)
    PROVE  NamesInv'
  BY <1>5 DEF SigtermArrives
<1>6. ASSUME NEW r \in Rank, Batch(r)
    PROVE  NamesInv'
  BY <1>6 DEF Batch, BatchFailed, BatchDone, BatchOver
<1>7. CASE Reduce
  <2>1. /\ UNCHANGED <<hasDir, h5, chkNum, inRun>>
        /\ \A q \in Rank : pc'[q] = pc[q] \/ (pc[q] = "reduce" /\ pc'[q] = "close")
    BY <1>7 DEF Reduce
  <2> QED BY <2>1
<1>8. CASE Finalize
  <2>1. FoundCheckpoints' = FoundCheckpoints  BY <1>8, FoundSame DEF Finalize
  <2>2. NoGaps'  BY <2>1 DEF NamesInv, NoGaps
  <2> QED BY <1>8, <2>2, NamesAside DEF Finalize, Forget
<1>9. ASSUME NEW r \in Rank, Close(r)
    PROVE  NamesInv'
  BY <1>9 DEF Close, CloseOutputFile
<1>10. ASSUME NEW r \in Rank, SyncRead(r) \/ SyncWrite(r)
     PROVE  NamesInv'
  <2>1. /\ UNCHANGED <<hasDir, h5, chkNum, inRun>> /\ pc[r] \in {"sync_read", "sync_write"}
        /\ \/ pc' = pc
           \/ \E p \in SyncPcs : pc' = [pc EXCEPT ![r] = p]
    BY <1>10 DEF SyncRead, SyncWrite, OverwriteAttrs
  <2> QED BY <2>1
<1>11. CASE UNCHANGED vars  BY <1>11 DEF vars
<1> QED
  BY <1>1, <1>2, <1>3, <1>4, <1>5, <1>6, <1>7, <1>8, <1>9, <1>10, <1>11,
     SetupNames, CheckNames, MakeDirNames, BarrierNames, MergeNames, CrashNames, DeleteNames
  DEF Next, RankStep, Setup, Open, Save, Collective, Outside, Finished

-----------------------------------------------------------------------------
(* The files.                                                              *)

FilesInv == NoStrays /\ FilesNew

\* What OpenCheck has found is still so: no other rank makes anything meanwhile.
FreeName == \A r \in Rank : pc[r] = "open_checked" => ~Exists(chkNum[r])

\* It is so when the numbers of the checkpoints are in order.
LEMMA FreeNames ==
  ASSUME IInv, NumbersTaken
  PROVE  FreeName
<1> SUFFICES ASSUME NEW r \in Rank, pc[r] = "open_checked"
             PROVE  ~Exists(chkNum[r])
  BY DEF FreeName
<1>1. chkNum[r] \in Chk /\ chkNum[r] \notin 0 .. chkNum[r] - 1
  BY OutputAssumption DEF IInv, TypeOK, Chk
<1>2. FoundCheckpoints = 0 .. chkNum[r] - 1  BY DEF NumbersTaken, NameFree
<1> QED BY <1>1, <1>2 DEF FoundCheckpoints

\* Where a rank is while it has not opened its file.
NewPcs == DirPcs \cup {"open_files"}

\* Files keep their status and their rows.
FilesKept ==
  \A c \in Chk, q \in Rank : /\ files'[c][q].st = files[c][q].st
                             /\ files[c][q].rows \subseteq files'[c][q].rows

\* Writing to a file takes nothing from it.
LEMMA WritesKeep ==
  ASSUME DiskTypeOK, NEW c \in Chk, NEW r \in Rank,
         \/ \E row : WriteCluster(c, r, row)
         \/ \E n : NoteDone(c, r, n)
         \/ \E tc, mx : OverwriteAttrs(c, r, tc, mx)
  PROVE  UNCHANGED <<hasDir, h5>> /\ FilesKept
<1>1. files[c][r] \in File  BY DEF DiskTypeOK
<1>2. ASSUME NEW f, files' = [files EXCEPT ![c][r] = f],
             f.st = files[c][r].st, files[c][r].rows \subseteq f.rows
      PROVE  FilesKept
  BY <1>2 DEF FilesKept, DiskTypeOK
<1>3. ASSUME NEW row, WriteCluster(c, r, row)
      PROVE  FilesKept
  <2> DEFINE f == [files[c][r] EXCEPT !.rows = files[c][r].rows \cup {row}]
  <2>1. files' = [files EXCEPT ![c][r] = f]  BY <1>3 DEF WriteCluster
  <2>2. f.st = files[c][r].st /\ files[c][r].rows \subseteq f.rows  BY <1>1 DEF File
  <2> QED BY <1>2, <2>1, <2>2
<1>4. ASSUME NEW n, NoteDone(c, r, n)
      PROVE  FilesKept
  <2> DEFINE f == [files[c][r] EXCEPT !.done = files[c][r].done \cup {n}]
  <2>1. files' = [files EXCEPT ![c][r] = f]  BY <1>4 DEF NoteDone
  <2>2. f.st = files[c][r].st /\ files[c][r].rows \subseteq f.rows  BY <1>1 DEF File
  <2> QED BY <1>2, <2>1, <2>2
<1>5. ASSUME NEW tc, NEW mx, OverwriteAttrs(c, r, tc, mx)
      PROVE  FilesKept
  <2> DEFINE f == [files[c][r] EXCEPT !.tc = tc, !.mx = mx]
  <2>1. files' = [files EXCEPT ![c][r] = f]  BY <1>5 DEF OverwriteAttrs, DiskTypeOK
  <2>2. f.st = files[c][r].st /\ files[c][r].rows \subseteq f.rows  BY <1>1 DEF File
  <2> QED BY <1>2, <2>1, <2>2
<1>6. UNCHANGED <<hasDir, h5>>  BY DEF WriteCluster, NoteDone, OverwriteAttrs
<1> QED BY <1>3, <1>4, <1>5, <1>6

\* Trials, and the synchronisation of the attributes, take nothing from any file.
LEMMA TrialKeeps ==
  ASSUME IInv, NEW r \in Rank, NEW t \in Thread, Trial(r, t) \/ FailTrial(r, t)
  PROVE  UNCHANGED <<hasDir, h5, chkNum, pc>> /\ FilesKept
<1>1. DiskTypeOK /\ chkNum[r] \in Chk  BY DEF IInv, TypeOK
<1>2. UNCHANGED <<chkNum, pc>>
  BY DEF Trial, SkipTrial, BeginTrial, WriteTrial, FinishTrial, FailTrial, TaskUnchanged
<1>3. CASE SkipTrial(r, t) \/ BeginTrial(r, t) \/ FailTrial(r, t)
  BY <1>2, <1>3 DEF SkipTrial, BeginTrial, FailTrial, disk, FilesKept
<1>4. CASE WriteTrial(r, t) \/ FinishTrial(r, t)
  <2>1. \/ \E row : WriteCluster(chkNum[r], r, row)
        \/ \E n : NoteDone(chkNum[r], r, n)
    BY <1>4 DEF WriteTrial, FinishTrial
  <2> QED BY <1>1, <1>2, <2>1, WritesKeep
<1> QED BY <1>3, <1>4 DEF Trial

LEMMA SyncKeeps ==
  ASSUME IInv, NEW r \in Rank, SyncRead(r) \/ SyncWrite(r)
  PROVE  UNCHANGED <<hasDir, h5>> /\ FilesKept
<1>1. DiskTypeOK /\ chkNum[r] \in Chk /\ sync.next \in Rank  BY DEF IInv, TypeOK
<1>2. CASE SyncRead(r)  BY <1>2 DEF SyncRead, disk, FilesKept
<1>3. CASE SyncWrite(r)
  <2>1. \E tc, mx : OverwriteAttrs(chkNum[r], sync.next, tc, mx)  BY <1>3 DEF SyncWrite
  <2> QED BY <1>1, <2>1, WritesKeep
<1> QED BY <1>2, <1>3

\* No file appears or disappears.
LEMMA FilesFrame ==
  ASSUME FilesInv, hasDir' = hasDir,
         \A c \in Chk, q \in Rank : files[c][q].st = "none" <=> files'[c][q].st = "none",
         chkNum \in [Rank -> Chk],
         \A q \in Rank : pc'[q] \in NewPcs => pc[q] \in NewPcs /\ chkNum'[q] = chkNum[q]
  PROVE  FilesInv'
<1>1. NoStrays'  BY DEF FilesInv, NoStrays
<1>2. FilesNew'
  <2> SUFFICES ASSUME NEW q \in Rank, pc'[q] \in NewPcs
               PROVE  files'[chkNum'[q]][q].st = "none"
    BY DEF FilesNew, NewPcs
  <2> QED BY DEF FilesInv, FilesNew, NewPcs
<1> QED BY <1>1, <1>2 DEF FilesInv

\* A rank opens or closes its file.
LEMMA FilesOwn ==
  ASSUME IInv, DirectoryMade, FilesInv, NEW r \in Rank, OpenFiles(r) \/ Close(r)
  PROVE  FilesInv'
<1>1. /\ pc[r] \in {"open_files", "close"} /\ hasDir' = hasDir /\ chkNum' = chkNum
      /\ \A q \in Rank : q # r => pc'[q] = pc[q]
      /\ pc'[r] \notin NewPcs
  <2>1. /\ pc[r] \in {"open_files", "close"} /\ hasDir' = hasDir /\ chkNum' = chkNum
        /\ \E p \in {"batch", "close", "closed"} : pc' = [pc EXCEPT ![r] = p]
    BY DEF OpenFiles, OpenOutputFile, EnterBatch, Close, CloseOutputFile
  <2> QED BY <2>1 DEF IInv, TypeOK, NewPcs, DirPcs
<1>2. chkNum[r] \in Chk /\ hasDir[chkNum[r]]  BY <1>1 DEF IInv, TypeOK, DirectoryMade, RunPcs
<1>3. \A c \in Chk, q \in Rank : c # chkNum[r] \/ q # r => files'[c][q] = files[c][q]
  BY <1>2 DEF OpenFiles, OpenOutputFile, Close, CloseOutputFile, IInv, TypeOK, DiskTypeOK
<1>4. NoStrays'  BY <1>1, <1>2, <1>3 DEF FilesInv, NoStrays
<1>5. FilesNew'
  <2> SUFFICES ASSUME NEW q \in Rank, pc'[q] \in NewPcs
               PROVE  files'[chkNum'[q]][q].st = "none"
    BY DEF FilesNew, NewPcs
  <2>1. q # r /\ pc[q] \in NewPcs /\ chkNum'[q] = chkNum[q] /\ chkNum[q] \in Chk
    BY <1>1 DEF IInv, TypeOK
  <2>2. files[chkNum[q]][q].st = "none"  BY <2>1 DEF FilesInv, FilesNew, NewPcs
  <2> QED BY <1>3, <2>1, <2>2
<1> QED BY <1>4, <1>5 DEF FilesInv

\* A name that was free has no files.
LEMMA FilesBarrier ==
  ASSUME IInv, FreeName, FilesInv, Barrier
  PROVE  FilesInv'
<1>1. /\ hasDir' = hasDir /\ files' = files
      /\ \A q \in Rank : /\ pc'[q] = AfterBarrier(q)
                         /\ pc[q] # "synced" => chkNum'[q] = chkNum[q]
  BY DEF Barrier, disk
<1>2. NoStrays'  BY <1>1 DEF FilesInv, NoStrays
<1>3. FilesNew'
  <2> SUFFICES ASSUME NEW q \in Rank, pc'[q] \in NewPcs
               PROVE  files[chkNum'[q]][q].st = "none"
    BY <1>1 DEF FilesNew, NewPcs
  <2>1. chkNum[q] \in Chk  BY DEF IInv, TypeOK
  <2>2. CASE pc[q] = "open_checked"
    <3>1. ~hasDir[chkNum[q]]  BY <2>2 DEF FreeName, Exists
    <3> QED BY <1>1, <2>1, <2>2, <3>1 DEF FilesInv, NoStrays
  <2>3. CASE pc[q] # "open_checked"
    <3>1. pc[q] \in NewPcs /\ pc[q] # "synced"  BY <1>1, <2>3 DEF AfterBarrier, NewPcs, DirPcs
    <3> QED BY <1>1, <3>1 DEF FilesInv, FilesNew, NewPcs
  <2> QED BY <2>2, <2>3
<1> QED BY <1>2, <1>3 DEF FilesInv

\* A directory goes with its files, or a crash tears some of them.
LEMMA FilesAside ==
  ASSUME NoStrays', \A q \in Rank : pc'[q] \notin NewPcs
  PROVE  FilesInv'
BY DEF FilesInv, FilesNew, NewPcs

LEMMA StraysRemoved ==
  ASSUME NoStrays, DiskTypeOK, NEW c \in Chk,
         RemoveDirectory(c) \/ \E q \in Rank : RemoveFile(c, q)
  PROVE  NoStrays'
<1>1. CASE RemoveDirectory(c)  BY <1>1 DEF NoStrays, DiskTypeOK, RemoveDirectory, NoFile
<1>2. ASSUME NEW q \in Rank, RemoveFile(c, q)
      PROVE  NoStrays'
  <2>1. hasDir' = hasDir /\ \A d \in Chk, p \in Rank : files'[d][p] \in {files[d][p], NoFile}
    BY <1>2 DEF DiskTypeOK, RemoveFile
  <2> QED BY <2>1 DEF NoStrays, NoFile
<1> QED BY <1>1, <1>2

LEMMA FilesRemoved ==
  ASSUME IInv, FilesInv,
         (\E r \in Rank : MergeUnlink(r) \/ MergeRemove(r)) \/ DeleteUnreadable \/ Crash
  PROVE  FilesInv'
<1>1. CASE \E r \in Rank : MergeUnlink(r) \/ MergeRemove(r)
  <2>1. PICK r \in Rank : MergeUnlink(r) \/ MergeRemove(r)  BY <1>1
  <2>2. /\ pc[r] = "merge" /\ pc' = pc /\ merge.chk \in Chk
        /\ RemoveDirectory(merge.chk) \/ \E q \in Rank : RemoveFile(merge.chk, q)
    BY <2>1, CleanupEffect, RanksInType DEF MergeUnlink, MergeRemove, RanksIn
  <2>3. NoStrays'  BY <2>2, StraysRemoved DEF FilesInv, IInv, TypeOK
  <2> QED BY <2>2, <2>3, MergeAlone, FilesAside DEF EndPcs, NewPcs, DirPcs
<1>2. CASE DeleteUnreadable
  <2>1. size = 0 /\ pc' = pc /\ MaxCheckpoint \in Chk
    BY <1>2, MaxCheckpointType DEF DeleteUnreadable, Running
  <2>2. NoStrays'
    BY <1>2, <2>1, StraysRemoved
    DEF FilesInv, NoStrays, DeleteUnreadable, DeleteRefused, IInv, TypeOK
  <2>3. \A q \in Rank : pc[q] = "idle"  BY <2>1 DEF IInv, OnlyActiveRun, Rank
  <2> QED BY <2>1, <2>2, <2>3, FilesAside DEF NewPcs, DirPcs
<1>3. CASE Crash
  <2>1. /\ hasDir' = hasDir
        /\ \A c \in Chk, q \in Rank : files'[c][q] = Torn(files[c][q])
    BY <1>3 DEF Crash, ProcessDies
  <2>2. NoStrays'  BY <2>1 DEF FilesInv, NoStrays, Torn
  <2>3. \A q \in Rank : pc'[q] = "idle"  BY <1>3 DEF Crash, Forget
  <2> QED BY <2>2, <2>3, FilesAside DEF NewPcs, DirPcs
<1> QED BY <1>1, <1>2, <1>3

\* Every step keeps the files in their directories, and the names of new ones free.
LEMMA FilesStep ==
  ASSUME IInv, DirectoryMade, FreeName, FilesInv, [Next]_vars
  PROVE  FilesInv'
<1> USE FilesFrame DEF NewPcs, DirPcs, IInv, TypeOK, disk
<1>1. ASSUME NEW n \in RankCounts, NEW again \in BOOLEAN, Launch(n, again)
    PROVE  FilesInv'
  BY <1>1 DEF Launch
<1>2. ASSUME NEW r \in Rank, Setup(r)
    PROVE  FilesInv'
  <2>1. /\ UNCHANGED disk
        /\ \E p \in {"finalize", "open_check"} : pc' = [pc EXCEPT ![r] = p]
        /\ \A q \in Rank : q # r => chkNum'[q] = chkNum[q]
    BY <1>2 DEF Setup, SetupThrows, SetupFresh, SetupRestart, ConstructorThrows
  <2> QED BY <2>1
<1>3. ASSUME NEW r \in Rank, OpenThrows(r) \/ OpenCheck(r)
    PROVE  FilesInv'
  BY <1>3 DEF OpenThrows, OpenCheck, ConstructorThrows
<1>4. ASSUME NEW r \in Rank, MakeDir(r)
    PROVE  FilesInv'
  <2>1. /\ files' = files /\ chkNum' = chkNum /\ pc[r] = "make_dir"
        /\ pc' = [pc EXCEPT ![r] = "dir_made"]
        /\ \A c \in Chk : hasDir[c] => hasDir'[c]
    BY <1>4 DEF MakeDir, CreateDirectory, DiskTypeOK
  <2>2. NoStrays'  BY <2>1 DEF FilesInv, NoStrays
  <2>3. FilesNew'  BY <2>1 DEF FilesInv, FilesNew
  <2> QED BY <2>2, <2>3 DEF FilesInv
<1>5. ASSUME NEW r \in Rank, NEW t \in Thread, Trial(r, t) \/ FailTrial(r, t)
    PROVE  FilesInv'
  <2>1. UNCHANGED <<hasDir, chkNum, pc>> /\ FilesKept  BY <1>5, TrialKeeps
  <2> QED BY <2>1 DEF FilesKept
<1>6. ASSUME NEW r \in Rank, SigtermArrives(r)
    PROVE  FilesInv'
  BY <1>6 DEF SigtermArrives
<1>7. ASSUME NEW r \in Rank, Batch(r)
    PROVE  FilesInv'
  BY <1>7 DEF Batch, BatchFailed, BatchDone, BatchOver
<1>8. CASE Reduce  BY <1>8 DEF Reduce
<1>9. CASE Finalize  BY <1>9 DEF Finalize, Forget
<1>10. ASSUME NEW r \in Rank, SyncRead(r) \/ SyncWrite(r)
     PROVE  FilesInv'
  <2>1. /\ UNCHANGED <<hasDir, chkNum>> /\ pc[r] \in {"sync_read", "sync_write"}
        /\ pc' = pc \/ \E p \in SyncPcs : pc' = [pc EXCEPT ![r] = p]
    BY <1>10 DEF SyncRead, SyncWrite, OverwriteAttrs, SyncPcs
  <2>2. FilesKept  BY <1>10, SyncKeeps
  <2> QED BY <2>1, <2>2 DEF SyncPcs, FilesKept
<1>11. ASSUME NEW r \in Rank,
             MergeSkip(r) \/ MergeCopy(r) \/ MergeAppend(r) \/ MergeClose(r) \/ MergeDone(r)
     PROVE  FilesInv'
  <2>1. /\ UNCHANGED <<hasDir, files, chkNum>>
        /\ pc' = pc \/ pc' = [pc EXCEPT ![r] = "finalize"]
    BY <1>11
    DEF MergeSkip, MergeCopy, MergeAppend, MergeClose, MergeDone, CopyFirstFile, AppendFile,
        CloseConsolidated
  <2> QED BY <2>1
<1>12. CASE UNCHANGED vars  BY <1>12 DEF vars
<1> QED
  BY <1>1, <1>2, <1>3, <1>4, <1>5, <1>6, <1>7, <1>8, <1>9, <1>10, <1>11, <1>12,
     FilesOwn, FilesBarrier, FilesRemoved
  DEF Next, RankStep, Open, Save, Merge, Collective, Outside, Finished

-----------------------------------------------------------------------------
(* What is consolidated.                                                   *)

\* The first of some ranks.
LEMMA MinOfRanks ==
  ASSUME NEW S \in SUBSET Rank, S # {}
  PROVE  Min(S) \in S /\ \A q \in S : Min(S) <= q
<1>1. IsFiniteSet(Rank) /\ Rank \in SUBSET Int  BY OutputAssumption, FS_Interval DEF Rank
<1>2. IsFiniteSet(S) /\ S \in SUBSET Int  BY <1>1, FS_Subset
<1> QED BY <1>2, MinOfFinite

\* Nothing is half consolidated while the ranks do anything else.
LEMMA NothingMerging ==
  ASSUME IInv, MergedSoFar, NEW r \in Rank, pc[r] \notin EndPcs \cup {"idle"}
  PROVE  MergeUnstarted
<1>1. 0 \in Rank  BY OutputAssumption DEF Rank
<1> QED BY <1>1, MergeAlone DEF MergedSoFar

\* The first file is copied.
LEMMA CopyMerges ==
  ASSUME IInv, NEW r \in Rank, MergeCopy(r)
  PROVE  MergedSoFar'
<1> DEFINE c == merge.chk
           m == Min(RanksIn(c))
<1>1. /\ r = 0 /\ pc[0] = "merge" /\ pc' = pc /\ files' = files
      /\ h5' = [h5 EXCEPT ![c] = [files[c][m] EXCEPT !.st = "open"]]
      /\ merge' = [merge EXCEPT !.last = m]
      /\ RanksIn(c) # {} /\ c \in Chk
  BY MergeTypes DEF MergeCopy, CopyFirstFile, IInv, RootOnly
<1>2. /\ m \in RanksIn(c) /\ m \in Rank /\ RanksIn(c) \subseteq Rank
      /\ \A q \in RanksIn(c) : m <= q
  BY <1>1, MinOfRanks DEF RanksIn
<1>3. merge'.chk = c /\ merge'.last = m  BY <1>1 DEF IInv, TypeOK
<1>4. h5'[c].st = "open" /\ h5'[c].rows = files[c][m].rows
  BY <1>1, <1>2 DEF IInv, TypeOK, DiskTypeOK, File
<1>5. RanksIn(merge.chk)' = RanksIn(c)  BY <1>1, <1>3 DEF RanksIn
<1>6. \A q \in RanksIn(c) \ NotYetMerged' : q = m
  BY <1>2, <1>3, <1>5, OutputAssumption DEF NotYetMerged, Rank
<1>7. \A q \in RanksIn(c) \ NotYetMerged' : files'[c][q].rows \subseteq h5'[c].rows
  BY <1>1, <1>4, <1>6
<1> QED BY <1>1, <1>3, <1>4, <1>5, <1>7 DEF MergedSoFar, HasH5

\* The next file is appended.
LEMMA AppendMerges ==
  ASSUME IInv, MergedSoFar, NEW r \in Rank, MergeAppend(r)
  PROVE  MergedSoFar'
<1> DEFINE c == merge.chk
           m == Min(NotYetMerged)
<1>1. /\ r = 0 /\ pc[0] = "merge" /\ pc' = pc /\ files' = files
      /\ h5' = [h5 EXCEPT ![c].rows = @ \cup files[c][m].rows,
                         ![c].done = @ \cup files[c][m].done]
      /\ merge' = [merge EXCEPT !.last = m]
      /\ ~MergeUnstarted /\ NotYetMerged # {} /\ c \in Chk
  BY DEF MergeAppend, AppendFile, IInv, RootOnly, MergeWithinCheckpoints
<1>2. /\ m \in NotYetMerged /\ NotYetMerged \subseteq RanksIn(c)
      /\ RanksIn(c) \subseteq Rank /\ m \in Rank
      /\ \A q \in NotYetMerged : m <= q
  <2>1. NotYetMerged \subseteq RanksIn(c) /\ RanksIn(c) \subseteq Rank  BY DEF NotYetMerged, RanksIn
  <2> QED BY <1>1, <2>1, MinOfRanks
<1>3. merge'.chk = c /\ merge'.last = m /\ merge.last \in 0 .. MaxRanks  BY <1>1 DEF IInv, TypeOK
<1>4. /\ h5'[c].st = h5[c].st
      /\ h5'[c].rows = h5[c].rows \cup files[c][m].rows
  BY <1>1 DEF IInv, TypeOK, DiskTypeOK, File
<1>5. RanksIn(merge.chk)' = RanksIn(c)  BY <1>1, <1>3 DEF RanksIn
<1>6. \A q \in RanksIn(c) \ NotYetMerged' : q = m \/ q \notin NotYetMerged
  <2>1. NotYetMerged' = {q \in RanksIn(c) : q > m}  BY <1>3, <1>5 DEF NotYetMerged
  <2> QED BY <1>2, <2>1, OutputAssumption DEF Rank
<1>7. \A q \in RanksIn(c) \ NotYetMerged' : files'[c][q].rows \subseteq h5'[c].rows
  BY <1>1, <1>4, <1>6 DEF MergedSoFar
<1>8. HasH5(c) /\ h5[c].st # "closed"  BY <1>1 DEF MergedSoFar
<1> QED BY <1>1, <1>3, <1>4, <1>5, <1>7, <1>8 DEF MergedSoFar, HasH5

\* The consolidated file is complete.
LEMMA CloseMerges ==
  ASSUME IInv, MergedSoFar, NEW r \in Rank, MergeClose(r)
  PROVE  MergedSoFar'
<1>1. /\ pc' = pc /\ files' = files /\ merge' = merge
      /\ h5' = [h5 EXCEPT ![merge.chk].st = "closed"]
      /\ ~MergeUnstarted /\ NotYetMerged = {} /\ merge.chk \in Chk
  BY DEF MergeClose, CloseConsolidated, IInv, MergeWithinCheckpoints
<1>2. h5'[merge.chk].st = "closed" /\ h5'[merge.chk].rows = h5[merge.chk].rows
  BY <1>1 DEF IInv, TypeOK, DiskTypeOK, File
<1>3. RanksIn(merge.chk)' = RanksIn(merge.chk) /\ NotYetMerged' = NotYetMerged
  BY <1>1 DEF RanksIn, NotYetMerged
<1> QED BY <1>1, <1>2, <1>3 DEF MergedSoFar, HasH5

LEMMA UnlinkMerges ==
  ASSUME IInv, MergedSoFar, NEW r \in Rank, MergeUnlink(r)
  PROVE  MergedSoFar'
<1>1. merge' = merge  BY DEF MergeUnlink
<1>2. \A q \in RanksIn(merge.chk)' :
        q \in RanksIn(merge.chk) /\ files'[merge.chk][q] = files[merge.chk][q]
  BY <1>1, CleanupEffect DEF RanksIn, NoFile
<1> QED BY <1>1, <1>2, CleanupEffect DEF MergedSoFar, HasH5, NotYetMerged, MergeUnstarted

\* Every step keeps what is merged in the consolidated file.
LEMMA MergedStep ==
  ASSUME IInv, MergedSoFar, [Next]_vars
  PROVE  MergedSoFar'
<1>1. ASSUME MergeUnstarted'
      PROVE  MergedSoFar'
  BY <1>1 DEF MergedSoFar
<1>2. ASSUME MergeUnstarted, UNCHANGED merge
      PROVE  MergedSoFar'
  BY <1>1, <1>2 DEF MergeUnstarted
<1>3. ASSUME NEW r \in Rank, pc[r] \notin EndPcs \cup {"idle"}, UNCHANGED merge
      PROVE  MergedSoFar'
  BY <1>2, <1>3, NothingMerging
<1>4. ASSUME UNCHANGED <<pc, files, h5, merge>>
      PROVE  MergedSoFar'
  BY <1>4 DEF MergedSoFar, MergeUnstarted, NotYetMerged, RanksIn, HasH5
<1>5. 0 \in Rank /\ (size = 0 => pc[0] = "idle") /\ (size # 0 => 0 \in Active)
  <2>1. size \in 0 .. MaxRanks /\ 0 \in Rank  BY OutputAssumption DEF IInv, TypeOK, Rank
  <2> QED BY <2>1 DEF IInv, OnlyActiveRun, Active
<1>6. ASSUME NEW n \in RankCounts, NEW again \in BOOLEAN, Launch(n, again)
    PROVE  MergedSoFar'
  BY <1>2, <1>5, <1>6 DEF Launch, Running, MergedSoFar
<1>7. ASSUME NEW r \in Rank, Setup(r) \/ Open(r) \/ Batch(r) \/ Save(r)
    PROVE  MergedSoFar'
  <2>1. UNCHANGED merge
    BY <1>7
    DEF Setup, SetupThrows, SetupFresh, SetupRestart, Open, OpenThrows, OpenCheck, MakeDir,
        OpenFiles, Batch, BatchFailed, BatchDone, Save, Close, SyncRead, SyncWrite
  <2>2. pc[r] \in {"setup", "open_check", "make_dir", "open_files", "batch", "close",
                    "sync_read", "sync_write"}
    BY <1>7
    DEF Setup, SetupThrows, SetupFresh, SetupRestart, Open, OpenThrows, OpenCheck, MakeDir,
        OpenFiles, Batch, BatchFailed, BatchDone, BatchOver, Save, Close, SyncRead, SyncWrite
  <2> QED BY <1>3, <2>1, <2>2 DEF EndPcs
<1>8. ASSUME NEW r \in Rank, NEW t \in Thread, Trial(r, t) \/ FailTrial(r, t)
    PROVE  MergedSoFar'
  <2>1. UNCHANGED merge /\ (pc[r] = "batch" \/ task[r][t].st # "idle")
    BY <1>8 DEF Trial, SkipTrial, BeginTrial, WriteTrial, FinishTrial, FailTrial
  <2>2. pc[r] = "batch"  BY <2>1 DEF IInv, TrialsOnlyInBatch
  <2> QED BY <1>3, <2>1, <2>2 DEF EndPcs
<1>9. ASSUME NEW r \in Rank, SigtermArrives(r)
    PROVE  MergedSoFar'
  BY <1>4, <1>9 DEF SigtermArrives, disk
<1>10. CASE Reduce \/ Barrier  BY <1>3, <1>5, <1>10 DEF Reduce, Barrier, Running, BarrierPcs, EndPcs
<1>11. CASE Finalize \/ Crash  BY <1>1, <1>11 DEF Finalize, Crash, Forget, MergeUnstarted, NoMerge
<1>12. ASSUME NEW r \in Rank, MergeSkip(r)
     PROVE  MergedSoFar'
  BY <1>1, <1>12 DEF MergeSkip, MergeUnstarted, IInv, TypeOK
<1>13. ASSUME NEW r \in Rank, MergeRemove(r) \/ MergeDone(r)
     PROVE  MergedSoFar'
  BY <1>1, <1>13 DEF MergeRemove, MergeDone, MergeUnstarted, NoMerge
<1>14. CASE DeleteUnreadable  BY <1>2, <1>5, <1>14 DEF DeleteUnreadable, Running, MergedSoFar
<1>15. CASE UNCHANGED vars  BY <1>4, <1>15 DEF vars, disk
<1> QED
  BY <1>6, <1>7, <1>8, <1>9, <1>10, <1>11, <1>12, <1>13, <1>14, <1>15,
     CopyMerges, AppendMerges, CloseMerges, UnlinkMerges
  DEF Next, RankStep, Merge, Collective, Outside, Finished

-----------------------------------------------------------------------------
(* The rows of closed files.                                               *)

RowsStay == \A c \in Chk : ClosedRows(c) \subseteq ClosedRows(c)'

\* What is closed stays closed and loses nothing.
LEMMA RowsFrame ==
  ASSUME \A c \in Chk : h5[c].st = "closed" =>
           h5'[c].st = "closed" /\ h5[c].rows \subseteq h5'[c].rows,
         \A c \in Chk, q \in Rank : files[c][q].st = "closed" =>
           files'[c][q].st = "closed" /\ files[c][q].rows \subseteq files'[c][q].rows
  PROVE  RowsStay
<1> SUFFICES ASSUME NEW c \in Chk, NEW row \in ClosedRows(c)
             PROVE  row \in ClosedRows(c)'
  BY DEF RowsStay
<1>1. CASE h5[c].st = "closed" /\ row \in h5[c].rows  BY <1>1 DEF ClosedRows
<1>2. CASE \E q \in Rank : files[c][q].st = "closed" /\ row \in files[c][q].rows
  BY <1>2 DEF ClosedRows
<1> QED BY <1>1, <1>2 DEF ClosedRows

\* Opening and closing a rank's own file: the file opened is a new one.
LEMMA OwnRows ==
  ASSUME IInv, FilesInv, NEW r \in Rank, OpenFiles(r) \/ Close(r)
  PROVE  RowsStay
<1> DEFINE c == chkNum[r]
<1>1. c \in Chk /\ files[c][r] \in File /\ h5' = h5
  BY DEF OpenFiles, OpenOutputFile, Close, CloseOutputFile, IInv, TypeOK, DiskTypeOK
<1>2. \A d \in Chk, q \in Rank : d # c \/ q # r => files'[d][q] = files[d][q]
  BY <1>1 DEF OpenFiles, OpenOutputFile, Close, CloseOutputFile, IInv, TypeOK, DiskTypeOK
<1>3. files[c][r].st = "closed" =>
        files'[c][r].st = "closed" /\ files[c][r].rows \subseteq files'[c][r].rows
  <2>1. CASE OpenFiles(r)  BY <2>1 DEF OpenFiles, FilesInv, FilesNew
  <2>2. CASE Close(r)
    <3> DEFINE f == [files[c][r] EXCEPT !.st = "closed", !.tc = TrialsCompleted(r),
                                        !.mx = maxTrial[r], !.uid = nextUid[r]]
    <3>1. files' = [files EXCEPT ![c][r] = f]
      BY <2>2 DEF Close, CloseOutputFile, IInv, TypeOK, DiskTypeOK
    <3>2. f.st = "closed" /\ f.rows = files[c][r].rows  BY <1>1 DEF File
    <3> HIDE DEF f
    <3>3. files'[c][r] = f  BY <1>1, <3>1 DEF IInv, TypeOK, DiskTypeOK
    <3> QED BY <3>2, <3>3
  <2> QED BY <2>1, <2>2
<1> QED BY <1>1, <1>2, <1>3, RowsFrame

\* Consolidating a checkpoint: when its directory goes, all of it is in the
\* consolidated file.
LEMMA MergeRows ==
  ASSUME IInv, MergedSoFar, NEW r \in Rank, Merge(r)
  PROVE  RowsStay
<1> DEFINE c == merge.chk
<1>1. /\ ~MergeUnstarted \/ ~MergeOver => c \in Chk
      /\ h5 \in [Chk -> File] /\ \A d \in Chk : h5[d] \in File
  BY MergeTypes DEF IInv, MergeWithinCheckpoints, TypeOK, DiskTypeOK
<1>2. CASE MergeSkip(r) \/ MergeDone(r)  BY <1>2, RowsFrame DEF MergeSkip, MergeDone, disk
<1>3. CASE MergeCopy(r)
  <2>1. /\ h5' = [h5 EXCEPT ![c] = [files[c][Min(RanksIn(c))] EXCEPT !.st = "open"]]
        /\ files' = files /\ h5[c].st = "none"
    BY <1>3 DEF MergeCopy, CopyFirstFile, HasH5
  <2>2. \A d \in Chk : h5[d].st = "closed" => h5'[d] = h5[d]  BY <1>1, <2>1
  <2> QED BY <2>1, <2>2, RowsFrame
<1>4. CASE MergeAppend(r)
  <2>1. /\ files' = files
        /\ \A d \in Chk : h5'[d].st = h5[d].st /\ h5[d].rows \subseteq h5'[d].rows
    BY <1>1, <1>4 DEF MergeAppend, AppendFile, File
  <2> QED BY <2>1, RowsFrame
<1>5. CASE MergeClose(r)
  <2>1. /\ files' = files
        /\ \A d \in Chk : /\ h5[d].st = "closed" => h5'[d].st = "closed"
                          /\ h5[d].rows = h5'[d].rows
    BY <1>1, <1>5 DEF MergeClose, CloseConsolidated, File
  <2> QED BY <2>1, RowsFrame
<1>6. CASE MergeUnlink(r) \/ MergeRemove(r)
  <2>1. /\ h5' = h5 /\ ~MergeUnstarted /\ h5[c].st = "closed" /\ c \in Chk
        /\ \A d \in Chk, q \in Rank : d # c => files'[d][q] = files[d][q]
    BY <1>6, CleanupEffect
  <2>2. NotYetMerged = {}  BY <2>1 DEF MergedSoFar
  <2>3. \A q \in Rank : files[c][q].st = "closed" => files[c][q].rows \subseteq h5[c].rows
    BY <2>1, <2>2 DEF MergedSoFar, RanksIn
  <2>5. ASSUME NEW d \in Chk, NEW row \in ClosedRows(d)
        PROVE  row \in ClosedRows(d)'
    <3>1. CASE h5[d].st = "closed" /\ row \in h5[d].rows  BY <2>1, <3>1 DEF ClosedRows
    <3>2. ASSUME NEW q \in Rank, files[d][q].st = "closed", row \in files[d][q].rows
          PROVE  row \in ClosedRows(d)'
      <4>1. CASE d = c  BY <2>1, <2>3, <3>2, <4>1 DEF ClosedRows
      <4>2. CASE d # c  BY <2>1, <3>2, <4>2 DEF ClosedRows
      <4> QED BY <4>1, <4>2
    <3> QED BY <3>1, <3>2, <2>5 DEF ClosedRows
  <2> QED BY <2>5 DEF RowsStay
<1> QED BY <1>2, <1>3, <1>4, <1>5, <1>6 DEF Merge

\* No step but the user's takes the rows of a closed file from the disk.
LEMMA RowsStep ==
  ASSUME IInv, FilesInv, MergedSoFar, [Next]_vars
  PROVE  DeleteUnreadable \/ RowsStay
<1>1. ASSUME UNCHANGED <<files, h5>>
      PROVE  RowsStay
  BY <1>1, RowsFrame
<1>2. ASSUME UNCHANGED h5, FilesKept
      PROVE  RowsStay
  BY <1>2, RowsFrame DEF FilesKept
<1>3. ASSUME NEW r \in Rank, Setup(r) \/ OpenThrows(r) \/ OpenCheck(r) \/ MakeDir(r) \/ Batch(r)
      PROVE  RowsStay
  BY <1>1, <1>3
  DEF Setup, SetupThrows, SetupFresh, SetupRestart, OpenThrows, OpenCheck, MakeDir,
      CreateDirectory, Batch, BatchFailed, BatchDone, disk
<1>4. ASSUME NEW r \in Rank, NEW t \in Thread, Trial(r, t) \/ FailTrial(r, t)
      PROVE  RowsStay
  BY <1>2, <1>4, TrialKeeps
<1>5. ASSUME NEW r \in Rank, SyncRead(r) \/ SyncWrite(r)
      PROVE  RowsStay
  BY <1>2, <1>5, SyncKeeps
<1>6. ASSUME NEW r \in Rank, SigtermArrives(r)
      PROVE  RowsStay
  BY <1>1, <1>6 DEF SigtermArrives, disk
<1>7. CASE Collective  BY <1>1, <1>7 DEF Collective, Reduce, Barrier, Finalize, disk
<1>8. ASSUME NEW n \in RankCounts, NEW again \in BOOLEAN, Launch(n, again)
      PROVE  RowsStay
  BY <1>1, <1>8 DEF Launch, disk
<1>9. CASE Crash
  <2>1. PICK legible \in BOOLEAN : ProcessDies(legible)  BY <1>9 DEF Crash
  <2>2. /\ \A c \in Chk : h5'[c] = Interrupted(h5[c], legible)
        /\ \A c \in Chk, q \in Rank : files'[c][q] = Torn(files[c][q])
    BY <2>1 DEF ProcessDies
  <2>3. /\ \A c \in Chk : h5[c].st = "closed" => h5'[c] = h5[c]
        /\ \A c \in Chk, q \in Rank : files[c][q].st = "closed" => files'[c][q] = files[c][q]
    BY <2>2 DEF Interrupted, Torn
  <2> QED BY <2>3, RowsFrame
<1>10. CASE UNCHANGED vars  BY <1>1, <1>10 DEF vars, disk
<1> QED
  BY <1>3, <1>4, <1>5, <1>6, <1>7, <1>8, <1>9, <1>10, OwnRows, MergeRows
  DEF Next, RankStep, Open, Save, Outside, Finished

-----------------------------------------------------------------------------
(* The theorems.                                                           *)

\* A run begins with an empty disk.
LEMMA InitDisk == Init => DiskInv
<1> SUFFICES ASSUME Init
             PROVE  DiskInv
  OBVIOUS
<1>1. IInv  BY InitInv
<1>2. FoundCheckpoints = {}  BY DEF Init, DiskInit, FoundCheckpoints, Exists, HasH5, NoFile
<1>3. NoGaps /\ NumbersTaken /\ DirectoryMade
  BY <1>2 DEF NoGaps, NumbersTaken, NameFree, DirectoryMade, Init, RunPcs, SyncPcs
<1>4. NoStrays /\ FilesNew  BY DEF NoStrays, FilesNew, Init, DiskInit, NoFile, DirPcs
<1>5. MergedSoFar  BY DEF MergedSoFar, MergeUnstarted, Init, NoMerge
<1> QED BY <1>1, <1>3, <1>4, <1>5 DEF DiskInv

\* No step leaves the invariant.
LEMMA NextDisk == DiskInv /\ [Next]_vars => DiskInv'
BY NextInv, NamesStep, FreeNames, FilesStep, MergedStep DEF DiskInv, NamesInv, FilesInv

\* What the ranks know of the disk is so, in every session of a run and after
\* every crash.
THEOREM DiskInductive == Spec => []DiskInv
BY InitDisk, NextDisk, PTL DEF Spec

\* A rollover never finds the directory or the consolidated file of its next
\* checkpoint, so openNewOutputFiles throws in the constructor only.
THEOREM RolloverName == Spec => []RolloverNameIsFree
<1>1. DiskInv => RolloverNameIsFree
  <2> SUFFICES ASSUME DiskInv, NEW r \in Rank, pc[r] = "open_check", inRun[r]
               PROVE  ~Exists(chkNum[r])
    BY DEF RolloverNameIsFree
  <2>1. chkNum[r] \in Chk /\ chkNum[r] \notin 0 .. chkNum[r] - 1
    BY OutputAssumption DEF DiskInv, IInv, TypeOK, Chk
  <2>2. FoundCheckpoints = 0 .. chkNum[r] - 1  BY DEF DiskInv, NumbersTaken, NameFree
  <2> QED BY <2>1, <2>2 DEF FoundCheckpoints
<1> QED BY <1>1, DiskInductive, PTL

\* A row in a file that was closed stays on disk whatever a rank does and
\* whenever the process dies: consolidateFiles removes a directory only when all
\* its rows are in the closed consolidated file, and no output file is opened
\* over another.
THEOREM RowsSafe == Spec => ClosedRowsStay
<1>1. DiskInv /\ [Next]_vars =>
        [DeleteUnreadable \/ \A c \in Chk : ClosedRows(c) \subseteq ClosedRows(c)']_vars
  BY RowsStep DEF RowsStay, DiskInv, FilesInv
<1> QED BY <1>1, DiskInductive, PTL DEF Spec, ClosedRowsStay

-----------------------------------------------------------------------------
(* The rows on disk.                                                       *)

\* No row is written.
NoNewRows ==
  \A c \in Chk : /\ RowsIn(c)' \subseteq RowsIn(c)
                 /\ \A q \in Rank : files'[c][q].rows \subseteq files[c][q].rows

\* Files may lose rows, and a consolidated file get what other files have.
LEMMA RowsMoved ==
  ASSUME \A c \in Chk : h5'[c].rows \subseteq RowsIn(c),
         \A c \in Chk, q \in Rank : files'[c][q].rows \subseteq files[c][q].rows
  PROVE  NoNewRows
<1> SUFFICES ASSUME NEW c \in Chk, NEW row \in RowsIn(c)'
             PROVE  row \in RowsIn(c)
  BY DEF NoNewRows
<1>1. CASE row \in h5'[c].rows  BY <1>1
<1>2. CASE \E q \in Rank : row \in files'[c][q].rows
  <2>1. \E q \in Rank : row \in files[c][q].rows  BY <1>2
  <2> QED BY <2>1 DEF RowsIn
<1> QED BY <1>1, <1>2 DEF RowsIn

\* A row of a file is a row of its checkpoint.
LEMMA RowsOfFile ==
  ASSUME NEW c \in Chk
  PROVE  /\ h5[c].rows \subseteq RowsIn(c)
         /\ \A q \in Rank : files[c][q].rows \subseteq RowsIn(c)
BY DEF RowsIn

\* A step on a rank's own file that writes no row.
LEMMA OwnFileRows ==
  ASSUME IInv, NEW r \in Rank,
         OpenFiles(r) \/ Close(r) \/ SyncWrite(r) \/ \E t \in Thread : FinishTrial(r, t)
  PROVE  NoNewRows
<1>1. DiskTypeOK /\ chkNum[r] \in Chk /\ sync.next \in Rank  BY DEF IInv, TypeOK
<1>2. ASSUME NEW c \in Chk, NEW q \in Rank, NEW f, f.rows \subseteq files[c][q].rows,
             files' = [files EXCEPT ![c][q] = f], h5' = h5
      PROVE  NoNewRows
  <2>1. \A d \in Chk, p \in Rank : files'[d][p].rows \subseteq files[d][p].rows
    BY <1>1, <1>2 DEF DiskTypeOK
  <2> QED BY <1>2, <2>1, RowsMoved, RowsOfFile
<1>3. \A c \in Chk, q \in Rank : files[c][q] \in File  BY <1>1 DEF DiskTypeOK
<1>4. CASE OpenFiles(r)
  <2> DEFINE f == [NoFile EXCEPT !.st = "open"]
  <2>1. files' = [files EXCEPT ![chkNum[r]][r] = f] /\ h5' = h5
    BY <1>4 DEF OpenFiles, OpenOutputFile
  <2>2. f.rows = {}  BY DEF NoFile
  <2> QED BY <1>1, <1>2, <2>1, <2>2
<1>5. CASE Close(r)
  <2> DEFINE f == [files[chkNum[r]][r] EXCEPT !.st = "closed", !.tc = TrialsCompleted(r),
                                              !.mx = maxTrial[r], !.uid = nextUid[r]]
  <2>1. files' = [files EXCEPT ![chkNum[r]][r] = f] /\ h5' = h5
    BY <1>1, <1>5 DEF Close, CloseOutputFile, DiskTypeOK
  <2>2. f.rows = files[chkNum[r]][r].rows  BY <1>1, <1>3 DEF File
  <2> QED BY <1>1, <1>2, <2>1, <2>2
<1>6. CASE SyncWrite(r)
  <2> DEFINE f == [files[chkNum[r]][sync.next] EXCEPT !.tc = sync.tc, !.mx = sync.mx]
  <2>1. files' = [files EXCEPT ![chkNum[r]][sync.next] = f] /\ h5' = h5
    BY <1>1, <1>6 DEF SyncWrite, OverwriteAttrs, DiskTypeOK
  <2>2. f.rows = files[chkNum[r]][sync.next].rows  BY <1>1, <1>3 DEF File
  <2> QED BY <1>1, <1>2, <2>1, <2>2
<1>7. ASSUME NEW t \in Thread, FinishTrial(r, t)
      PROVE  NoNewRows
  <2> DEFINE f == [files[chkNum[r]][r] EXCEPT !.done =
                      files[chkNum[r]][r].done \cup {task[r][t].trial}]
  <2>1. files' = [files EXCEPT ![chkNum[r]][r] = f] /\ h5' = h5  BY <1>7 DEF FinishTrial, NoteDone
  <2>2. f.rows = files[chkNum[r]][r].rows  BY <1>1, <1>3 DEF File
  <2> QED BY <1>1, <1>2, <2>1, <2>2
<1> QED BY <1>4, <1>5, <1>6, <1>7

\* Consolidation copies rows and removes copied ones.
LEMMA MergeRowsMoved ==
  ASSUME IInv, NEW r \in Rank, Merge(r)
  PROVE  NoNewRows
<1> DEFINE c == merge.chk
<1>1. /\ ~MergeUnstarted \/ ~MergeOver => c \in Chk
      /\ DiskTypeOK /\ \A d \in Chk : h5[d] \in File
      /\ \A d \in Chk, q \in Rank : files[d][q] \in File
  BY MergeTypes DEF IInv, MergeWithinCheckpoints, TypeOK, DiskTypeOK
<1>2. CASE MergeSkip(r) \/ MergeDone(r)
  <2>1. files' = files /\ h5' = h5  BY <1>2 DEF MergeSkip, MergeDone, disk
  <2> QED BY <2>1, RowsMoved, RowsOfFile
<1>6. CASE MergeClose(r)
  <2>1. files' = files /\ h5' = [h5 EXCEPT ![c].st = "closed"] /\ c \in Chk
    BY <1>1, <1>6 DEF MergeClose, CloseConsolidated
  <2>2. \A d \in Chk : h5'[d].rows = h5[d].rows  BY <1>1, <2>1 DEF DiskTypeOK, File
  <2> QED BY <2>1, <2>2, RowsMoved, RowsOfFile
<1>3. CASE MergeCopy(r)
  <2> DEFINE m == Min(RanksIn(c))
  <2>1. /\ h5' = [h5 EXCEPT ![c] = [files[c][m] EXCEPT !.st = "open"]]
        /\ files' = files /\ RanksIn(c) # {} /\ c \in Chk
    BY <1>1, <1>3 DEF MergeCopy, CopyFirstFile
  <2>2. m \in Rank  BY <2>1, MinOfRanks DEF RanksIn
  <2>3. \A d \in Chk : h5'[d].rows = IF d = c THEN files[c][m].rows ELSE h5[d].rows
    BY <1>1, <2>1, <2>2 DEF DiskTypeOK, File
  <2> QED BY <2>1, <2>2, <2>3, RowsMoved, RowsOfFile
<1>4. CASE MergeAppend(r)
  <2> DEFINE m == Min(NotYetMerged)
  <2>1. /\ h5' = [h5 EXCEPT ![c].rows = @ \cup files[c][m].rows,
                           ![c].done = @ \cup files[c][m].done]
        /\ files' = files /\ NotYetMerged # {} /\ c \in Chk
    BY <1>1, <1>4 DEF MergeAppend, AppendFile
  <2>2. m \in Rank  BY <2>1, MinOfRanks DEF NotYetMerged, RanksIn
  <2>3. /\ h5'[c].rows = h5[c].rows \cup files[c][m].rows
        /\ \A d \in Chk : d # c => h5'[d] = h5[d]
    BY <1>1, <2>1 DEF DiskTypeOK, File
  <2>4. \A d \in Chk : h5'[d].rows \subseteq RowsIn(d)  BY <2>1, <2>2, <2>3, RowsOfFile
  <2> QED BY <2>1, <2>4, RowsMoved
<1>5. CASE MergeUnlink(r) \/ MergeRemove(r)
  <2>1. h5' = h5 /\ \A d \in Chk, q \in Rank : files'[d][q].rows \subseteq files[d][q].rows
    BY <1>5, CleanupEffect DEF NoFile
  <2> QED BY <2>1, RowsMoved, RowsOfFile
<1> QED BY <1>2, <1>3, <1>4, <1>5, <1>6 DEF Merge

\* Only a trial writes rows.
LEMMA StepRows ==
  ASSUME IInv, [Next]_vars, \A r \in Rank, t \in Thread : ~WriteTrial(r, t)
  PROVE  NoNewRows
<1>1. ASSUME UNCHANGED <<files, h5>>
      PROVE  NoNewRows
  BY <1>1, RowsMoved, RowsOfFile
<1>2. ASSUME NEW r \in Rank,
             Setup(r) \/ OpenThrows(r) \/ OpenCheck(r) \/ MakeDir(r) \/ Batch(r) \/ SyncRead(r)
      PROVE  NoNewRows
  BY <1>1, <1>2
  DEF Setup, SetupThrows, SetupFresh, SetupRestart, OpenThrows, OpenCheck, MakeDir,
      CreateDirectory, Batch, BatchFailed, BatchDone, SyncRead, disk
<1>3. ASSUME NEW r \in Rank, NEW t \in Thread,
             SkipTrial(r, t) \/ BeginTrial(r, t) \/ FailTrial(r, t)
      PROVE  NoNewRows
  BY <1>1, <1>3 DEF SkipTrial, BeginTrial, FailTrial, disk
<1>4. ASSUME NEW r \in Rank, SigtermArrives(r)
      PROVE  NoNewRows
  BY <1>1, <1>4 DEF SigtermArrives, disk
<1>5. CASE Collective  BY <1>1, <1>5 DEF Collective, Reduce, Barrier, Finalize, disk
<1>6. ASSUME NEW n \in RankCounts, NEW again \in BOOLEAN, Launch(n, again)
      PROVE  NoNewRows
  BY <1>1, <1>6 DEF Launch, disk
<1>7. CASE Crash
  <2>1. PICK legible \in BOOLEAN : ProcessDies(legible)  BY <1>7 DEF Crash
  <2>2. /\ \A c \in Chk : h5[c] \in File
        /\ \A c \in Chk, q \in Rank : files[c][q] \in File
    BY DEF IInv, TypeOK, DiskTypeOK
  <2>3. \A f \in File : Torn(f).rows = f.rows /\ Interrupted(f, legible).rows = f.rows
    BY DEF Torn, Interrupted, File
  <2>4. /\ \A c \in Chk : h5'[c].rows = h5[c].rows
        /\ \A c \in Chk, q \in Rank : files'[c][q].rows = files[c][q].rows
    BY <2>1, <2>2, <2>3 DEF ProcessDies
  <2> QED BY <2>4, RowsMoved, RowsOfFile
<1>8. CASE DeleteUnreadable
  <2>1. DiskTypeOK /\ MaxCheckpoint \in Chk
    BY <1>8, MaxCheckpointType DEF DeleteUnreadable, IInv, TypeOK
  <2>2. CASE HasH5(MaxCheckpoint)
    <3>1. h5' = [h5 EXCEPT ![MaxCheckpoint] = NoFile] /\ files' = files
      BY <1>8, <2>2 DEF DeleteUnreadable, DeleteRefused
    <3>2. \A c \in Chk : h5'[c].rows \subseteq h5[c].rows  BY <2>1, <3>1 DEF NoFile, DiskTypeOK
    <3> QED BY <3>1, <3>2, RowsMoved, RowsOfFile
  <2>3. CASE ~HasH5(MaxCheckpoint)
    <3>1. files' = [files EXCEPT ![MaxCheckpoint] = [q \in Rank |-> NoFile]] /\ h5' = h5
      BY <1>8, <2>3 DEF DeleteUnreadable, DeleteRefused, RemoveDirectory
    <3>2. \A c \in Chk, q \in Rank : files'[c][q].rows \subseteq files[c][q].rows
      BY <2>1, <3>1 DEF NoFile, DiskTypeOK
    <3> QED BY <3>1, <3>2, RowsMoved, RowsOfFile
  <2> QED BY <2>2, <2>3
<1>9. CASE UNCHANGED vars  BY <1>1, <1>9 DEF vars, disk
<1> QED
  BY <1>2, <1>3, <1>4, <1>5, <1>6, <1>7, <1>8, <1>9, OwnFileRows, MergeRowsMoved
  DEF Next, RankStep, Open, Trial, Save, Outside, Finished

\* Only a trial that is running writes a row: neither a restart, a rollover, the
\* consolidation nor a crash in the middle of any brings rows into a checkpoint,
\* or into a rank's file, that it did not have.
THEOREM OnlyTrialsWrite ==
  Spec => [][NoNewRows \/ \E r \in Rank, t \in Thread : WriteTrial(r, t)]_vars
<1>1. IInv /\ [Next]_vars =>
        [NoNewRows \/ \E r \in Rank, t \in Thread : WriteTrial(r, t)]_vars
  BY StepRows
<1> QED BY <1>1, Inductive, PTL DEF Spec

-----------------------------------------------------------------------------
(* What each operation makes of the files.                                 *)

\* Only file r of checkpoint c may change.
OnlyFile(c, r) ==
  /\ UNCHANGED <<hasDir, h5>>
  /\ \A d \in Chk, q \in Rank : d # c \/ q # r => files'[d][q] = files[d][q]

LEMMA OpenEffect ==
  ASSUME IInv, NEW r \in Rank, OpenFiles(r)
  PROVE  /\ OnlyFile(chkNum[r], r)
         /\ OwnFile(r)' = [NoFile EXCEPT !.st = "open"]
         /\ files'[chkNum[r]][r].st = "open" /\ files'[chkNum[r]][r].rows = {}
<1>1. DiskTypeOK /\ chkNum[r] \in Chk  BY DEF IInv, TypeOK
<1>2. /\ files' = [files EXCEPT ![chkNum[r]][r] = [NoFile EXCEPT !.st = "open"]]
      /\ UNCHANGED <<hasDir, h5, chkNum>>
  BY DEF OpenFiles, OpenOutputFile
<1> QED BY <1>1, <1>2 DEF OnlyFile, DiskTypeOK, NoFile, OwnFile

LEMMA WriteEffect ==
  ASSUME IInv, NEW r \in Rank, NEW t \in Thread, WriteTrial(r, t)
  PROVE  /\ OnlyFile(chkNum[r], r)
         /\ files'[chkNum[r]][r] =
              [files[chkNum[r]][r] EXCEPT !.rows = files[chkNum[r]][r].rows
                 \cup {[trial |-> task[r][t].trial, uid |-> task[r][t].uid]}]
         /\ files'[chkNum[r]][r].st = files[chkNum[r]][r].st
         /\ files'[chkNum[r]][r].mx = files[chkNum[r]][r].mx
         /\ files'[chkNum[r]][r].rows = files[chkNum[r]][r].rows
              \cup {[trial |-> task[r][t].trial, uid |-> task[r][t].uid]}
<1>1. DiskTypeOK /\ chkNum[r] \in Chk /\ files[chkNum[r]][r] \in File
  BY DEF IInv, TypeOK, DiskTypeOK
<1> DEFINE f == [files[chkNum[r]][r] EXCEPT !.rows = files[chkNum[r]][r].rows
                  \cup {[trial |-> task[r][t].trial, uid |-> task[r][t].uid]}]
<1>2. files' = [files EXCEPT ![chkNum[r]][r] = f] /\ UNCHANGED <<hasDir, h5>>
  BY DEF WriteTrial, WriteCluster
<1>3. files'[chkNum[r]][r] = f /\ OnlyFile(chkNum[r], r)
  <2> HIDE DEF f
  <2> QED BY <1>1, <1>2 DEF OnlyFile, DiskTypeOK
<1> QED BY <1>1, <1>3 DEF File

LEMMA FinishEffect ==
  ASSUME IInv, NEW r \in Rank, NEW t \in Thread, FinishTrial(r, t)
  PROVE  /\ OnlyFile(chkNum[r], r)
         /\ files'[chkNum[r]][r] = [files[chkNum[r]][r] EXCEPT !.done =
              files[chkNum[r]][r].done \cup {task[r][t].trial}]
         /\ files'[chkNum[r]][r].st = files[chkNum[r]][r].st
         /\ files'[chkNum[r]][r].mx = files[chkNum[r]][r].mx
         /\ files'[chkNum[r]][r].rows = files[chkNum[r]][r].rows
<1>1. DiskTypeOK /\ chkNum[r] \in Chk /\ files[chkNum[r]][r] \in File
  BY DEF IInv, TypeOK, DiskTypeOK
<1> DEFINE f == [files[chkNum[r]][r] EXCEPT !.done =
                  files[chkNum[r]][r].done \cup {task[r][t].trial}]
<1>2. files' = [files EXCEPT ![chkNum[r]][r] = f] /\ UNCHANGED <<hasDir, h5>>
  BY DEF FinishTrial, NoteDone
<1>3. files'[chkNum[r]][r] = f /\ OnlyFile(chkNum[r], r)
  <2> HIDE DEF f
  <2> QED BY <1>1, <1>2 DEF OnlyFile, DiskTypeOK
<1> QED BY <1>1, <1>3 DEF File

LEMMA CloseEffect ==
  ASSUME IInv, NEW r \in Rank, Close(r)
  PROVE  /\ OnlyFile(chkNum[r], r)
         /\ files'[chkNum[r]][r] =
              [files[chkNum[r]][r] EXCEPT !.st = "closed", !.tc = TrialsCompleted(r),
                                          !.mx = maxTrial[r], !.uid = nextUid[r]]
         /\ files'[chkNum[r]][r].st = "closed"
         /\ files'[chkNum[r]][r].mx = maxTrial[r]
         /\ files'[chkNum[r]][r].rows = files[chkNum[r]][r].rows
<1>1. DiskTypeOK /\ chkNum[r] \in Chk /\ files[chkNum[r]][r] \in File
  BY DEF IInv, TypeOK, DiskTypeOK
<1> DEFINE f == [files[chkNum[r]][r] EXCEPT !.st = "closed", !.tc = TrialsCompleted(r),
                                            !.mx = maxTrial[r], !.uid = nextUid[r]]
<1>2. files' = [files EXCEPT ![chkNum[r]][r] = f] /\ UNCHANGED <<hasDir, h5>>
  BY <1>1 DEF Close, CloseOutputFile, DiskTypeOK
<1>3. files'[chkNum[r]][r] = f /\ OnlyFile(chkNum[r], r)
  <2> HIDE DEF f
  <2> QED BY <1>1, <1>2 DEF OnlyFile, DiskTypeOK
<1> QED BY <1>1, <1>3 DEF File

LEMMA SyncEffect ==
  ASSUME IInv, NEW r \in Rank, SyncWrite(r)
  PROVE  /\ OnlyFile(chkNum[r], sync.next)
         /\ files'[chkNum[r]][sync.next] =
              [files[chkNum[r]][sync.next] EXCEPT !.tc = sync.tc, !.mx = sync.mx]
         /\ files'[chkNum[r]][sync.next].st = files[chkNum[r]][sync.next].st
         /\ files'[chkNum[r]][sync.next].mx = sync.mx
         /\ files'[chkNum[r]][sync.next].rows = files[chkNum[r]][sync.next].rows
<1>1. DiskTypeOK /\ chkNum[r] \in Chk /\ sync.next \in Rank /\ files[chkNum[r]][sync.next] \in File
  BY DEF IInv, TypeOK, DiskTypeOK
<1> DEFINE f == [files[chkNum[r]][sync.next] EXCEPT !.tc = sync.tc, !.mx = sync.mx]
<1>2. files' = [files EXCEPT ![chkNum[r]][sync.next] = f] /\ UNCHANGED <<hasDir, h5>>
  BY <1>1 DEF SyncWrite, OverwriteAttrs, DiskTypeOK
<1>3. files'[chkNum[r]][sync.next] = f /\ OnlyFile(chkNum[r], sync.next)
  <2> HIDE DEF f
  <2> QED BY <1>1, <1>2 DEF OnlyFile, DiskTypeOK
<1> QED BY <1>1, <1>3 DEF File

\* Consolidation works on the checkpoint merge.chk: at most one of the four happens.
LEMMA MergeEffect ==
  ASSUME IInv, NEW r \in Rank, Merge(r)
  PROVE  \/ UNCHANGED <<hasDir, files, h5>>
         \/ /\ merge.chk \in Chk
            /\ \A d \in Chk : d # merge.chk => h5'[d] = h5[d]
            /\ \/ /\ MergeCopy(r) /\ UNCHANGED <<hasDir, files>>
                  /\ Min(RanksIn(merge.chk)) \in RanksIn(merge.chk)
                  /\ h5'[merge.chk] =
                       [files[merge.chk][Min(RanksIn(merge.chk))] EXCEPT !.st = "open"]
                  /\ h5'[merge.chk].st = "open"
                  /\ h5'[merge.chk].mx = files[merge.chk][Min(RanksIn(merge.chk))].mx
                  /\ h5'[merge.chk].rows = files[merge.chk][Min(RanksIn(merge.chk))].rows
               \/ /\ MergeAppend(r) /\ UNCHANGED <<hasDir, files>>
                  /\ Min(NotYetMerged) \in NotYetMerged
                  /\ h5'[merge.chk].st = h5[merge.chk].st
                  /\ h5'[merge.chk].mx = h5[merge.chk].mx
                  /\ h5'[merge.chk].rows =
                       h5[merge.chk].rows \cup files[merge.chk][Min(NotYetMerged)].rows
                  /\ h5'[merge.chk].done =
                       h5[merge.chk].done \cup files[merge.chk][Min(NotYetMerged)].done
                  /\ h5'[merge.chk].tc = h5[merge.chk].tc
                  /\ h5'[merge.chk].uid = h5[merge.chk].uid
               \/ /\ MergeClose(r) /\ UNCHANGED <<hasDir, files>>
                  /\ h5[merge.chk].st = "open"
                  /\ h5'[merge.chk] = [h5[merge.chk] EXCEPT !.st = "closed"]
                  /\ h5'[merge.chk].st = "closed"
                  /\ h5'[merge.chk].mx = h5[merge.chk].mx
                  /\ h5'[merge.chk].rows = h5[merge.chk].rows
               \/ /\ MergeUnlink(r) \/ MergeRemove(r)
                  /\ UNCHANGED h5 /\ h5[merge.chk].st = "closed"
                  /\ \A d \in Chk : d # merge.chk => hasDir'[d] = hasDir[d]
                  /\ \A d \in Chk, q \in Rank :
                       files'[d][q] = files[d][q] \/ (d = merge.chk /\ files'[d][q] = NoFile)
<1> DEFINE c == merge.chk
<1>1. /\ ~MergeUnstarted \/ ~MergeOver => c \in Chk
      /\ DiskTypeOK /\ \A d \in Chk : h5[d] \in File
      /\ \A d \in Chk, q \in Rank : files[d][q] \in File
  BY MergeTypes DEF IInv, MergeWithinCheckpoints, TypeOK, DiskTypeOK
<1>2. CASE MergeSkip(r) \/ MergeDone(r)  BY <1>2 DEF MergeSkip, MergeDone, disk
<1>3. CASE MergeCopy(r)
  <2> DEFINE m == Min(RanksIn(c))
  <2>1. /\ h5' = [h5 EXCEPT ![c] = [files[c][m] EXCEPT !.st = "open"]]
        /\ UNCHANGED <<hasDir, files>> /\ RanksIn(c) # {} /\ c \in Chk
    BY <1>1, <1>3 DEF MergeCopy, CopyFirstFile
  <2>2. m \in RanksIn(c) /\ m \in Rank  BY <2>1, MinOfRanks DEF RanksIn
  <2> HIDE DEF m
  <2>3. /\ h5'[c] = [files[c][m] EXCEPT !.st = "open"]
        /\ \A d \in Chk : d # c => h5'[d] = h5[d]
    BY <1>1, <2>1 DEF DiskTypeOK
  <2>4. /\ h5'[c].st = "open" /\ h5'[c].mx = files[c][m].mx /\ h5'[c].rows = files[c][m].rows
    BY <1>1, <2>1, <2>2, <2>3 DEF File
  <2> QED BY <1>3, <2>1, <2>2, <2>3, <2>4 DEF m
<1>4. CASE MergeAppend(r)
  <2> DEFINE m == Min(NotYetMerged)
             f == [h5[c] EXCEPT !.rows = h5[c].rows \cup files[c][m].rows,
                                !.done = h5[c].done \cup files[c][m].done]
  <2>1. NotYetMerged # {} /\ c \in Chk /\ UNCHANGED <<hasDir, files>>
    BY <1>1, <1>4 DEF MergeAppend, AppendFile
  <2>2. m \in NotYetMerged  BY <2>1, MinOfRanks DEF NotYetMerged, RanksIn
  <2>3. h5' = [h5 EXCEPT ![c] = f]  BY <1>1, <1>4, <2>1 DEF MergeAppend, AppendFile, DiskTypeOK
  <2>4. h5'[c] = f /\ \A d \in Chk : d # c => h5'[d] = h5[d]
    <3> HIDE DEF f
    <3> QED BY <1>1, <2>1, <2>3 DEF DiskTypeOK
  <2> HIDE DEF m
  <2>5. /\ h5'[c].st = h5[c].st /\ h5'[c].mx = h5[c].mx /\ h5'[c].tc = h5[c].tc
        /\ h5'[c].uid = h5[c].uid
        /\ h5'[c].rows = h5[c].rows \cup files[c][m].rows
        /\ h5'[c].done = h5[c].done \cup files[c][m].done
    BY <1>1, <2>1, <2>4 DEF File
  <2> QED BY <1>4, <2>1, <2>2, <2>4, <2>5 DEF m
<1>5. CASE MergeClose(r)
  <2>1. /\ h5' = [h5 EXCEPT ![c] = [h5[c] EXCEPT !.st = "closed"]] /\ h5[c].st = "open"
        /\ UNCHANGED <<hasDir, files>> /\ c \in Chk
    BY <1>1, <1>5 DEF MergeClose, CloseConsolidated, DiskTypeOK
  <2>2. h5'[c] = [h5[c] EXCEPT !.st = "closed"] /\ \A d \in Chk : d # c => h5'[d] = h5[d]
    BY <1>1, <2>1 DEF DiskTypeOK
  <2>3. /\ h5'[c].st = "closed" /\ h5'[c].mx = h5[c].mx /\ h5'[c].rows = h5[c].rows
    BY <1>1, <2>1, <2>2 DEF File
  <2> QED BY <1>5, <2>1, <2>2, <2>3
<1>6. CASE MergeUnlink(r) \/ MergeRemove(r)  BY <1>6, CleanupEffect
<1> QED BY <1>2, <1>3, <1>4, <1>5, <1>6 DEF Merge

\* What a death of the process leaves.
LEMMA CrashEffect ==
  ASSUME IInv, Crash
  PROVE  /\ hasDir' = hasDir
         /\ \A c \in Chk, q \in Rank :
              /\ files'[c][q] = [files[c][q] EXCEPT !.st = files'[c][q].st]
              /\ files'[c][q].st = IF files[c][q].st = "open" THEN "torn" ELSE files[c][q].st
              /\ files'[c][q].rows = files[c][q].rows /\ files'[c][q].mx = files[c][q].mx
         /\ \A c \in Chk :
              /\ h5'[c] = [h5[c] EXCEPT !.st = h5'[c].st]
              /\ h5'[c].st \in IF h5[c].st = "open" THEN {"torn", "closed"} ELSE {h5[c].st}
              /\ h5'[c].rows = h5[c].rows /\ h5'[c].mx = h5[c].mx
<1>1. PICK legible \in BOOLEAN : ProcessDies(legible)  BY DEF Crash
<1>2. /\ \A c \in Chk : h5[c] \in File
      /\ \A c \in Chk, q \in Rank : files[c][q] \in File
  BY DEF IInv, TypeOK, DiskTypeOK
<1>3. \A f \in File :
        /\ Torn(f) = [f EXCEPT !.st = Torn(f).st] /\ Torn(f).rows = f.rows /\ Torn(f).mx = f.mx
        /\ Torn(f).st = IF f.st = "open" THEN "torn" ELSE f.st
  BY DEF Torn, File
<1>4. \A f \in File :
        /\ Interrupted(f, legible) = [f EXCEPT !.st = Interrupted(f, legible).st]
        /\ Interrupted(f, legible).rows = f.rows /\ Interrupted(f, legible).mx = f.mx
        /\ Interrupted(f, legible).st \in IF f.st = "open" THEN {"torn", "closed"} ELSE {f.st}
  BY DEF Torn, Interrupted, File
<1>5. /\ hasDir' = hasDir
      /\ \A c \in Chk : h5'[c] = Interrupted(h5[c], legible)
      /\ \A c \in Chk, q \in Rank : files'[c][q] = Torn(files[c][q])
  BY <1>1 DEF ProcessDies
<1>6. ASSUME NEW c \in Chk, NEW q \in Rank
      PROVE  /\ files'[c][q] = [files[c][q] EXCEPT !.st = files'[c][q].st]
             /\ files'[c][q].st = IF files[c][q].st = "open" THEN "torn" ELSE files[c][q].st
             /\ files'[c][q].rows = files[c][q].rows /\ files'[c][q].mx = files[c][q].mx
  <2>1. files[c][q] \in File /\ files'[c][q] = Torn(files[c][q])  BY <1>2, <1>5
  <2> QED BY <1>3, <2>1
<1>7. ASSUME NEW c \in Chk
      PROVE  /\ h5'[c] = [h5[c] EXCEPT !.st = h5'[c].st]
             /\ h5'[c].st \in IF h5[c].st = "open" THEN {"torn", "closed"} ELSE {h5[c].st}
             /\ h5'[c].rows = h5[c].rows /\ h5'[c].mx = h5[c].mx
  <2>1. h5[c] \in File /\ h5'[c] = Interrupted(h5[c], legible)  BY <1>2, <1>5
  <2> QED BY <1>4, <2>1
<1> QED BY <1>5, <1>6, <1>7

\* What the user's deleting leaves.
LEMMA DeleteEffect ==
  ASSUME IInv, DeleteUnreadable
  PROVE  /\ MaxCheckpoint \in FoundCheckpoints /\ MaxCheckpoint \in Chk
         /\ \A c \in FoundCheckpoints : c <= MaxCheckpoint
         /\ \A r \in Rank : pc[r] = "idle" /\ pc'[r] = "idle"
         /\ IF HasH5(MaxCheckpoint)
            THEN /\ UNCHANGED <<hasDir, files>>
                 /\ \A c \in Chk : h5'[c] = IF c = MaxCheckpoint THEN NoFile ELSE h5[c]
            ELSE /\ UNCHANGED h5
                 /\ \A c \in Chk : hasDir'[c] = (hasDir[c] /\ c # MaxCheckpoint)
                 /\ \A c \in Chk, q \in Rank :
                      files'[c][q] = IF c = MaxCheckpoint THEN NoFile ELSE files[c][q]
<1>1. /\ MaxCheckpoint \in FoundCheckpoints /\ \A c \in FoundCheckpoints : c <= MaxCheckpoint
      /\ MaxCheckpoint \in Chk /\ DiskTypeOK
  BY MaxCheckpointLast, MaxCheckpointType DEF DeleteUnreadable, IInv, TypeOK
<1>2. \A r \in Rank : pc[r] = "idle" /\ pc'[r] = "idle"
  BY DEF DeleteUnreadable, Running, IInv, OnlyActiveRun, Rank
<1>3. CASE HasH5(MaxCheckpoint)
  <2>1. h5' = [h5 EXCEPT ![MaxCheckpoint] = NoFile] /\ UNCHANGED <<hasDir, files>>
    BY <1>3 DEF DeleteUnreadable, DeleteRefused
  <2> QED BY <1>1, <1>2, <1>3, <2>1 DEF DiskTypeOK
<1>4. CASE ~HasH5(MaxCheckpoint)
  <2>1. /\ hasDir' = [hasDir EXCEPT ![MaxCheckpoint] = FALSE] /\ h5' = h5
        /\ files' = [files EXCEPT ![MaxCheckpoint] = [q \in Rank |-> NoFile]]
    BY <1>4 DEF DeleteUnreadable, DeleteRefused, RemoveDirectory
  <2> QED BY <1>1, <1>2, <1>4, <2>1 DEF DiskTypeOK
<1> QED BY <1>3, <1>4

\* The steps that write to the disk.
DiskStep ==
  \/ \E r \in Rank : \/ MakeDir(r) \/ OpenFiles(r) \/ Close(r) \/ SyncWrite(r) \/ Merge(r)
                     \/ \E t \in Thread : WriteTrial(r, t) \/ FinishTrial(r, t)
  \/ Crash \/ DeleteUnreadable

LEMMA DiskSteps ==
  ASSUME [Next]_vars
  PROVE  UNCHANGED disk \/ DiskStep
<1>1. ASSUME NEW r \in Rank,
             Setup(r) \/ OpenThrows(r) \/ OpenCheck(r) \/ Batch(r) \/ SyncRead(r)
      PROVE  UNCHANGED disk
  BY <1>1
  DEF Setup, SetupThrows, SetupFresh, SetupRestart, OpenThrows, OpenCheck, Batch,
      BatchFailed, BatchDone, SyncRead
<1>2. ASSUME NEW r \in Rank, NEW t \in Thread,
             SkipTrial(r, t) \/ BeginTrial(r, t) \/ FailTrial(r, t)
      PROVE  UNCHANGED disk
  BY <1>2 DEF SkipTrial, BeginTrial, FailTrial
<1>3. ASSUME NEW r \in Rank, SigtermArrives(r)
      PROVE  UNCHANGED disk
  BY <1>3 DEF SigtermArrives
<1>4. CASE Collective  BY <1>4 DEF Collective, Reduce, Barrier, Finalize
<1>5. ASSUME NEW n \in RankCounts, NEW again \in BOOLEAN, Launch(n, again)
      PROVE  UNCHANGED disk
  BY <1>5 DEF Launch
<1>6. CASE UNCHANGED vars  BY <1>6 DEF vars
<1> QED
  BY <1>1, <1>2, <1>3, <1>4, <1>5, <1>6
  DEF DiskStep, Next, RankStep, Open, Trial, Save, Outside, Finished

-----------------------------------------------------------------------------
(* Where trials do not throw, no rank fails.                               *)

LEMMA FailsStep ==
  ASSUME "error" \notin Faults \/ MaxRanks = 1, FailsAlone, [Next]_vars
  PROVE  FailsAlone'
<1> USE DEF FailsAlone
<1>1. ASSUME NEW r \in Rank, RankStep(r)
      PROVE  UNCHANGED failed
  <2>1. CASE Setup(r) \/ Open(r)
    BY <2>1
    DEF Setup, SetupThrows, SetupFresh, SetupRestart, Open, OpenThrows, OpenCheck, MakeDir,
        OpenFiles
  <2>2. CASE \E t \in Thread : Trial(r, t)
    BY <2>2 DEF Trial, SkipTrial, BeginTrial, WriteTrial, FinishTrial
  <2>3. CASE Batch(r) \/ Save(r)
    BY <2>3 DEF Batch, BatchFailed, BatchDone, Save, Close, SyncRead, SyncWrite
  <2>4. CASE Merge(r)
    BY <2>4
    DEF Merge, MergeSkip, MergeCopy, MergeAppend, MergeClose, MergeUnlink, MergeRemove, MergeDone
  <2> QED BY <1>1, <2>1, <2>2, <2>3, <2>4 DEF RankStep
<1>2. ASSUME Forget
      PROVE  FailsAlone'
  BY <1>2 DEF Forget
<1>3. CASE Collective  BY <1>2, <1>3 DEF Collective, Reduce, Barrier, Finalize
<1>4. CASE Outside
  BY <1>2, <1>4 DEF Outside, Launch, SigtermArrives, FailTrial, Crash, DeleteUnreadable
<1>5. CASE UNCHANGED vars  BY <1>5 DEF vars
<1> QED BY <1>1, <1>3, <1>4, <1>5 DEF Next, Finished

-----------------------------------------------------------------------------
(* Which files there are, and whose.                                       *)

\* A file that is not there has no rows.
LEMMA NoFileStep ==
  ASSUME IInv, MergedSoFar, FilesOpened, NoFileNoRows, [Next]_vars
  PROVE  NoFileNoRows'
<1> USE DEF NoFileNoRows
<1>1. CASE UNCHANGED disk  BY <1>1 DEF disk
<1>2. ASSUME NEW c \in Chk, NEW r \in Rank, OnlyFile(c, r),
             files'[c][r].st = "none" => files'[c][r].rows = {}
      PROVE  NoFileNoRows'
  BY <1>2 DEF OnlyFile
<1>3. ASSUME NEW r \in Rank, MakeDir(r)
      PROVE  NoFileNoRows'
  BY <1>3 DEF MakeDir, CreateDirectory
<1>4. \A r \in Rank : chkNum[r] \in Chk /\ sync.next \in Rank  BY DEF IInv, TypeOK
<1>5. ASSUME NEW r \in Rank, OpenFiles(r)
      PROVE  NoFileNoRows'
  BY <1>2, <1>4, <1>5, OpenEffect
<1>6. ASSUME NEW r \in Rank, NEW t \in Thread, WriteTrial(r, t)
      PROVE  NoFileNoRows'
  <2>1. pc[r] = "batch"  BY <1>6 DEF WriteTrial, IInv, TrialsOnlyInBatch
  <2>2. files[chkNum[r]][r].st = "open"  BY <2>1 DEF FilesOpened, HasFile, OwnFile
  <2> QED BY <1>2, <1>4, <1>6, <2>2, WriteEffect
<1>7. ASSUME NEW r \in Rank, NEW t \in Thread, FinishTrial(r, t)
      PROVE  NoFileNoRows'
  <2>1. OnlyFile(chkNum[r], r)  BY <1>7, FinishEffect
  <2>2. /\ files'[chkNum[r]][r].st = files[chkNum[r]][r].st
        /\ files'[chkNum[r]][r].rows = files[chkNum[r]][r].rows
    BY <1>7, FinishEffect
  <2> QED BY <1>2, <1>4, <2>1, <2>2
<1>8. ASSUME NEW r \in Rank, Close(r)
      PROVE  NoFileNoRows'
  BY <1>2, <1>4, <1>8, CloseEffect
<1>9. ASSUME NEW r \in Rank, SyncWrite(r)
      PROVE  NoFileNoRows'
  <2>1. OnlyFile(chkNum[r], sync.next)  BY <1>9, SyncEffect
  <2>2. /\ files'[chkNum[r]][sync.next].st = files[chkNum[r]][sync.next].st
        /\ files'[chkNum[r]][sync.next].rows = files[chkNum[r]][sync.next].rows
    BY <1>9, SyncEffect
  <2> QED BY <1>2, <1>4, <2>1, <2>2
<1>10. ASSUME NEW r \in Rank, Merge(r)
       PROVE  NoFileNoRows'
  <2>1. MergeAppend(r) => h5[merge.chk].st # "none"  BY DEF MergeAppend, MergedSoFar, HasH5
  <2>2. NoFile.rows = {}  BY DEF NoFile
  <2>3. \A c \in Chk, q \in Rank :
          files'[c][q].st = "none" => files'[c][q].rows = {}
    BY <1>10, <2>2, MergeEffect
  <2>4. \A c \in Chk : h5'[c].st = "none" => h5'[c].rows = {}
    <3>1. \A c \in Chk : h5'[c] = h5[c] \/ h5'[c].st # "none"  BY <1>10, <2>1, MergeEffect
    <3> QED BY <3>1
  <2> QED BY <2>3, <2>4
<1>11. CASE Crash
  <2>1. \A c \in Chk : h5'[c].st = "none" => h5[c].st = "none" /\ h5'[c].rows = h5[c].rows
    BY <1>11, CrashEffect
  <2>2. \A c \in Chk, q \in Rank :
          files'[c][q].st = "none" => /\ files[c][q].st = "none"
                                      /\ files'[c][q].rows = files[c][q].rows
    BY <1>11, CrashEffect
  <2> QED BY <2>1, <2>2
<1>12. CASE DeleteUnreadable
  <2>1. NoFile.rows = {}  BY DEF NoFile
  <2>2. /\ \A c \in Chk : h5'[c] \in {h5[c], NoFile}
        /\ \A c \in Chk, q \in Rank : files'[c][q] \in {files[c][q], NoFile}
    BY <1>12, DeleteEffect
  <2> QED BY <2>1, <2>2
<1> QED BY <1>1, <1>3, <1>5, <1>6, <1>7, <1>8, <1>9, <1>10, <1>11, <1>12, DiskSteps DEF DiskStep

OwnInv == FilesOpened /\ OnlyOurFiles

\* Where a rank has its file open.
WritingPcs == {"batch", "reduce", "close"}

\* No file is opened or closed, and no rank gets one.
LEMMA OwnFrame ==
  ASSUME OwnInv, size' = size,
         \A c \in Chk : h5'[c].st = h5[c].st,
         \A c \in Chk, q \in Rank : files'[c][q].st = files[c][q].st,
         chkNum \in [Rank -> Chk],
         \A q \in Rank :
           /\ HasFile(q)' => HasFile(q) /\ (pc'[q] \in WritingPcs <=> pc[q] \in WritingPcs)
           /\ Knows(q)' => Knows(q) /\ chkNum'[q] = chkNum[q]
  PROVE  OwnInv'
<1>1. FilesOpened'
  <2> SUFFICES ASSUME NEW q \in Rank, HasFile(q)'
               PROVE  OwnFile(q)'.st = IF pc'[q] \in WritingPcs THEN "open" ELSE "closed"
    BY DEF FilesOpened, WritingPcs
  <2>1. Knows(q)'  BY DEF HasFile, Knows, RunPcs
  <2>2. OwnFile(q)'.st = OwnFile(q).st  BY <2>1 DEF OwnFile
  <2> QED BY <2>2 DEF OwnInv, FilesOpened, WritingPcs
<1>2. OnlyOurFiles'  BY DEF OwnInv, OnlyOurFiles, HasH5, Active
<1> QED BY <1>1, <1>2 DEF OwnInv

\* No rank has a file.
LEMMA OwnAside ==
  ASSUME \A q \in Rank : pc'[q] \in {"idle", "setup", "finalize", "merge"}
  PROVE  OwnInv'
BY DEF OwnInv, FilesOpened, OnlyOurFiles, HasFile, Knows, NameFree, DirPcs, RunPcs, SyncPcs

\* The checkpoints after the last one have nothing in them.
LEMMA NothingBeyond ==
  ASSUME NoStrays, NEW c \in Chk, c \notin FoundCheckpoints
  PROVE  ~hasDir[c] /\ ~HasH5(c) /\ \A q \in Rank : files[c][q].st = "none"
BY DEF NoStrays, FoundCheckpoints, Exists

\* Each rank has its own file of the checkpoint open, and no one else has any there.
LEMMA OwnStep ==
  ASSUME DiskInv, OwnInv, [Next]_vars
  PROVE  OwnInv'
<1> USE DEF HasFile, Knows, NameFree, DirPcs, RunPcs, SyncPcs, WritingPcs
<1>1. /\ chkNum \in [Rank -> Chk]
      /\ pc \in [Rank -> {"idle"} \cup CollectivePcs \cup LocalPcs]
      /\ inRun \in [Rank -> BOOLEAN] /\ exit \in [Rank -> {"none", "done", "sigterm", "error"}]
      /\ IInv /\ NoStrays /\ sync.next \in Rank
  BY DEF DiskInv, IInv, TypeOK
<1>2. ASSUME NEW n \in RankCounts, NEW again \in BOOLEAN, Launch(n, again)
      PROVE  OwnInv'
  BY <1>2, OwnAside DEF Launch
<1>3. ASSUME Forget
      PROVE  OwnInv'
  BY <1>3, OwnAside DEF Forget
<1>4. ASSUME NEW r \in Rank, Setup(r) \/ OpenThrows(r)
      PROVE  OwnInv'
  <2>1. /\ UNCHANGED <<size, inRun, disk>>
        /\ \A q \in Rank : q # r => chkNum'[q] = chkNum[q]
        /\ \/ pc[r] = "setup" /\ pc' = [pc EXCEPT ![r] = "open_check"]
           \/ pc' = [pc EXCEPT ![r] = "finalize"]
    BY <1>1, <1>4
    DEF Setup, SetupThrows, SetupFresh, SetupRestart, OpenThrows, ConstructorThrows
  <2>2. pc[r] = "setup" => ~inRun[r]  BY <1>1 DEF IInv, FreshUntilSetup
  <2> QED BY <1>1, <2>1, <2>2, OwnFrame DEF disk
<1>5. ASSUME NEW r \in Rank, OpenCheck(r)
      PROVE  OwnInv'
  <2>1. /\ UNCHANGED <<size, inRun, chkNum, disk>> /\ pc' = [pc EXCEPT ![r] = "open_checked"]
        /\ ~Exists(chkNum[r])
    BY <1>5 DEF OpenCheck
  <2>2. ~HasH5(chkNum[r]) /\ \A q \in Rank : files[chkNum[r]][q].st = "none"
    BY <1>1, <2>1, NothingBeyond DEF FoundCheckpoints
  <2>3. FilesOpened'  BY <1>1, <2>1 DEF OwnInv, FilesOpened, OwnFile, disk
  <2>4. OnlyOurFiles'
    <3> SUFFICES ASSUME NEW q \in Rank, Knows(q)'
                 PROVE  /\ ~HasH5(chkNum[q])
                        /\ \A p \in Rank \ Active : files[chkNum[q]][p].st = "none"
      BY <2>1 DEF OnlyOurFiles, HasH5, Active, disk
    <3>1. q = r \/ Knows(q)  BY <1>1, <2>1
    <3> QED BY <2>2, <3>1 DEF OwnInv, OnlyOurFiles
  <2> QED BY <2>3, <2>4 DEF OwnInv
<1>6. ASSUME NEW r \in Rank, MakeDir(r)
      PROVE  OwnInv'
  <2>1. /\ UNCHANGED <<size, inRun, chkNum, files, h5>> /\ pc' = [pc EXCEPT ![r] = "dir_made"]
        /\ pc[r] = "make_dir"
    BY <1>6 DEF MakeDir, CreateDirectory
  <2> QED BY <1>1, <2>1, OwnFrame
<1>7. ASSUME NEW r \in Rank, OpenFiles(r)
      PROVE  OwnInv'
  <2>1. /\ UNCHANGED <<size, chkNum>> /\ pc[r] = "open_files"
        /\ pc' = [pc EXCEPT ![r] = "batch"] \/ pc' = [pc EXCEPT ![r] = "close"]
        /\ inRun' = [inRun EXCEPT ![r] = TRUE]
    BY <1>7 DEF OpenFiles, EnterBatch
  <2>2. OnlyFile(chkNum[r], r) /\ files'[chkNum[r]][r].st = "open"  BY <1>1, <1>7, OpenEffect
  <2>3. r \in Active /\ Active' = Active  BY <1>1, <2>1, ActiveRanks DEF Active
  <2>4. FilesOpened'  BY <1>1, <2>1, <2>2 DEF OwnInv, FilesOpened, OwnFile, OnlyFile
  <2>5. OnlyOurFiles'  BY <1>1, <2>1, <2>2, <2>3 DEF OwnInv, OnlyOurFiles, OnlyFile, HasH5
  <2> QED BY <2>4, <2>5 DEF OwnInv
<1>8. ASSUME NEW r \in Rank, NEW t \in Thread, Trial(r, t) \/ FailTrial(r, t)
      PROVE  OwnInv'
  <2>1. UNCHANGED <<size, pc, inRun, chkNum>>
    BY <1>8
    DEF Trial, SkipTrial, BeginTrial, WriteTrial, FinishTrial, FailTrial, TaskUnchanged
  <2>2. CASE SkipTrial(r, t) \/ BeginTrial(r, t) \/ FailTrial(r, t)
    <3>1. UNCHANGED disk  BY <2>2 DEF SkipTrial, BeginTrial, FailTrial
    <3> QED BY <1>1, <2>1, <3>1, OwnFrame DEF disk
  <2>3. CASE WriteTrial(r, t)
    <3>1. OnlyFile(chkNum[r], r) /\ files'[chkNum[r]][r].st = files[chkNum[r]][r].st
      BY <1>1, <2>3, WriteEffect
    <3> QED BY <1>1, <2>1, <3>1, OwnFrame DEF OnlyFile
  <2>4. CASE FinishTrial(r, t)
    <3>1. OnlyFile(chkNum[r], r) /\ files'[chkNum[r]][r].st = files[chkNum[r]][r].st
      BY <1>1, <2>4, FinishEffect
    <3> QED BY <1>1, <2>1, <3>1, OwnFrame DEF OnlyFile
  <2> QED BY <1>8, <2>2, <2>3, <2>4 DEF Trial
<1>9. ASSUME NEW r \in Rank, Batch(r)
      PROVE  OwnInv'
  <2>1. /\ UNCHANGED <<size, inRun, chkNum, disk>> /\ pc[r] = "batch"
        /\ pc' = [pc EXCEPT ![r] = "reduce"] \/ pc' = [pc EXCEPT ![r] = "close"]
    BY <1>9 DEF Batch, BatchFailed, BatchDone, BatchOver
  <2> QED BY <1>1, <2>1, OwnFrame DEF disk
<1>10. ASSUME NEW r \in Rank, SigtermArrives(r)
       PROVE  OwnInv'
  BY <1>1, <1>10, OwnFrame DEF SigtermArrives, disk
<1>11. ASSUME NEW r \in Rank, Close(r)
       PROVE  OwnInv'
  <2>1. /\ UNCHANGED <<size, inRun, chkNum>> /\ pc[r] = "close"
        /\ pc' = [pc EXCEPT ![r] = "closed"]
    BY <1>11 DEF Close
  <2>2. OnlyFile(chkNum[r], r) /\ files'[chkNum[r]][r].st = "closed"  BY <1>1, <1>11, CloseEffect
  <2>3. r \in Active /\ Active' = Active  BY <1>1, <2>1, ActiveRanks DEF Active
  <2>4. FilesOpened'  BY <1>1, <2>1, <2>2 DEF OwnInv, FilesOpened, OwnFile, OnlyFile
  <2>5. OnlyOurFiles'  BY <1>1, <2>1, <2>2, <2>3 DEF OwnInv, OnlyOurFiles, OnlyFile, HasH5
  <2> QED BY <2>4, <2>5 DEF OwnInv
<1>12. ASSUME NEW r \in Rank, SyncRead(r)
       PROVE  OwnInv'
  <2>1. /\ UNCHANGED <<size, inRun, chkNum, disk>> /\ pc[r] = "sync_read"
        /\ pc' = pc \/ pc' = [pc EXCEPT ![r] = "sync_write"]
    BY <1>12 DEF SyncRead
  <2> QED BY <1>1, <2>1, OwnFrame DEF disk
<1>13. ASSUME NEW r \in Rank, SyncWrite(r)
       PROVE  OwnInv'
  <2>1. /\ UNCHANGED <<size, inRun, chkNum>> /\ pc[r] = "sync_write"
        /\ pc' = pc \/ pc' = [pc EXCEPT ![r] = "synced"]
    BY <1>13 DEF SyncWrite
  <2>2. /\ OnlyFile(chkNum[r], sync.next)
        /\ files'[chkNum[r]][sync.next].st = files[chkNum[r]][sync.next].st
    BY <1>1, <1>13, SyncEffect
  <2> QED BY <1>1, <2>1, <2>2, OwnFrame DEF OnlyFile
<1>14. ASSUME NEW r \in Rank, Merge(r)
       PROVE  OwnInv'
  <2>1. pc[r] = "merge" /\ (pc' = pc \/ pc' = [pc EXCEPT ![r] = "finalize"])
    BY <1>14 DEF Merge, MergeSkip, MergeCopy, MergeAppend, MergeClose, MergeUnlink, MergeRemove, MergeDone
  <2> QED BY <1>1, <2>1, MergeAlone, OwnAside DEF EndPcs
<1>15. CASE Reduce
  <2>1. /\ UNCHANGED <<size, inRun, chkNum, disk>>
        /\ \A q \in Rank : IF q \in Active THEN pc[q] = "reduce" /\ pc'[q] = "close"
                           ELSE pc'[q] = pc[q]
    BY <1>15 DEF Reduce
  <2> QED BY <1>1, <2>1, OwnFrame DEF disk
<1>16. CASE Barrier
  <2>1. /\ UNCHANGED <<size, inRun, exit, disk>>
        /\ \A q \in Rank : /\ pc'[q] = AfterBarrier(q)
                           /\ chkNum'[q] = IF pc[q] = "synced" /\ exit[q] = "none"
                                           THEN chkNum[q] + 1 ELSE chkNum[q]
        /\ \A q \in Active : pc[q] \in BarrierPcs /\ (pc[q] = "synced" /\ exit[q] = "none" => chkNum[q] < MaxChk)
        /\ Active' = Active
    BY <1>16 DEF Barrier, NextCheckpointNumber, Active
  <2>2. \A q \in Rank : q \in Active \/ pc[q] = "idle"  BY <1>1, ActiveRanks
  <2>3. FilesOpened'
    <3> SUFFICES ASSUME NEW q \in Rank, HasFile(q)'
                 PROVE  OwnFile(q)'.st = IF pc'[q] \in WritingPcs THEN "open" ELSE "closed"
      BY DEF FilesOpened
    <3>1. pc[q] = "closed" /\ pc'[q] \in {"sync_read", "synced"}
      BY <2>1, <2>2 DEF AfterBarrier, BarrierPcs
    <3> QED BY <2>1, <3>1 DEF OwnInv, FilesOpened, OwnFile, disk
  <2>4. OnlyOurFiles'
    <3> SUFFICES ASSUME NEW q \in Rank, Knows(q)'
                 PROVE  /\ ~HasH5(chkNum'[q])
                        /\ \A p \in Rank \ Active : files[chkNum'[q]][p].st = "none"
      BY <2>1 DEF OnlyOurFiles, HasH5, disk
    <3>1. CASE pc[q] = "synced" /\ exit[q] = "none"
      <4>1. chkNum'[q] \in Chk /\ chkNum'[q] = chkNum[q] + 1
        BY <1>1, <2>1, <2>2, <3>1, OutputAssumption DEF Chk
      <4>2. FoundCheckpoints = 0 .. chkNum[q]  BY <3>1 DEF DiskInv, NumbersTaken
      <4>3. chkNum[q] \in Nat  BY <1>1 DEF Chk
      <4> QED BY <1>1, <4>1, <4>2, <4>3, NothingBeyond
    <3>2. CASE ~(pc[q] = "synced" /\ exit[q] = "none")
      <4>1. Knows(q) /\ chkNum'[q] = chkNum[q]  BY <2>1, <2>2, <3>2 DEF AfterBarrier, BarrierPcs
      <4> QED BY <4>1 DEF OwnInv, OnlyOurFiles
    <3> QED BY <3>1, <3>2
  <2> QED BY <2>3, <2>4 DEF OwnInv
<1>17. CASE DeleteUnreadable  BY <1>1, <1>17, DeleteEffect, OwnAside
<1>18. CASE UNCHANGED vars  BY <1>1, <1>18, OwnFrame DEF vars, disk
<1> QED BY <1>2, <1>3, <1>4, <1>5, <1>6, <1>7, <1>8, <1>9, <1>10, <1>11, <1>12, <1>13, <1>14,
     <1>15, <1>16, <1>17, <1>18
  DEF Next, RankStep, Open, Save, Collective, Finalize, Outside, Crash, Finished

-----------------------------------------------------------------------------
(* Batches begin and end together.                                         *)

BatchInv == BatchesTogether /\ RolloverGoesOn

\* The ranks stay where they were in the loop, or leave it for good.
LEMMA BatchFrame ==
  ASSUME BatchInv, UNCHANGED <<size, restart, prior, restartMax, batchStart>>,
         \A q \in Rank : /\ pc'[q] = pc[q] \/ (pc'[q] \notin RunPcs /\ pc[q] \notin RunPcs)
                         /\ inRun'[q] = inRun[q]
                         /\ inRun[q] /\ GoingOn(q)' => GoingOn(q),
         Active \subseteq Rank
  PROVE  BatchInv'
<1>1. Active' = Active  BY DEF Active
<1>2. \A q : NumberingStart(q)' = NumberingStart(q) /\ NumberingEnd(q)' = NumberingEnd(q)
             /\ BatchSize(q)' = BatchSize(q)
  BY NumberingSame
<1>3. BatchesTogether'  BY <1>1, <1>2 DEF BatchInv, BatchesTogether, RunPcs
<1>4. RolloverGoesOn'
  <2> SUFFICES ASSUME NEW q \in Rank, inRun'[q], GoingOn(q)', pc'[q] \notin {"batch", "reduce"}
               PROVE  batchStart[q] + BatchSize(q) < NumberingEnd(q)
    BY <1>2 DEF RolloverGoesOn
  <2>1. inRun[q] /\ GoingOn(q) /\ pc[q] \notin {"batch", "reduce"}  BY DEF RunPcs
  <2> QED BY <2>1 DEF BatchInv, RolloverGoesOn
<1> QED BY <1>3, <1>4 DEF BatchInv

\* No rank is in the loop.
LEMMA BatchAside ==
  ASSUME \A q \in Active' : pc'[q] \notin RunPcs,
         \A q \in Rank : ~(inRun'[q] /\ GoingOn(q)')
  PROVE  BatchInv'
BY DEF BatchInv, BatchesTogether, RolloverGoesOn, RunPcs

\* Ranks in the same phase begin the same batch.
LEMMA SameBatch ==
  ASSUME IInv, NEW q \in Active, NEW r \in Active, GoingOn(q), GoingOn(r)
  PROVE  /\ BatchFirst(q) = BatchFirst(r) /\ chkNum[q] = chkNum[r]
         /\ NumberingStart(q) = NumberingStart(r) /\ NumberingEnd(q) = NumberingEnd(r)
         /\ BatchSize(q) = BatchSize(r)
<1>1. /\ BatchFirst(q) = BatchFirst(r) /\ chkNum[q] = chkNum[r]
      /\ prior[q] = prior[r] /\ restartMax[q] = restartMax[r]
  BY DEF IInv, RanksAgree, GoingOn
<1> QED BY <1>1, NumberingAgrees

\* A rank enters the loop, or has nothing to do and closes its files.
LEMMA BatchOpen ==
  ASSUME IInv, BatchInv, NEW r \in Rank, OpenFiles(r)
  PROVE  BatchInv'
<1> USE DEF RunPcs
<1> DEFINE first == IF inRun[r] THEN batchStart[r] + BatchSize(r) ELSE NumberingStart(r)
<1>1. /\ pc[r] = "open_files" /\ inRun' = [inRun EXCEPT ![r] = TRUE]
      /\ UNCHANGED <<size, restart, prior, restartMax>>
      /\ EnterBatch(r, first)
  BY DEF OpenFiles
<1>2. /\ Active' = Active /\ Active \subseteq Rank /\ r \in Active
      /\ \A q : NumberingStart(q)' = NumberingStart(q) /\ NumberingEnd(q)' = NumberingEnd(q)
                /\ BatchSize(q)' = BatchSize(q)
  BY <1>1, NumberingSame, ActiveRanks DEF Active
<1>3. /\ \A q \in Active : pc[q] \in RunPcs
      /\ \A q \in Active : ~Closing(q) \/ exit[q] = "none" => GoingOn(q)
  BY <1>1, Together DEF GoingOn, Constructed, Closing, SyncPcs
<1>4. BatchFirst(r) = first /\ GoingOn(r)  BY <1>1, <1>2, <1>3 DEF BatchFirst, Closing, SyncPcs
<1>5. ASSUME NEW q \in Active, pc[q] \in {"open_files", "batch", "reduce"}
      PROVE  BatchFirst(q) = first /\ NumberingEnd(q) = NumberingEnd(r)
             /\ NumberingStart(q) = NumberingStart(r)
             /\ (pc[q] # "open_files" => batchStart[q] = first)
  <2>1. GoingOn(q)  BY <1>3, <1>5 DEF Closing, SyncPcs
  <2>2. BatchFirst(q) = first /\ NumberingEnd(q) = NumberingEnd(r)
        /\ NumberingStart(q) = NumberingStart(r)
    BY <1>2, <1>4, <2>1, SameBatch
  <2> QED BY <1>5, <2>2 DEF BatchFirst
<1>6. /\ first \in Nat /\ NumberingEnd(r) \in Nat /\ NumberingStart(r) \in Nat
      /\ \A q \in Rank : batchStart[q] \in Nat /\ BatchSize(q) \in Nat
  BY NumberingType DEF IInv, TypeOK
<1>7. /\ pc \in [Rank -> {"idle"} \cup CollectivePcs \cup LocalPcs]
      /\ inRun \in [Rank -> BOOLEAN] /\ batchStart \in [Rank -> Nat]
      /\ exit \in [Rank -> {"none", "done", "sigterm", "error"}]
  BY DEF IInv, TypeOK
<1>8. RolloverGoesOn'
  <2> SUFFICES ASSUME NEW q \in Rank, inRun'[q], GoingOn(q)', pc'[q] \notin {"batch", "reduce"}
               PROVE  batchStart'[q] + BatchSize(q) < NumberingEnd(q)
    BY <1>2 DEF RolloverGoesOn
  <2>1. pc'[r] = "batch" \/ (pc'[r] = "close" /\ exit'[r] # "none")  BY <1>1, <1>7 DEF EnterBatch
  <2>2. q # r  BY <2>1 DEF GoingOn, Closing
  <2>3. inRun[q] /\ GoingOn(q) /\ pc[q] \notin {"batch", "reduce"} /\ batchStart'[q] = batchStart[q]
    BY <1>1, <1>7, <2>2 DEF EnterBatch, GoingOn, Constructed, Closing
  <2> QED BY <2>3 DEF BatchInv, RolloverGoesOn
<1>9. CASE first < NumberingEnd(r)
  <2>1. /\ pc' = [pc EXCEPT ![r] = "batch"] /\ batchStart' = [batchStart EXCEPT ![r] = first]
    BY <1>1, <1>9 DEF EnterBatch
  <2>2. \A q \in Active : pc[q] \in {"open_files", "batch", "reduce"}
    <3> SUFFICES ASSUME NEW q \in Active, pc[q] \in {"close", "closed"}
                 PROVE  FALSE
      BY <1>3
    <3>1. ~inRun[r] /\ NumberingEnd(r) <= NumberingStart(r)
      BY <1>1, <1>2 DEF BatchInv, BatchesTogether
    <3> QED BY <1>6, <1>9, <3>1
  <2>3. \A q \in Active : pc'[q] \in {"open_files", "batch", "reduce"}  BY <1>2, <1>7, <2>1, <2>2
  <2>4. \A q \in Active : pc'[q] \in {"batch", "reduce"} => batchStart'[q] < NumberingEnd(q)
    BY <1>2, <1>7, <1>9, <2>1 DEF BatchInv, BatchesTogether
  <2>5. BatchesTogether'  BY <1>2, <2>3, <2>4 DEF BatchesTogether
  <2> QED BY <1>8, <2>5 DEF BatchInv
<1>10. CASE first >= NumberingEnd(r)
  <2>1. pc' = [pc EXCEPT ![r] = "close"] /\ batchStart' = batchStart
    BY <1>1, <1>6, <1>10 DEF EnterBatch
  <2>2. \A q \in Active : pc[q] \notin {"batch", "reduce"}
    <3> SUFFICES ASSUME NEW q \in Active, pc[q] \in {"batch", "reduce"}
                 PROVE  FALSE
      OBVIOUS
    <3>1. batchStart[q] < NumberingEnd(q)  BY DEF BatchInv, BatchesTogether
    <3> QED BY <1>5, <1>6, <1>10, <3>1
  <2>3. ASSUME NEW q \in Active, pc[q] = "open_files"
        PROVE  ~inRun[q] /\ NumberingEnd(q) <= NumberingStart(q)
    <3>1. BatchFirst(q) = first /\ NumberingEnd(q) = NumberingEnd(r)  BY <1>5, <2>3
    <3>2. ~inRun[q]
      <4> SUFFICES ASSUME inRun[q]
                   PROVE  FALSE
        OBVIOUS
      <4>1. first = batchStart[q] + BatchSize(q)  BY <2>3, <3>1 DEF BatchFirst, Closing, SyncPcs
      <4>2. GoingOn(q)  BY <1>3, <2>3 DEF Closing, SyncPcs
      <4>3. batchStart[q] + BatchSize(q) < NumberingEnd(q)
        BY <1>2, <2>3, <4>2 DEF BatchInv, RolloverGoesOn
      <4> QED BY <1>2, <1>6, <1>10, <3>1, <4>1, <4>3
    <3>3. NumberingStart(q) = first  BY <2>3, <3>1, <3>2 DEF BatchFirst, Closing, SyncPcs
    <3> QED BY <1>6, <1>10, <3>1, <3>2, <3>3
  <2>4. BatchesTogether'  BY <1>1, <1>2, <1>7, <2>1, <2>2, <2>3 DEF BatchesTogether
  <2> QED BY <1>8, <2>4 DEF BatchInv
<1> QED BY <1>6, <1>9, <1>10

\* All ranks have handed out the batch: they stop, finish or roll over.
LEMMA BatchReduce ==
  ASSUME IInv, BatchInv, Reduce
  PROVE  BatchInv'
<1>1. /\ UNCHANGED <<size, restart, prior, restartMax, batchStart, inRun>>
      /\ \A q \in Active : pc[q] = "reduce"
      /\ \A q \in Rank : IF q \in Active
           THEN pc'[q] = "close" /\ (exit'[q] = "none" => ~LastBatch(q))
           ELSE pc'[q] = pc[q] /\ exit'[q] = exit[q]
  BY DEF Reduce
<1>2. /\ Active' = Active /\ Active \subseteq Rank
      /\ \A q : NumberingEnd(q)' = NumberingEnd(q) /\ BatchSize(q)' = BatchSize(q)
      /\ \A q \in Rank : q \in Active \/ pc[q] = "idle"
  BY <1>1, NumberingSame, ActiveRanks DEF Active
<1>3. BatchesTogether'  BY <1>1, <1>2 DEF BatchesTogether
<1>4. RolloverGoesOn'
  <2> SUFFICES ASSUME NEW q \in Rank, inRun'[q], GoingOn(q)', pc'[q] \notin {"batch", "reduce"}
               PROVE  batchStart[q] + BatchSize(q) < NumberingEnd(q)
    BY <1>1, <1>2 DEF RolloverGoesOn
  <2>1. q \in Active  BY <1>1, <1>2 DEF GoingOn, Constructed
  <2>2. ~LastBatch(q)  BY <1>1, <2>1 DEF GoingOn, Closing
  <2>3. batchStart[q] \in Nat /\ BatchSize(q) \in Nat /\ NumberingEnd(q) \in Nat
    BY NumberingType DEF IInv, TypeOK
  <2> QED BY <2>2, <2>3 DEF LastBatch, BatchEnd, Lesser
<1> QED BY <1>3, <1>4 DEF BatchInv

LEMMA BatchBarrier ==
  ASSUME IInv, BatchInv, Barrier
  PROVE  BatchInv'
<1>1. /\ UNCHANGED <<size, restart, prior, restartMax, batchStart, inRun, exit>>
      /\ \A q \in Active : pc[q] \in BarrierPcs
      /\ \A q \in Rank : pc'[q] = AfterBarrier(q)
  BY DEF Barrier
<1>2. /\ Active' = Active /\ Active \subseteq Rank
      /\ \A q : NumberingEnd(q)' = NumberingEnd(q) /\ BatchSize(q)' = BatchSize(q)
      /\ \A q \in Rank : q \in Active \/ pc[q] = "idle"
  BY <1>1, NumberingSame, ActiveRanks DEF Active
<1>3. BatchesTogether'
  <2> SUFFICES ASSUME NEW q \in Active, NEW r \in Active
               PROVE  /\ pc'[r] \notin {"batch", "reduce"}
                      /\ pc'[q] \notin {"close", "closed"}
    BY <1>1, <1>2 DEF BatchesTogether
  <2> QED BY <1>1, <1>2 DEF AfterBarrier, BarrierPcs
<1>4. RolloverGoesOn'
  <2> SUFFICES ASSUME NEW q \in Rank, inRun[q], GoingOn(q)'
               PROVE  batchStart[q] + BatchSize(q) < NumberingEnd(q)
    BY <1>1, <1>2 DEF RolloverGoesOn
  <2>1. GoingOn(q) /\ pc[q] \notin {"batch", "reduce"}
    BY <1>1, <1>2 DEF GoingOn, Constructed, Closing, SyncPcs, AfterBarrier, BarrierPcs
  <2> QED BY <2>1 DEF BatchInv, RolloverGoesOn
<1> QED BY <1>3, <1>4 DEF BatchInv

\* A rank hands out the last trial of its slice, or closes its files: the others
\* are no further behind than that.
LEMMA BatchMove ==
  ASSUME IInv, BatchInv, NEW r \in Rank, BatchDone(r) \/ Close(r)
  PROVE  BatchInv'
<1>1. /\ UNCHANGED <<size, restart, prior, restartMax, batchStart, inRun, exit>>
      /\ \/ pc[r] = "batch" /\ pc' = [pc EXCEPT ![r] = "reduce"]
         \/ pc[r] = "close" /\ pc' = [pc EXCEPT ![r] = "closed"]
  BY DEF BatchDone, BatchOver, Close
<1>2. /\ Active' = Active /\ Active \subseteq Rank
      /\ \A q : NumberingStart(q)' = NumberingStart(q) /\ NumberingEnd(q)' = NumberingEnd(q)
                /\ BatchSize(q)' = BatchSize(q)
      /\ pc \in [Rank -> {"idle"} \cup CollectivePcs \cup LocalPcs]
  BY <1>1, NumberingSame, ActiveRanks DEF Active, IInv, TypeOK
<1>3. BatchesTogether'  BY <1>1, <1>2 DEF BatchInv, BatchesTogether
<1>4. RolloverGoesOn'
  <2> SUFFICES ASSUME NEW q \in Rank, inRun[q], GoingOn(q)', pc'[q] \notin {"batch", "reduce"}
               PROVE  batchStart[q] + BatchSize(q) < NumberingEnd(q)
    BY <1>1, <1>2 DEF RolloverGoesOn
  <2>1. GoingOn(q) /\ pc[q] \notin {"batch", "reduce"}
    BY <1>1, <1>2 DEF GoingOn, Constructed, Closing
  <2> QED BY <2>1 DEF BatchInv, RolloverGoesOn
<1> QED BY <1>3, <1>4 DEF BatchInv

LEMMA BatchStep ==
  ASSUME IInv, BatchInv, FailsAlone, [Next]_vars
  PROVE  BatchInv'
<1> USE DEF RunPcs
<1>1. /\ pc \in [Rank -> {"idle"} \cup CollectivePcs \cup LocalPcs]
      /\ Active \subseteq Rank /\ \A q \in Rank : q \in Active \/ pc[q] = "idle"
  BY ActiveRanks DEF IInv, TypeOK
<1>2. ASSUME NEW n \in RankCounts, NEW again \in BOOLEAN, Launch(n, again)
      PROVE  BatchInv'
  BY <1>2, RunAssumption, OutputAssumption, BatchAside
  DEF Launch, GoingOn, Constructed, Active, Rank
<1>3. ASSUME Forget
      PROVE  BatchInv'
  BY <1>3, BatchAside DEF Forget, Active, GoingOn, Constructed
<1>4. ASSUME NEW r \in Rank, Setup(r)
      PROVE  BatchInv'
  <2>1. /\ UNCHANGED <<size, inRun>> /\ pc[r] = "setup" /\ r \in Active
        /\ \E p \in {"open_check", "finalize"} : pc' = [pc EXCEPT ![r] = p]
    BY <1>1, <1>4 DEF Setup, SetupThrows, SetupFresh, SetupRestart, ConstructorThrows
  <2>2. PICK P \in Phases : \A q \in Active : pc[q] \in P  BY DEF IInv, RanksAgree, SamePhase
  <2>3. \A q \in Active : pc[q] \in OpenPcs /\ ~inRun[q]
    BY <2>1, <2>2
    DEF Phases, OpenPcs, DirPcs, SyncPcs, EndPcs, IInv, NoneInRunDuringSetup
  <2>4. \A q \in Active' : pc'[q] \notin RunPcs  BY <1>1, <2>1, <2>3 DEF OpenPcs, Active
  <2>5. \A q \in Rank : ~(inRun'[q] /\ GoingOn(q)')  BY <1>1, <2>1, <2>3 DEF GoingOn, Constructed
  <2> QED BY <2>4, <2>5, BatchAside
<1>5. ASSUME NEW r \in Rank, OpenThrows(r) \/ OpenCheck(r) \/ MakeDir(r)
      PROVE  BatchInv'
  <2>1. /\ UNCHANGED <<size, restart, prior, restartMax, batchStart, inRun>>
        /\ \/ pc[r] = "open_check" /\ pc' = [pc EXCEPT ![r] = "finalize"]
           \/ exit' = exit /\ pc[r] = "open_check" /\ pc' = [pc EXCEPT ![r] = "open_checked"]
           \/ exit' = exit /\ pc[r] = "make_dir" /\ pc' = [pc EXCEPT ![r] = "dir_made"]
        /\ \A q \in Rank : q # r => exit'[q] = exit[q]
    BY <1>5 DEF OpenThrows, OpenCheck, MakeDir, ConstructorThrows, IInv, TypeOK
  <2> QED BY <1>1, <2>1, BatchFrame DEF GoingOn, Constructed, Closing, SyncPcs
<1>6. ASSUME NEW r \in Rank, NEW t \in Thread, Trial(r, t) \/ FailTrial(r, t)
      PROVE  BatchInv'
  BY <1>1, <1>6, BatchFrame
  DEF Trial, SkipTrial, BeginTrial, WriteTrial, FinishTrial, FailTrial, TaskUnchanged,
      GoingOn, Constructed, Closing
<1>7. ASSUME NEW r \in Rank, SigtermArrives(r)
      PROVE  BatchInv'
  BY <1>1, <1>7, BatchFrame DEF SigtermArrives, GoingOn, Constructed, Closing
<1>8. ASSUME NEW r \in Rank, BatchFailed(r)
      PROVE  BatchInv'
  <2>1. /\ UNCHANGED <<size, restart, prior, restartMax, batchStart, inRun>>
        /\ pc' = [pc EXCEPT ![r] = "close"] /\ exit' = [exit EXCEPT ![r] = "error"]
    BY <1>8 DEF BatchFailed
  <2>2. Rank = {r} /\ Active' \subseteq Rank
    <3>1. MaxRanks = 1  BY <1>8 DEF BatchFailed, FailsAlone
    <3> QED BY <1>1, <2>1, <3>1 DEF Rank, Active
  <2>3. pc'[r] = "close" /\ exit'[r] = "error"  BY <1>1, <2>1, <2>2 DEF IInv, TypeOK
  <2>4. BatchesTogether'  BY <2>2, <2>3 DEF BatchesTogether
  <2>5. RolloverGoesOn'  BY <2>2, <2>3 DEF RolloverGoesOn, GoingOn, Closing
  <2> QED BY <2>4, <2>5 DEF BatchInv
<1>9. ASSUME NEW r \in Rank, SyncRead(r) \/ SyncWrite(r) \/ Merge(r)
      PROVE  BatchInv'
  <2>1. /\ UNCHANGED <<size, restart, prior, restartMax, batchStart, inRun, exit>>
        /\ \/ pc' = pc
           \/ /\ pc[r] \in {"sync_read", "sync_write"}
              /\ \E p \in {"sync_write", "synced"} : pc' = [pc EXCEPT ![r] = p]
           \/ pc[r] = "merge" /\ pc' = [pc EXCEPT ![r] = "finalize"]
    <3>1. CASE SyncRead(r)  BY <3>1 DEF SyncRead
    <3>2. CASE SyncWrite(r)  BY <3>2 DEF SyncWrite
    <3>3. CASE Merge(r)
      BY <3>3
      DEF Merge, MergeSkip, MergeCopy, MergeAppend, MergeClose, MergeUnlink, MergeRemove, MergeDone
    <3> QED BY <1>9, <3>1, <3>2, <3>3
  <2> QED BY <1>1, <2>1, BatchFrame DEF GoingOn, Constructed, Closing, SyncPcs
<1>10. CASE DeleteUnreadable
  BY <1>1, <1>10, BatchFrame DEF DeleteUnreadable, GoingOn, Constructed, Closing
<1>11. CASE UNCHANGED vars  BY <1>1, <1>11, BatchFrame DEF vars, GoingOn, Constructed, Closing
<1> QED
  BY <1>2, <1>3, <1>4, <1>5, <1>6, <1>7, <1>8, <1>9, <1>10, <1>11, BatchOpen, BatchMove,
     BatchReduce, BatchBarrier
  DEF Next, RankStep, Open, Batch, Save, Collective, Finalize, Outside, Crash, Finished

-----------------------------------------------------------------------------
(* The trials of a rank.                                                   *)

\* The slices of the ranks lie within the batch, one after the other.
LEMMA SliceBounds ==
  ASSUME IInv, NEW r \in Active, batchStart[r] <= NumberingEnd(r)
  PROVE  /\ SliceFirst(r, batchStart[r], BatchEnd(r)) \in Nat /\ SliceLast(r) \in Nat
         /\ batchStart[r] <= SliceFirst(r, batchStart[r], BatchEnd(r))
         /\ SliceLast(r) <= BatchEnd(r)
         /\ BatchEnd(r) \in Nat /\ batchStart[r] \in Nat /\ BatchSize(r) \in Nat
         /\ BatchEnd(r) <= batchStart[r] + BatchSize(r) /\ BatchEnd(r) <= NumberingEnd(r)
         /\ batchStart[r] <= BatchEnd(r)
         /\ OwnSlice(r) = Slice(r, size, batchStart[r], BatchEnd(r))
<1> DEFINE a == batchStart[r]
           b == BatchEnd(r)
<1>1. r \in Rank /\ r \in Nat /\ size \in Nat \ {0} /\ r < size
  BY ActiveRanks, OutputAssumption DEF IInv, TypeOK, Active, Rank
<1>2. /\ a \in Nat /\ b \in Nat /\ a <= b /\ BatchSize(r) \in Nat /\ b <= a + BatchSize(r)
      /\ b <= NumberingEnd(r)
  BY <1>1, NumberingType DEF IInv, TypeOK, BatchEnd, Lesser
<1>3. /\ RankFirst(size, size, a, b) = b
      /\ RankLast(r, size, a, b) <= RankFirst(size, size, a, b)
  BY <1>1, <1>2, SliceEnds, SlicesInOrder
<1> DEFINE n == Base(b - a, size)
           m == Remainder(b - a, size)
<1>4. n \in Nat /\ m \in Nat
  <2>1. b - a \in Nat  BY <1>2
  <2> HIDE DEF a, b
  <2> QED BY <1>1, <2>1, DivMod
<1>5. r * n \in Nat  BY <1>1, <1>4
<1>6. RankFirst(r, size, a, b) = a + (r * n + Lesser(r, m))  BY DEF RankFirst, PrecedingCount
<1>7. RankLast(r, size, a, b) = RankFirst(r, size, a, b) + (n + (IF r < m THEN 1 ELSE 0))
  BY DEF RankLast, MyCount
<1> HIDE DEF n, m, a, b
<1>8. RankFirst(r, size, a, b) \in Nat /\ a <= RankFirst(r, size, a, b)
  BY <1>1, <1>2, <1>4, <1>5, <1>6 DEF Lesser
<1>9. RankLast(r, size, a, b) \in Nat  BY <1>4, <1>7, <1>8
<1> QED BY <1>2, <1>3, <1>8, <1>9 DEF a, b, SliceFirst, SliceLast, OwnSlice, Slice

TrialInv == TasksTaken /\ TasksApart /\ RowsTaken

\* No rank has a file.
LEMMA TrialAside ==
  ASSUME IInv', \A q \in Rank : ~HasFile(q)'
  PROVE  TrialInv'
<1>1. \A q \in Rank, t \in Thread : task'[q][t].st = "idle"  BY DEF IInv, TrialsOnlyInBatch, HasFile
<1>2. \A q \in Rank : pc'[q] # "batch"  BY DEF HasFile
<1> QED BY <1>1, <1>2 DEF TrialInv, TasksTaken, TasksApart, RowsTaken

\* No trial begins or writes.
LEMMA TrialFrame ==
  ASSUME TrialInv, IInv',
         UNCHANGED <<size, restart, prior, restartMax, batchStart, nextTrial, task>>,
         \A q \in Rank :
           /\ pc'[q] = "batch" => pc[q] = "batch"
           /\ HasFile(q)' => HasFile(q) /\ OwnFile(q)'.rows \subseteq OwnFile(q).rows
  PROVE  TrialInv'
<1>1. \A q \in Rank : /\ OwnSlice(q)' = OwnSlice(q) /\ Taken(q)' = Taken(q)
                      /\ BatchEnd(q)' = BatchEnd(q)
                      /\ SliceFirst(q, batchStart[q], BatchEnd(q))'
                           = SliceFirst(q, batchStart[q], BatchEnd(q))
  BY NumberingSame DEF OwnSlice, Taken, SliceFirst, SliceLast, BatchEnd
<1>2. TasksTaken'  BY <1>1 DEF TrialInv, TasksTaken
<1>3. RowsTaken'  BY <1>1 DEF TrialInv, RowsTaken
<1>4. TasksApart'
  <2> SUFFICES ASSUME NEW q \in Rank, NEW t \in Thread, task[q][t].st = "begun"
               PROVE  /\ \A row \in OwnFile(q)'.rows : row.trial # task[q][t].trial
                      /\ \A u \in Thread \ {t} :
                           task[q][u].st = "begun" => task[q][u].trial # task[q][t].trial
    BY DEF TasksApart
  <2>1. HasFile(q)'  BY DEF IInv, TrialsOnlyInBatch, HasFile
  <2> QED BY <2>1 DEF TrialInv, TasksApart
<1> QED BY <1>2, <1>3, <1>4 DEF TrialInv

\* A rank begins its slice of a batch, with an empty file.
LEMMA TrialOpen ==
  ASSUME IInv, IInv', BatchInv', TrialInv, NEW r \in Rank, OpenFiles(r)
  PROVE  TrialInv'
<1> DEFINE first == IF inRun[r] THEN batchStart[r] + BatchSize(r) ELSE NumberingStart(r)
<1>1. /\ pc[r] = "open_files" /\ EnterBatch(r, first)
      /\ UNCHANGED <<size, restart, prior, restartMax, chkNum, task>>
  BY DEF OpenFiles
<1>2. /\ \A q : NumberingEnd(q)' = NumberingEnd(q) /\ BatchSize(q)' = BatchSize(q)
      /\ r \in Active' /\ \A t \in Thread : task'[r][t].st = "idle"
  BY <1>1, NumberingSame, ActiveRanks DEF Active, IInv, TrialsOnlyInBatch
<1>3. OnlyFile(chkNum[r], r) /\ files'[chkNum[r]][r].rows = {}  BY OpenEffect
<1>4. /\ pc \in [Rank -> {"idle"} \cup CollectivePcs \cup LocalPcs]
      /\ batchStart \in [Rank -> Nat] /\ nextTrial \in [Rank -> Nat] /\ chkNum \in [Rank -> Chk]
  BY DEF IInv, TypeOK
<1>5. \A q \in Rank : q # r =>
        /\ pc'[q] = pc[q] /\ batchStart'[q] = batchStart[q] /\ nextTrial'[q] = nextTrial[q]
        /\ OwnFile(q)' = OwnFile(q)
  <2>1. \A q \in Rank : q # r =>
          pc'[q] = pc[q] /\ batchStart'[q] = batchStart[q] /\ nextTrial'[q] = nextTrial[q]
    BY <1>1, <1>4 DEF EnterBatch
  <2>2. \A q \in Rank : q # r => OwnFile(q)' = OwnFile(q)  BY <1>1, <1>3, <1>4 DEF OwnFile, OnlyFile
  <2> QED BY <2>1, <2>2
<1>6. ASSUME NEW q \in Rank, q # r
      PROVE  /\ OwnSlice(q)' = OwnSlice(q) /\ Taken(q)' = Taken(q)
             /\ SliceFirst(q, batchStart[q], BatchEnd(q))'
                  = SliceFirst(q, batchStart[q], BatchEnd(q))
  BY <1>1, <1>2, <1>5, <1>6 DEF OwnSlice, Taken, SliceFirst, SliceLast, BatchEnd
<1>7. OwnFile(r)'.rows = {}  BY <1>1, <1>3 DEF OwnFile
<1>8. pc'[r] = "batch" =>
        SliceFirst(r, batchStart[r], BatchEnd(r))' <= nextTrial'[r]
  <2> SUFFICES ASSUME pc'[r] = "batch"
               PROVE  SliceFirst(r, batchStart[r], BatchEnd(r))' <= nextTrial'[r]
    OBVIOUS
  <2>1. first < NumberingEnd(r)  BY <1>1, <1>4 DEF EnterBatch
  <2>2. /\ batchStart'[r] = first
        /\ nextTrial'[r] = SliceFirst(r, first, Lesser(first + BatchSize(r), NumberingEnd(r)))
    BY <1>1, <1>4, <2>1 DEF EnterBatch
  <2>3. BatchEnd(r)' = Lesser(first + BatchSize(r), NumberingEnd(r))  BY <1>2, <2>2 DEF BatchEnd
  <2>4. nextTrial'[r] = SliceFirst(r, batchStart[r], BatchEnd(r))'
    <3> HIDE DEF first
    <3> QED BY <1>1, <2>2, <2>3 DEF SliceFirst
  <2>5. nextTrial'[r] \in Nat  BY DEF IInv, TypeOK
  <2> QED BY <2>4, <2>5
<1>9. TasksTaken'  BY <1>1, <1>2, <1>5, <1>6, <1>8 DEF TrialInv, TasksTaken
<1>10. RowsTaken'  BY <1>5, <1>6, <1>7 DEF TrialInv, RowsTaken, HasFile
<1>11. TasksApart'  BY <1>1, <1>2, <1>5 DEF TrialInv, TasksApart
<1> QED BY <1>9, <1>10, <1>11 DEF TrialInv

\* The loop hands out the next trial, or skips it.
LEMMA TrialNext ==
  ASSUME IInv, BatchInv, TrialInv, NEW r \in Rank, NEW t \in Thread,
         SkipTrial(r, t) \/ BeginTrial(r, t)
  PROVE  TrialInv'
<1>1. /\ pc[r] = "batch" /\ nextTrial[r] < SliceLast(r) /\ task[r][t].st = "idle"
      /\ nextTrial' = [nextTrial EXCEPT ![r] = nextTrial[r] + 1]
      /\ UNCHANGED <<size, restart, prior, restartMax, batchStart, pc, chkNum, files>>
      /\ \/ task' = task
         \/ task' = [task EXCEPT ![r][t] =
                       [st |-> "begun", trial |-> nextTrial[r], uid |-> nextUid[r]]]
  BY DEF SkipTrial, BeginTrial, TaskUnchanged, disk
<1>2. /\ task \in [Rank -> [Thread -> Task]] /\ nextTrial \in [Rank -> Nat]
      /\ r \in Active
  BY <1>1, ActiveRanks DEF IInv, TypeOK
<1>3. \A q \in Rank : /\ OwnSlice(q)' = OwnSlice(q) /\ BatchEnd(q)' = BatchEnd(q)
                      /\ OwnFile(q)' = OwnFile(q) /\ HasFile(q)' = HasFile(q)
                      /\ SliceFirst(q, batchStart[q], BatchEnd(q))'
                           = SliceFirst(q, batchStart[q], BatchEnd(q))
  BY <1>1, NumberingSame DEF OwnSlice, SliceFirst, SliceLast, BatchEnd, OwnFile, HasFile
<1>4. batchStart[r] <= NumberingEnd(r)
  <2>1. batchStart[r] < NumberingEnd(r)  BY <1>1, <1>2 DEF BatchInv, BatchesTogether
  <2> QED BY <2>1, <1>2, NumberingType DEF IInv, TypeOK
<1>5. /\ SliceFirst(r, batchStart[r], BatchEnd(r)) \in Nat /\ SliceLast(r) \in Nat
      /\ SliceFirst(r, batchStart[r], BatchEnd(r)) <= nextTrial[r]
  BY <1>1, <1>2, <1>4, SliceBounds DEF TrialInv, TasksTaken
<1>6. \A q \in Rank : nextTrial'[q] = IF q = r THEN nextTrial[r] + 1 ELSE nextTrial[q]
  BY <1>1, <1>2
<1>7. /\ Taken(r) \subseteq Taken(r)' /\ nextTrial[r] \in Taken(r)'
      /\ \A n \in Taken(r) : n < nextTrial[r]
  <2>1. OwnSlice(r) \subseteq Int  BY <1>5 DEF OwnSlice
  <2>2. nextTrial[r] \in OwnSlice(r)  BY <1>1, <1>2, <1>5 DEF OwnSlice
  <2> QED BY <1>2, <1>3, <1>6, <2>1, <2>2 DEF Taken
<1>8. \A q \in Rank : Taken(q) \subseteq Taken(q)'
  <2>1. ASSUME NEW q \in Rank, q # r
        PROVE  Taken(q)' = Taken(q)
    BY <1>3, <1>6, <2>1 DEF Taken
  <2> QED BY <1>7, <2>1
<1>9. \A q \in Rank, u \in Thread :
        IF task'[q][u] = task[q][u] THEN TRUE
        ELSE q = r /\ u = t /\ task'[r][t].trial = nextTrial[r]
  BY <1>1, <1>2
<1>10. TasksTaken'
  <2>1. \A q \in Rank : pc'[q] = "batch" =>
          SliceFirst(q, batchStart[q], BatchEnd(q))' <= nextTrial'[q]
    <3> SUFFICES ASSUME NEW q \in Rank, pc'[q] = "batch"
                 PROVE  SliceFirst(q, batchStart[q], BatchEnd(q)) <= nextTrial'[q]
      BY <1>3
    <3>1. SliceFirst(q, batchStart[q], BatchEnd(q)) <= nextTrial[q]
      BY <1>1 DEF TrialInv, TasksTaken
    <3> QED BY <1>2, <1>5, <1>6, <3>1
  <2>2. \A q \in Rank, u \in Thread : task'[q][u].st # "idle" => task'[q][u].trial \in Taken(q)'
    BY <1>7, <1>8, <1>9 DEF TrialInv, TasksTaken
  <2> QED BY <2>1, <2>2 DEF TasksTaken
<1>11. RowsTaken'  BY <1>3, <1>8 DEF TrialInv, RowsTaken
<1>12. TasksApart'
  <2> SUFFICES ASSUME NEW q \in Rank, NEW u \in Thread, task'[q][u].st = "begun"
               PROVE  /\ \A row \in OwnFile(q).rows : row.trial # task'[q][u].trial
                      /\ \A v \in Thread \ {u} :
                           task'[q][v].st = "begun" => task'[q][v].trial # task'[q][u].trial
    BY <1>3 DEF TasksApart
  <2>1. CASE task' = task  BY <2>1 DEF TrialInv, TasksApart
  <2>2. CASE q # r
    <3>1. \A v \in Thread : task'[q][v] = task[q][v]  BY <1>9, <2>2
    <3> QED BY <3>1 DEF TrialInv, TasksApart
  <2>3. CASE q = r /\ task'[r][t].trial = nextTrial[r]
    <3>1. HasFile(r)  BY <1>1 DEF HasFile
    <3>2. \A row \in OwnFile(r).rows : row.trial # nextTrial[r]
      BY <1>2, <1>7, <3>1 DEF TrialInv, RowsTaken
    <3>3. \A v \in Thread : v # t /\ task'[r][v].st = "begun" =>
            task'[r][v] = task[r][v] /\ task[r][v].trial # nextTrial[r]
      BY <1>2, <1>7, <1>9 DEF TrialInv, TasksTaken
    <3>4. CASE u = t  BY <2>3, <3>2, <3>3, <3>4
    <3>5. CASE u # t
      <4>1. task'[r][u] = task[r][u] /\ task[r][u].trial # nextTrial[r]  BY <2>3, <3>3, <3>5
      <4>2. \A v \in Thread \ {u} :
              task'[r][v].st = "begun" => task'[r][v].trial # task[r][u].trial
        BY <2>3, <3>3, <4>1 DEF TrialInv, TasksApart
      <4>3. \A row \in OwnFile(r).rows : row.trial # task[r][u].trial
        BY <2>3, <4>1 DEF TrialInv, TasksApart
      <4> QED BY <2>3, <4>1, <4>2, <4>3
    <3> QED BY <3>4, <3>5
  <2> QED BY <1>9, <1>1, <1>2, <2>1, <2>2, <2>3
<1> QED BY <1>10, <1>11, <1>12 DEF TrialInv

\* A trial writes its row, or comes to its end.
LEMMA TrialWrites ==
  ASSUME IInv, TrialInv, NEW r \in Rank, NEW t \in Thread, WriteTrial(r, t) \/ FinishTrial(r, t)
  PROVE  TrialInv'
<1> DEFINE n == task[r][t].trial
<1>1. /\ task[r][t].st \in {"begun", "written"}
      /\ UNCHANGED <<size, restart, prior, restartMax, batchStart, nextTrial, pc, chkNum>>
  BY DEF WriteTrial, FinishTrial, TaskUnchanged
<1>2. /\ task \in [Rank -> [Thread -> Task]] /\ chkNum \in [Rank -> Chk]
  BY DEF IInv, TypeOK
<1>3. \A q \in Rank : /\ OwnSlice(q)' = OwnSlice(q) /\ Taken(q)' = Taken(q)
                      /\ HasFile(q)' = HasFile(q)
                      /\ SliceFirst(q, batchStart[q], BatchEnd(q))'
                           = SliceFirst(q, batchStart[q], BatchEnd(q))
  BY <1>1, NumberingSame DEF OwnSlice, SliceFirst, SliceLast, BatchEnd, HasFile, Taken
<1>4. /\ pc[r] = "batch" /\ HasFile(r) /\ n \in Taken(r)
  BY <1>1 DEF IInv, TrialsOnlyInBatch, HasFile, TrialInv, TasksTaken
<1>5. /\ \A q \in Rank, u \in Thread : (q # r \/ u # t) => task'[q][u] = task[q][u]
      /\ task'[r][t].st # "begun"
      /\ task'[r][t].st # "idle" => task'[r][t].trial = n
  <2>1. CASE WriteTrial(r, t)
    <3>1. task[r][t] \in Task  BY <1>2
    <3>2. task' = [task EXCEPT ![r][t].st = "written"]  BY <2>1 DEF WriteTrial
    <3>3. task'[r][t] = [task[r][t] EXCEPT !.st = "written"]  BY <1>2, <3>2
    <3>4. task'[r][t].st = "written" /\ task'[r][t].trial = n  BY <3>1, <3>3 DEF Task
    <3>5. \A q \in Rank, u \in Thread : (q # r \/ u # t) => task'[q][u] = task[q][u]  BY <1>2, <3>2
    <3> QED BY <3>4, <3>5
  <2>2. CASE FinishTrial(r, t)
    <3>1. task' = [task EXCEPT ![r][t] = Idle]  BY <2>2 DEF FinishTrial
    <3> QED BY <1>2, <3>1 DEF Idle
  <2> QED BY <2>1, <2>2
<1>6. /\ \A q \in Rank : q # r => OwnFile(q)' = OwnFile(q)
      /\ \A row \in OwnFile(r)'.rows : row \in OwnFile(r).rows \/ (row.trial = n /\ WriteTrial(r, t))
  <2>1. CASE WriteTrial(r, t)
    <3>1. /\ OnlyFile(chkNum[r], r)
          /\ files'[chkNum[r]][r].rows = files[chkNum[r]][r].rows
               \cup {[trial |-> task[r][t].trial, uid |-> task[r][t].uid]}
      BY <2>1, WriteEffect
    <3> QED BY <1>1, <1>2, <2>1, <3>1 DEF OnlyFile, OwnFile
  <2>2. CASE FinishTrial(r, t)
    <3>1. /\ OnlyFile(chkNum[r], r)
          /\ files'[chkNum[r]][r].rows = files[chkNum[r]][r].rows
      BY <2>2, FinishEffect
    <3> QED BY <1>1, <1>2, <3>1 DEF OnlyFile, OwnFile
  <2> QED BY <2>1, <2>2
<1>7. TasksTaken'
  <2>1. \A q \in Rank, u \in Thread : task'[q][u].st # "idle" => task'[q][u].trial \in Taken(q)'
    BY <1>3, <1>4, <1>5 DEF TrialInv, TasksTaken
  <2> QED BY <1>1, <1>3, <2>1 DEF TrialInv, TasksTaken
<1>8. RowsTaken'  BY <1>3, <1>4, <1>6 DEF TrialInv, RowsTaken
<1>9. TasksApart'
  <2> SUFFICES ASSUME NEW q \in Rank, NEW u \in Thread, task'[q][u].st = "begun"
               PROVE  /\ \A row \in OwnFile(q)'.rows : row.trial # task'[q][u].trial
                      /\ \A v \in Thread \ {u} :
                           task'[q][v].st = "begun" => task'[q][v].trial # task'[q][u].trial
    BY DEF TasksApart
  <2>1. task'[q][u] = task[q][u] /\ (q # r \/ u # t)  BY <1>5
  <2>2. \A v \in Thread \ {u} :
          task'[q][v].st = "begun" => task'[q][v].trial # task'[q][u].trial
    BY <1>5, <2>1 DEF TrialInv, TasksApart
  <2>3. \A row \in OwnFile(q).rows : row.trial # task[q][u].trial  BY <2>1 DEF TrialInv, TasksApart
  <2>4. q = r /\ WriteTrial(r, t) => task[r][u].trial # n
    <3>1. ASSUME q = r, WriteTrial(r, t)
          PROVE  task[r][t].st = "begun" /\ task[r][u].st = "begun" /\ u \in Thread \ {t}
      BY <2>1, <3>1 DEF WriteTrial
    <3> QED BY <3>1 DEF TrialInv, TasksApart
  <2> QED BY <1>6, <2>1, <2>2, <2>3, <2>4
<1> QED BY <1>7, <1>8, <1>9 DEF TrialInv

\* The rows of a rank's file are those of trials of its own slice that it has
\* taken, and no trial is taken twice.
LEMMA TrialStep ==
  ASSUME IInv, IInv', BatchInv, BatchInv', TrialInv, [Next]_vars
  PROVE  TrialInv'
<1> USE DEF HasFile, SyncPcs
<1>1. /\ pc \in [Rank -> {"idle"} \cup CollectivePcs \cup LocalPcs]
      /\ chkNum \in [Rank -> Chk] /\ sync.next \in Rank /\ task \in [Rank -> [Thread -> Task]]
      /\ Active \subseteq Rank /\ \A q \in Rank : q \in Active \/ pc[q] = "idle"
  BY ActiveRanks DEF IInv, TypeOK
<1>2. ASSUME NEW n \in RankCounts, NEW again \in BOOLEAN, Launch(n, again)
      PROVE  TrialInv'
  BY <1>2, TrialAside DEF Launch
<1>3. ASSUME Forget
      PROVE  TrialInv'
  BY <1>3, TrialAside DEF Forget
<1>4. ASSUME NEW r \in Rank, Setup(r)
      PROVE  TrialInv'
  <2>1. /\ pc[r] = "setup" /\ r \in Active
        /\ \E p \in {"open_check", "finalize"} : pc' = [pc EXCEPT ![r] = p]
    BY <1>1, <1>4 DEF Setup, SetupThrows, SetupFresh, SetupRestart, ConstructorThrows
  <2>2. PICK P \in Phases : \A q \in Active : pc[q] \in P  BY DEF IInv, RanksAgree, SamePhase
  <2>3. \A q \in Active : pc[q] \in OpenPcs
    BY <2>1, <2>2 DEF Phases, OpenPcs, DirPcs, RunPcs, EndPcs
  <2> QED BY <1>1, <2>1, <2>3, TrialAside DEF OpenPcs
<1>5. ASSUME NEW r \in Rank, OpenThrows(r) \/ OpenCheck(r) \/ MakeDir(r)
      PROVE  TrialInv'
  <2>1. /\ UNCHANGED <<size, restart, prior, restartMax, batchStart, nextTrial, task, chkNum, files>>
        /\ \E p \in {"open_checked", "dir_made", "finalize"} : pc' = [pc EXCEPT ![r] = p]
    BY <1>5 DEF OpenThrows, OpenCheck, MakeDir, CreateDirectory, ConstructorThrows, disk
  <2> QED BY <1>1, <2>1, TrialFrame DEF OwnFile
<1>6. ASSUME NEW r \in Rank, NEW t \in Thread, FailTrial(r, t)
      PROVE  TrialInv'
  <2>1. /\ UNCHANGED <<size, restart, prior, restartMax, batchStart, nextTrial, pc, chkNum, files>>
        /\ task' = [task EXCEPT ![r][t] = Idle]
    BY <1>6 DEF FailTrial, TaskUnchanged, disk
  <2>2. \A q \in Rank, u \in Thread : task'[q][u] = task[q][u] \/ task'[q][u].st = "idle"
    BY <1>1, <2>1 DEF Idle
  <2>3. \A q : OwnSlice(q)' = OwnSlice(q) /\ BatchEnd(q)' = BatchEnd(q)
                /\ OwnFile(q)' = OwnFile(q) /\ Taken(q)' = Taken(q)
    BY <2>1 DEF OwnSlice, SliceFirst, SliceLast, BatchEnd, BatchSize, NumberingEnd,
                NumberingStart, TrialsRemaining, OwnFile, Taken
  <2>4. TasksTaken'  BY <2>1, <2>2, <2>3 DEF TrialInv, TasksTaken, SliceFirst
  <2>5. TasksApart'  BY <2>2, <2>3 DEF TrialInv, TasksApart
  <2>6. RowsTaken'  BY <2>1, <2>3 DEF TrialInv, RowsTaken
  <2> QED BY <2>4, <2>5, <2>6 DEF TrialInv
<1>7. ASSUME NEW r \in Rank, SigtermArrives(r)
      PROVE  TrialInv'
  BY <1>7, TrialFrame DEF SigtermArrives, disk, OwnFile
<1>8. ASSUME NEW r \in Rank, Batch(r)
      PROVE  TrialInv'
  <2>1. /\ UNCHANGED <<size, restart, prior, restartMax, batchStart, nextTrial, task, chkNum, files>>
        /\ pc[r] = "batch"
        /\ \E p \in {"reduce", "close"} : pc' = [pc EXCEPT ![r] = p]
    BY <1>8 DEF Batch, BatchDone, BatchFailed, BatchOver, disk
  <2> QED BY <1>1, <2>1, TrialFrame DEF OwnFile
<1>9. ASSUME NEW r \in Rank, Close(r)
      PROVE  TrialInv'
  <2>1. /\ UNCHANGED <<size, restart, prior, restartMax, batchStart, nextTrial, task, chkNum>>
        /\ pc[r] = "close" /\ pc' = [pc EXCEPT ![r] = "closed"]
    BY <1>9 DEF Close
  <2>2. NoNewRows  BY <1>9, OwnFileRows
  <2> QED BY <1>1, <2>1, <2>2, TrialFrame DEF OwnFile, NoNewRows
<1>10. ASSUME NEW r \in Rank, SyncRead(r) \/ SyncWrite(r)
       PROVE  TrialInv'
  <2>1. /\ UNCHANGED <<size, restart, prior, restartMax, batchStart, nextTrial, task, chkNum>>
        /\ pc[r] \in SyncPcs
        /\ pc' = pc \/ \E p \in SyncPcs : pc' = [pc EXCEPT ![r] = p]
    BY <1>10 DEF SyncRead, SyncWrite
  <2>2. \A q \in Rank : OwnFile(q)'.rows \subseteq OwnFile(q).rows
    <3>1. CASE SyncRead(r)  BY <2>1, <3>1 DEF SyncRead, disk, OwnFile
    <3>2. CASE SyncWrite(r)  BY <1>1, <2>1, <3>2, OwnFileRows DEF NoNewRows, OwnFile
    <3> QED BY <1>10, <3>1, <3>2
  <2>3. \A q \in Rank : /\ pc'[q] = "batch" => pc[q] = "batch"
                        /\ HasFile(q)' => HasFile(q)
    BY <1>1, <2>1
  <2> QED BY <2>1, <2>2, <2>3, TrialFrame
<1>11. ASSUME NEW r \in Rank, Merge(r)
       PROVE  TrialInv'
  <2>1. pc[r] = "merge" /\ (pc' = pc \/ pc' = [pc EXCEPT ![r] = "finalize"])
    BY <1>11 DEF Merge, MergeSkip, MergeCopy, MergeAppend, MergeClose, MergeUnlink, MergeRemove, MergeDone
  <2> QED BY <1>1, <2>1, MergeAlone, TrialAside DEF EndPcs
<1>12. CASE Reduce
  <2>1. /\ UNCHANGED <<size, restart, prior, restartMax, batchStart, nextTrial, task, chkNum, files>>
        /\ \A q \in Rank : IF q \in Active THEN pc[q] = "reduce" /\ pc'[q] = "close"
                           ELSE pc'[q] = pc[q]
    BY <1>12 DEF Reduce, disk
  <2> QED BY <1>1, <2>1, TrialFrame DEF OwnFile
<1>13. CASE Barrier
  <2>1. /\ UNCHANGED <<size, restart, prior, restartMax, batchStart, nextTrial, task, files>>
        /\ \A q \in Rank : /\ pc'[q] = AfterBarrier(q)
                           /\ pc[q] # "synced" => chkNum'[q] = chkNum[q]
        /\ \A q \in Active : pc[q] \in BarrierPcs
    BY <1>13 DEF Barrier, disk
  <2>2. \A q \in Rank : pc'[q] # "batch" /\ (HasFile(q)' => pc[q] = "closed")
    BY <1>1, <2>1 DEF AfterBarrier, BarrierPcs
  <2> QED BY <2>1, <2>2, TrialFrame DEF OwnFile
<1>14. CASE DeleteUnreadable  BY <1>14, DeleteEffect, TrialAside
<1>15. CASE UNCHANGED vars  BY <1>15, TrialFrame DEF vars, disk, OwnFile
<1> QED BY <1>2, <1>3, <1>4, <1>5, <1>6, <1>7, <1>8, <1>9, <1>10, <1>11, <1>12, <1>13, <1>14,
     <1>15, TrialOpen, TrialNext, TrialWrites
  DEF Next, RankStep, Open, Trial, Save, Collective, Finalize, Outside, Crash, Finished

=============================================================================
