------------------------------ MODULE MPIUtils ------------------------------
(***************************************************************************)
(* The contiguous split of a batch of trials over the ranks of an MPI job  *)
(* (src/utils/MPIUtils.hpp).  A range is the half-open [first, last).      *)
(***************************************************************************)
EXTENDS Integers

\* Trials every rank gets, and how many ranks get one more.
Base(total, size) == total \div size
Remainder(total, size) == total % size

Lesser(a, b) == IF a < b THEN a ELSE b

MyCount(rank, total, size) ==
  Base(total, size) + (IF rank < Remainder(total, size) THEN 1 ELSE 0)

\* Seeded fault: one trial too few is left to the ranks before this one.
PrecedingCountShort(rank, total, size) ==
  rank * Base(total, size) + Lesser(rank, Remainder(total, size)) - 1

PrecedingCount(rank, total, size) ==
  rank * Base(total, size) + Lesser(rank, Remainder(total, size))

RankFirst(rank, size, rangeStart, rangeEnd) ==
  rangeStart + PrecedingCount(rank, rangeEnd - rangeStart, size)

RankLast(rank, size, rangeStart, rangeEnd) ==
  RankFirst(rank, size, rangeStart, rangeEnd)
    + MyCount(rank, rangeEnd - rangeStart, size)

\* mpiPartitionRange as the set of trial numbers of one rank.
Slice(rank, size, rangeStart, rangeEnd) ==
  RankFirst(rank, size, rangeStart, rangeEnd)
    .. RankLast(rank, size, rangeStart, rangeEnd) - 1
=============================================================================
