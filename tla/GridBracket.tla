---------------------------- MODULE GridBracket -----------------------------
(***************************************************************************)
(* Between which points of a grid a value is (utils::findBracket), searched *)
(* from where the last one was found, and the straight line between what   *)
(* is tabulated there.  Places in the grid are counted from 0.             *)
(***************************************************************************)
EXTENDS Integers, FiniteSetsExt, SequencesExt

\* bracketSearch between lo and hi
BracketSearch(grid, v, lo, hi) ==
  LET top == Min({hi} \cup {k \in lo + 1 .. hi - 1 : v <= grid[k + 1]})
  IN IF v = grid[top + 1] THEN top ELSE Max({lo, top - 1})

Found(grid, v, cache) ==
  IF v < grid[cache + 1] THEN BracketSearch(grid, v, 0, cache)
  ELSE IF v >= grid[cache + 2] THEN BracketSearch(grid, v, cache, Len(grid) - 1)
  ELSE cache

\* The last point of a grid begins no bracket.
BracketAt(grid, found) ==
  LET k == Min({found, Len(grid) - 2}) IN [lo |-> k, hi |-> k + 1, cache |-> k]

\* [lo, hi, cache]
FindBracket(grid, v, cache) ==
  IF Len(grid) = 1 THEN [lo |-> 0, hi |-> 0, cache |-> cache] ELSE BracketAt(grid, Found(grid, v, cache))

\* t of a bracket: part of width of the way from lo to hi, held between them.
Width(grid, b) == IF b.lo = b.hi THEN 1 ELSE grid[b.hi + 1] - grid[b.lo + 1]
Part(grid, v, b) == IF b.lo = b.hi THEN 0 ELSE Max({0, Min({Width(grid, b), v - grid[b.lo + 1]})})
Blend(grid, v, b, atLo, atHi) ==
  ((Width(grid, b) - Part(grid, v, b)) * atLo + Part(grid, v, b) * atHi) \div Width(grid, b)
=============================================================================
