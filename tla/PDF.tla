--------------------------------- MODULE PDF ---------------------------------
(***************************************************************************)
(* Draws from probability distributions (pdfs::PDF), as reads of the       *)
(* random numbers a thread's generator delivers.  The generator is a tape  *)
(* of numbers read at a position, and its saved state is the position: two *)
(* runs from one state read the same numbers.  Every distribution is flat  *)
(* over a range of integers, and a draw reads one number.                  *)
(***************************************************************************)
EXTENDS Integers, SequencesExt

CONSTANT Tapes    \* what a generator may deliver

ASSUME TapeAssumption == Tapes \subseteq Seq(Nat) \ {<<>>}

VARIABLE tape     \* what the generator delivers: the seed, fixed for a run

\* PDF::draw over lo .. hi, with the generator in state p.
DrawAt(p, lo, hi) == lo + (tape[(p % Len(tape)) + 1] % (hi - lo + 1))

Draws(p, n, lo, hi) == [i \in 1 .. n |-> DrawAt(p + i - 1, lo, hi)]

Total(s) ==
  LET upTo[n \in 0 .. Len(s)] == IF n = 0 THEN 0 ELSE upTo[n - 1] + s[n] IN upTo[Len(s)]

\* The number of draws after which their total first exceeds target.
Overshoot(p, target, lo, hi) ==
  CHOOSE n \in 1 .. target + 1 :
    /\ Total(Draws(p, n - 1, lo, hi)) <= target
    /\ Total(Draws(p, n, lo, hi)) > target

\* PDF::drawTarget with the default policy, stop_nearest: the draw that passes
\* the target is kept if that brings the total nearer to it.  Nothing is drawn
\* over an empty range; otherwise at least one number is read, even for 0.
DrawTarget(p, target, lo, hi) ==
  IF lo > hi THEN [sample |-> << >>, next |-> p]
  ELSE LET n == Overshoot(p, target, lo, hi)
           before == Draws(p, n - 1, lo, hi)
           after == Draws(p, n, lo, hi)
           keep == Total(after) - target < target - Total(before)
       IN [sample |-> IF keep THEN after ELSE before, next |-> p + n]
=============================================================================
