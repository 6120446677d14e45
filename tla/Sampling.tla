------------------------------ MODULE Sampling -------------------------------
(***************************************************************************)
(* PDF::drawTarget under each sampling policy: random values are drawn     *)
(* until their total is about a target, one at a time by the stop          *)
(* policies, in batches by the others.  The values are whole numbers from  *)
(* a small set, and what a draw gives is any of them.                      *)
(***************************************************************************)
EXTENDS Integers, FiniteSetsExt, SequencesExt

CONSTANTS
  Methods,      \* the policies, members of SamplingMethods
  Ranges,       \* what a range asked for may hold: the values a draw may give, each as likely
  Targets,      \* the targets asked for, above zero
  MostPoisson   \* bound on the number a Poisson draw gives

SamplingMethods == {"stopNearest", "stopBefore", "stopAfter", "stop50", "number", "poisson", "sorted", "none"}
StopMethods == {"stopNearest", "stopBefore", "stopAfter", "stop50"}

VARIABLES
  method, target,
  values,       \* the values between a and b
  draws,        \* what has been drawn, in order; to state properties
  samples,      \* sample, samples
  result        \* "drawing", "returned" or "thrown"

asked == <<method, target, values>>
vars == <<method, target, values, draws, samples, result>>

Total(s) == FoldLeft(LAMBDA x, y : x + y, 0, s)
Size(n) == IF n < 0 THEN -n ELSE n

\* std::round(amount / expectationValue(a, b)), amount not negative; the mean is MeanNum / MeanDen
MeanNum == SumSet(values)
MeanDen == Cardinality(values)
Expected(amount) == (2 * amount * MeanDen + MeanNum) \div (2 * MeanNum)
\* draw(n, a, b)
Batches(n) == [1 .. n -> values]

Done(s) == samples' = s /\ result' = "returned" /\ UNCHANGED asked

-----------------------------------------------------------------------------
\* a >= b, or no probability between them
DrawNothing ==
  /\ result = "drawing" /\ draws = << >> /\ values = {}
  /\ Done(<< >>) /\ UNCHANGED draws

\* Seeded fault: the distance from the target is taken without the sample so far
KeepsWithoutTotal(s) ==
  \/ method = "stopNearest" /\ s - target < target - Total(samples)
  \/ method = "stopAfter"

\* One more draw of a stop policy; the draw that passes the target may be kept.
Keeps(s) ==
  \/ method = "stopNearest" /\ s + Total(samples) - target < target - Total(samples)
  \/ method = "stopAfter"
StopDraw(s) ==
  /\ result = "drawing" /\ method \in StopMethods
  /\ draws' = Append(draws, s)
  /\ IF Total(samples) + s <= target
     THEN samples' = Append(samples, s) /\ UNCHANGED <<asked, result>>
     ELSE IF method = "stop50" THEN Done(samples) \/ Done(Append(samples, s))
     ELSE Done(IF Keeps(s) THEN Append(samples, s) ELSE samples)

NumberDraw ==
  /\ result = "drawing" /\ method = "number" /\ values # {}
  /\ \E batch \in Batches(Expected(target)) : draws' = batch /\ Done(batch)

PoissonDraw ==
  /\ result = "drawing" /\ method = "poisson" /\ values # {}
  /\ \E n \in 0 .. MostPoisson : \E batch \in Batches(n) : draws' = batch /\ Done(batch)

\* A batch of the sorted policy.  The vector is first made longer by the batch's size,
\* and the batch is then put after its end.
Lengthened(s, batch) == s \o [i \in DOMAIN batch |-> 0] \o batch
SortedDraw ==
  /\ result = "drawing" /\ method = "sorted" /\ values # {} /\ Total(draws) < target
  /\ \E batch \in Batches(Expected(target - Total(draws))) :
       draws' = draws \o batch /\ samples' = Lengthened(samples, batch)
  /\ UNCHANGED <<asked, result>>

\* The target is reached: the largest goes if the total is nearer without it.
DropsLargest(sorted, sum) == Size(target - (sum - Last(sorted))) < Size(target - sum)
SortedDone ==
  /\ result = "drawing" /\ method = "sorted" /\ values # {} /\ Total(draws) >= target
  /\ LET sorted == SortSeq(samples, <)
     IN Done(IF DropsLargest(sorted, Total(draws)) THEN Front(sorted) ELSE sorted)
  /\ UNCHANGED draws

NoMethod ==
  /\ result = "drawing" /\ method = "none" /\ values # {}
  /\ result' = "thrown" /\ UNCHANGED <<asked, draws, samples>>

-----------------------------------------------------------------------------
Init ==
  /\ method \in Methods /\ target \in Targets /\ values \in Ranges
  /\ draws = << >> /\ samples = << >> /\ result = "drawing"

Returned == result # "drawing" /\ UNCHANGED vars

Next ==
  \/ DrawNothing \/ (\E s \in values : StopDraw(s))
  \/ NumberDraw \/ PoissonDraw \/ SortedDraw \/ SortedDone \/ NoMethod
  \/ Returned

Spec == Init /\ [][Next]_vars

-----------------------------------------------------------------------------
\* Whatever was drawn, the total of the sample is what the policy promises: not above the
\* target by one, the first above it by another, the nearest to it by a third, which is
\* never off by more than half of the draw it hangs on; sorted sampling's is as near with
\* its largest as without it (PDF::drawTarget).
PolicyKept ==
  result = "returned" /\ values # {} =>
    LET all == Total(draws) got == Total(samples) last == Last(draws) largest == Max(ToSet(draws))
    IN /\ method \in StopMethods => all > target /\ all - last <= target /\ got \in {all, all - last}
       /\ method = "stopBefore" => got <= target
       /\ method = "stopAfter" => got > target
       /\ method = "stopNearest" => 2 * Size(got - target) <= last
       /\ method = "sorted" => all >= target /\ got \in {all, all - largest}
                               /\ Size(got - target) <= Min({Size(all - target), Size(all - largest - target)})
       /\ method = "number" => Size(Len(samples) * MeanNum - target * MeanDen) * 2 <= MeanNum
=============================================================================
