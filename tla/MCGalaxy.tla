------------------------------- MODULE MCGalaxy -------------------------------
(* Instances of Galaxy for TLC. *)
EXTENDS Galaxy

\* Mass 3 dies before mass 4: lifetimes need not fall with mass.
MCLifetime == (2 :> 3 @@ 3 :> 1 @@ 4 :> 2 @@ 5 :> 1)

\* The controls of five kinds of decks.
MCControls ==
  {[specsyn |-> TRUE, filters |-> TRUE, computeLbol |-> TRUE, nebular |-> TRUE, extinct |-> TRUE,
    yields |-> TRUE, noDecay |-> FALSE, clf |-> TRUE, sfrDist |-> TRUE, fCluster |-> 1, minStoch |-> 3],
   [specsyn |-> TRUE, filters |-> TRUE, computeLbol |-> TRUE, nebular |-> FALSE, extinct |-> FALSE,
    yields |-> TRUE, noDecay |-> TRUE, clf |-> FALSE, sfrDist |-> FALSE, fCluster |-> 0, minStoch |-> 4],
   [specsyn |-> FALSE, filters |-> FALSE, computeLbol |-> TRUE, nebular |-> FALSE, extinct |-> FALSE,
    yields |-> TRUE, noDecay |-> FALSE, clf |-> TRUE, sfrDist |-> FALSE, fCluster |-> 1, minStoch |-> 6],
   [specsyn |-> TRUE, filters |-> FALSE, computeLbol |-> FALSE, nebular |-> TRUE, extinct |-> TRUE,
    yields |-> FALSE, noDecay |-> FALSE, clf |-> TRUE, sfrDist |-> TRUE, fCluster |-> 1, minStoch |-> 1],
   [specsyn |-> FALSE, filters |-> FALSE, computeLbol |-> TRUE, nebular |-> FALSE, extinct |-> FALSE,
    yields |-> TRUE, noDecay |-> TRUE, clf |-> TRUE, sfrDist |-> FALSE, fCluster |-> 2, minStoch |-> 3]}

\* Seeds: numbers a generator could deliver.
MCTapes == {[i \in 1 .. 13 |-> (a * i * i + b * i + c) % 7] : a \in {2}, b \in {1, 3}, c \in {4}}

=============================================================================
