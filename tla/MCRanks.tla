------------------------------- MODULE MCRanks -------------------------------
(***************************************************************************)
(* The instance of the ranks run: sessions on any of the rank counts, with *)
(* the faults of the cfg, and one bound on the trials that throw.          *)
(***************************************************************************)
EXTENDS RunInvariant
LOCAL INSTANCE TLC

\* The threads of a rank are interchangeable.
ThreadSymmetry == Permutations(Thread)

\* Bound: trials throw in the second session only, on one rank that meets no
\* other fault, and a run restarted after that is on one rank.
TrialsThrowAlone ==
  \A r \in Rank :
    /\ failed'[r] => size' = 1 /\ sessions' = 2 /\ ~sigterm'[r]
    /\ failed[r] => outcome' # "crash"
    /\ outcome = "error" => size' # 2
=============================================================================
