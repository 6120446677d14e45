----------------------------- MODULE TrialLedger -----------------------------
(***************************************************************************)
(* What checkpointing promises, without ranks, files or crashes: a ledger  *)
(* of the trials a restart would count as done.  It only grows, by trials  *)
(* with numbers never used before, and stops at the number asked for.      *)
(***************************************************************************)
EXTENDS Integers, FiniteSets

CONSTANT NTrial

VARIABLE ledger   \* the numbers of the trials recorded as done

Init == ledger = {}

\* A checkpoint becomes readable, and the trials that are new in it count.
Record ==
  LET new == ledger' \ ledger IN
  /\ ledger \subseteq ledger'
  /\ new \subseteq Nat
  /\ \A n \in new, old \in ledger : n > old
  /\ Cardinality(ledger') <= NTrial

Spec == Init /\ [][Record]_ledger
=============================================================================
