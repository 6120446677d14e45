----------------------------- MODULE DecayChain ------------------------------
(***************************************************************************)
(* Radioactive decay (elem::IsotopeTable, elem::DecayChain).  Daughters[i] *)
(* lists the products of an unstable isotope, [to, share], a share being   *)
(* that many of Whole parts of the nuclei; a skipped isotope is one that   *)
(* is taken to decay at once.  The exponential of the depletion matrix is  *)
(* not computed: what it does is settled by who feeds whom.                *)
(***************************************************************************)
EXTENDS Integers, FiniteSetsExt, SequencesExt

CONSTANTS
  MassNumber,   \* A of each isotope of the table
  Lifetime,     \* of each unstable isotope
  Daughters,    \* of each unstable isotope
  Whole         \* the parts of a share

Stable(i) == i \notin DOMAIN Daughters

\* effectiveDaughters: in place of a skipped daughter, its own.
DaughtersThrough ==
  [skipped \in SUBSET DOMAIN Daughters |->
    LET through(d, list) == [k \in DOMAIN list |-> [list[k] EXCEPT !.share = (d.share * @) \div Whole]]
        of[i \in DOMAIN Daughters] ==
          FlattenSeq([k \in DOMAIN Daughters[i] |->
            LET d == Daughters[i][k] IN IF d.to \in skipped THEN through(d, of[d.to]) ELSE <<d>>])
    IN of]
EffectiveDaughters(parent, skipped) == IF Stable(parent) THEN << >> ELSE DaughtersThrough[skipped][parent]
FedBy ==
  [skipped \in SUBSET DOMAIN Daughters |->
    [i \in DOMAIN MassNumber |-> {d.to : d \in ToSet(EffectiveDaughters(i, skipped))}]]
Feeds(i, skipped) == FedBy[skipped][i]

\* All that an isotope comes to decay into.
ProductsOf ==
  [skipped \in SUBSET DOMAIN Daughters |->
    LET of[i \in DOMAIN MassNumber] == Feeds(i, skipped) \cup UNION {of[d] : d \in Feeds(i, skipped)}
    IN [i \in DOMAIN MassNumber |-> of[i]]]
Products(i, skipped) == ProductsOf[skipped][i]
WithProducts(S, skipped) == S \cup UNION {Products(i, skipped) : i \in S}

\* findRelevantIndices: the unstable isotopes, and what they decay into.
Relevant(isotopes, skipped) == WithProducts({i \in isotopes : ~Stable(i)}, skipped)

\* The constructor throws if what an isotope decays into has no place in the list.
ChainClosed(isotopes, skipped) == Relevant(isotopes, skipped) \subseteq isotopes

\* The depletion matrix: what of a parent's decays reaches a daughter.
Inflow(q, p, skipped) ==
  LET list == EffectiveDaughters(p, skipped)
  IN FoldLeft(LAMBDA sum, d : IF d.to = q THEN sum + d.share ELSE sum, 0, list)
Chain(isotopes, skipped) ==
  LET relevant == Relevant(isotopes, skipped)
  IN [over |-> isotopes, relevant |-> relevant,
      inflow |-> [p \in {i \in relevant : ~Stable(i)} |-> [q \in relevant |-> Inflow(q, p, skipped)]]]
=============================================================================
