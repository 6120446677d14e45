------------------------------- MODULE Yields --------------------------------
(***************************************************************************)
(* The yield channels of a simulation, brought to one list of isotopes     *)
(* (yields::Yields), as a script changes, rebuilds and queries them.       *)
(***************************************************************************)
EXTENDS YieldChannel

CONSTANTS
  Descriptors,  \* the channels that may be made
  Lists,        \* the isotopes that may be asked for; {} asks for all
  Particles,    \* what a decay emits, the proton and the alpha particle
  Lifetimes,    \* the values minIsotopeLifetime may be given
  FehRange,     \* [lo, hi]: the simulation's metallicities
  Installed,    \* whether these are the simulation's own yields
  Bounds,       \* the masses, as sets of one or none, a channel may be rebuilt between
  AskedMasses, AskedFeh, \* the masses and metallicities asked for
  MaxChannels   \* bound

VARIABLES
  channels,     \* yieldChannels_
  isotopes,     \* isotopes_
  skipped,      \* skippedIsotopes_
  requested,    \* requestedIsotopes_
  chain,        \* decayChain_
  minLifetime,  \* minIsotopeLifetime_: what lives shorter is skipped
  grid          \* how the last rebuild went and whether a channel changed since:
                \* "built", "failed" or "changed"; to state properties

vars == <<channels, isotopes, skipped, requested, chain, minLifetime, grid>>

-----------------------------------------------------------------------------
(* rebuildYieldGrid                                                        *)

\* All that any channel tabulates, and what it decays into (forceExpandDecayChain).
Full(list) == WithProducts(UNION {IsotopesOrig(list[k]) : k \in DOMAIN list}, {})
ShortLived(full, life) == {i \in full : ~Stable(i) /\ Lifetime[i] < life}

\* restrictToRequested.  Parents are kept for what they become, not for the particles
\* they emit, which are stable.
WithParents(all, keep, skip) == keep \cup {i \in all : (Products(i, skip) \ Particles) \cap keep # {}}
Restricted(all, wanted, skip) == WithProducts(WithParents(all, all \cap wanted, skip), skip) \cap all
Kept(full, wanted, skip) == IF wanted = {} THEN full \ skip ELSE Restricted(full \ skip, wanted, skip)

\* The channels before the first that cannot be rebuilt are.
FirstRefused(list) ==
  Min({Len(list) + 1} \cup {k \in DOMAIN list : ~CanRebuild(list[k], list[k].desc.mMin, list[k].desc.mMax)})
Pushed(list, kept, skip) ==
  [k \in DOMAIN list |->
     IF k < FirstRefused(list) THEN Rebuilt(list[k], list[k].desc.mMin, list[k].desc.mMax, kept, skip) ELSE list[k]]

\* Whether a rebuild goes through; it throws if nothing is kept, or part way if a channel,
\* or in the end the decay chain, cannot be built.
Nothing(list, wanted, life) == wanted # {} /\ Kept(Full(list), wanted, ShortLived(Full(list), life)) = {}
Succeeds(list, wanted, life) ==
  LET skip == ShortLived(Full(list), life)
  IN /\ ~Nothing(list, wanted, life) /\ FirstRefused(list) > Len(list)
     /\ ChainClosed(Kept(Full(list), wanted, skip), skip)

RebuildOf(list, wanted, life) ==
  \E full \in {Full(list)} : \E skip \in {ShortLived(full, life)} : \E kept \in {Kept(full, wanted, skip)} :
    /\ isotopes' = kept /\ skipped' = skip /\ requested' = wanted /\ minLifetime' = life
    /\ channels' = IF Nothing(list, wanted, life) THEN list ELSE Pushed(list, kept, skip)
    /\ IF Succeeds(list, wanted, life) THEN chain' = Chain(kept, skip) /\ grid' = "built"
       ELSE grid' = "failed" /\ UNCHANGED chain

RebuildYieldGrid(wanted) == RebuildOf(channels, wanted, minLifetime)

\* SimControls::setMinIsotopeLifetime: the old one again if the new one fails.
SetMinIsotopeLifetime(life) ==
  RebuildOf(channels, requested, IF Succeeds(channels, requested, life) THEN life ELSE minLifetime)

-----------------------------------------------------------------------------
(* Channels come and go; each time all is rebuilt, with nothing requested. *)

\* checkInstalledCoverage, of the range that would be covered
Covers(list) == \A k \in DOMAIN list : list[k].desc.lo <= FehRange.lo /\ FehRange.hi <= list[k].desc.hi
SetTo(list) == Len(list) <= MaxChannels /\ RebuildOf(list, {}, minLifetime)

OverSimulation(desc) == [desc EXCEPT !.lo = FehRange.lo, !.hi = FehRange.hi]

\* addChannel of a descriptor, read for the simulation's metallicities
AddChannel(desc) ==
  /\ CanRead(OverSimulation(desc))
  /\ SetTo(Append(channels, NewChannel(OverSimulation(desc))))

\* addChannel of a channel made by the caller
AddMadeChannel(desc) ==
  /\ CanRead(desc)
  /\ Installed => Covers(Append(channels, NewChannel(desc)))
  /\ SetTo(Append(channels, NewChannel(desc)))

DeleteChannel(k) == SetTo(SubSeq(channels, 1, k - 1) \o SubSeq(channels, k + 1, Len(channels)))

\* setChannels, of one channel
SetChannels(desc) ==
  /\ CanRead(desc)
  /\ Installed => Covers(<<NewChannel(desc)>>)
  /\ SetTo(<<NewChannel(desc)>>)

\* A channel's own rebuildYieldGrid, which the Yields does not hear of.
RebuildChannel(k, lo, hi) ==
  /\ CanRebuild(channels[k], lo, hi)
  /\ channels' = [channels EXCEPT ![k] = Rebuilt(@, lo, hi, {}, {})]
  /\ grid' = "changed"
  /\ UNCHANGED <<isotopes, skipped, requested, chain, minLifetime>>

-----------------------------------------------------------------------------
Has(ch, mass, feh) == HasMass(ch, mass) /\ HasFeH(ch, feh)

\* yield, yieldSum: each channel that has the mass and the metallicity is asked.
Asks(t, mass, feh) ==
  /\ grid = "built"
  /\ channels' = [k \in DOMAIN channels |->
       IF Has(channels[k], mass, feh) THEN Asked(channels[k], t, mass, feh) ELSE channels[k]]
  /\ UNCHANGED <<isotopes, skipped, requested, chain, minLifetime, grid>>

\* The sum over the channels.
YieldSum(t, mass, feh) ==
  LET has == {k \in DOMAIN channels : Has(channels[k], mass, feh)}
  IN [i \in isotopes |-> Sum(has, [k \in has |-> YieldOf(channels[k], t, mass, feh)[i]])]

-----------------------------------------------------------------------------
\* The constructor with an input deck that names no channel; with one, it adds as
\* AddChannel does.
Init ==
  /\ channels = << >> /\ isotopes = {} /\ skipped = {} /\ requested = {}
  /\ chain = Chain({}, {}) /\ minLifetime \in Lifetimes
  /\ grid = "built"

Next ==
  \/ \E wanted \in Lists : RebuildYieldGrid(wanted)
  \/ \E life \in Lifetimes : SetMinIsotopeLifetime(life)
  \/ \E desc \in Descriptors : AddChannel(desc) \/ AddMadeChannel(desc) \/ SetChannels(desc)
  \/ \E k \in DOMAIN channels : DeleteChannel(k)
  \/ \E k \in DOMAIN channels, lo, hi \in Bounds : RebuildChannel(k, lo, hi)
  \/ \E t \in Threads, mass \in AskedMasses, feh \in AskedFeh : Asks(t, mass, feh)

Spec == Init /\ [][Next]_vars
=============================================================================
