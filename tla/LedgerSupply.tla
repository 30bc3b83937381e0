---------------------------- MODULE LedgerSupply ----------------------------
(***************************************************************************)
(* The money of Ledger, and the refinement of Supply.                      *)
(***************************************************************************)
EXTENDS Ledger, Functions

\* The money can be added up: a network has finitely many addresses.
ASSUME FinitenessAssumption == IsFiniteSet(Address)

\* What each address holds, in its balance and in its stake
Holdings(nd) == [a \in Address |-> nd[a].balance + nd[a].staked]

TotalSupply == SumFunction(Holdings(node))

\* What an operation or a penalty may burn, per docs/fee_distribution.md: a
\* quarter, a half or all of the fee, or a penalty of up to the whole stake.
FeeBurns == {Fee - Share(75), Fee - Share(50), Fee - Share(50) - Share(25), Fee}
PenaltyBurns == {Stake - LeftOfStake([NoEntry EXCEPT !.staked = Stake], n) :
                   n \in 1 .. MaxBatch}

Money == INSTANCE Supply WITH
  phase    <- initialization,
  supply   <- TotalSupply,
  Launched <- AdminBalance + Stake,
  Burns    <- FeeBurns \union PenaltyBurns

\* Every handler pays out exactly what it takes in, less the burn of the fee
\* table, and only a balance initialization before it is disabled adds money.
ImplementsSupply == Money!Spec

\* #transfer can only throw on the null that Balance.add answers when there
\* is more money in circulation than a balance can hold.
HaltsOnlyOnInflation == halted => TotalSupply > MaxBalance
=============================================================================
