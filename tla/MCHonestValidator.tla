-------------------------- MODULE MCHonestValidator --------------------------
(***************************************************************************)
(* The admin a1, the honest validator a2 at the key k1, and a node a3 that *)
(* is whitelisted, or already a writer at k2 besides, with or without a    *)
(* subnetwork that a1 deployed.  These states are reached by AddAdmin, two *)
(* AppendWhitelist, two balance initializations, an AddWriter of a2 in the *)
(* admin's batch, a BootstrapDeployment and an AddWriter of a3 in a2's.    *)
(***************************************************************************)
EXTENDS Requester, TLC

CONSTANTS a1, a2, a3, k1, k2

\* Hashes are interchangeable here: no property orders them.
Symmetry == Permutations(Tx)

\* Bound: two operations succeed at most, and nothing is looked at after the
\* second of them.
OneSuccess == Cardinality(applied) <= 1

EstablishedHonestInit ==
  \E joined, deployed \in BOOLEAN :
    /\ admin = [addr |-> a1, wk |-> Bootstrap]
    /\ initialization = "enabled"
    /\ node = [a \in Address |->
         CASE a = a1 -> [role |-> "INDEXER", wk |-> Bootstrap,
                         balance |-> AdminBalance, license |-> 1, staked |-> Stake]
           [] a = a2 -> [role |-> "WRITER", wk |-> k1, balance |-> 60,
                         license |-> 2, staked |-> Stake]
           [] OTHER  -> [role |-> IF joined THEN "WRITER" ELSE "WHITELISTED",
                         wk |-> IF joined THEN k2 ELSE ZeroKey, balance |-> 50,
                         license |-> 3, staked |-> IF joined THEN Stake ELSE 0]]
    /\ owner = [k \in Key |-> CASE k = Bootstrap -> a1 [] k = k1 -> a2
                                [] OTHER -> IF joined THEN a3 ELSE NoAddress]
    /\ writersIndex = IF joined THEN <<a1, a2, a3>> ELSE <<a1, a2>>
    /\ licenses = <<a1, a2, a3>>
    /\ deployment = [s \in Subnet |-> IF deployed THEN a1 ELSE NoAddress]
    /\ applied = {}
    /\ writers = {Bootstrap, k1} \union (IF joined THEN {k2} ELSE {})
    /\ indexers = {Bootstrap}
    /\ batch = Idle
    /\ halted = FALSE
    /\ accepted = {}
    /\ signed = View

EstablishedHonestSpec == EstablishedHonestInit /\ [][HonestNext]_hvars
=============================================================================
