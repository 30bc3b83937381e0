----------------------------- MODULE MCAdminNode -----------------------------
(***************************************************************************)
(* The machine of the admin a1 at the bootstrap key, a validator a2 at k1, *)
(* and two addresses a3, a4 without an entry: the network after AddAdmin,  *)
(* an AppendWhitelist and a balance initialization of a2 from another      *)
(* directory, and an AddWriter of a2 in the admin's batch.  The launch of  *)
(* the network, with an empty ledger, is a second initial state.           *)
(***************************************************************************)
EXTENDS AdminNode, TLC

CONSTANTS a1, a2, a3, a4, k1

Symmetry == Permutations({a3, a4})

\* Bound: once the admin works from another machine and the commands here are
\* at the prompt, this machine appends nothing any more.
InUse == ~HasAdmin \/ admin.wk = OwnKey \/ \E l \in Line : command[l] # Prompt

EstablishedAdminInit ==
  /\ admin = [addr |-> a1, wk |-> Bootstrap]
  /\ initialization = "enabled"
  /\ node = [a \in Address |->
       CASE a = a1 -> [role |-> "INDEXER", wk |-> Bootstrap,
                       balance |-> AdminBalance, license |-> 1, staked |-> Stake]
         [] a = a2 -> [role |-> "WRITER", wk |-> k1, balance |-> 60,
                       license |-> 2, staked |-> Stake]
         [] OTHER  -> NoEntry]
  /\ owner = [k \in Key |-> CASE k = Bootstrap -> a1 [] k = k1 -> a2 [] OTHER -> NoAddress]
  /\ writersIndex = <<a1, a2>>
  /\ licenses = <<a1, a2>>
  /\ deployment = [s \in Subnet |-> NoAddress]
  /\ applied = {}
  /\ writers = {Bootstrap, k1}
  /\ indexers = {Bootstrap}
  /\ batch = Idle
  /\ halted = FALSE
  /\ AdminNodeInit([d \in Directory |-> IF d = "appendWhitelist" THEN <<{a2}>> ELSE <<>>])

LaunchInit == Init /\ AdminNodeInit([d \in Directory |-> <<>>])

EstablishedAdminSpec == (LaunchInit \/ EstablishedAdminInit) /\ [][AdminNodeNext]_avars
=============================================================================
