---------------------------- MODULE MCLedgerRoles ----------------------------
(***************************************************************************)
(* Roles, keys, stakes and penalties, from a network past its launch:      *)
(* the admin a1 at the bootstrap key, a2 whitelisted and a3 a plain reader, *)
(* both funded.  This state is reached by AddAdmin, AppendWhitelist(a2)    *)
(* and two balance initializations.                                        *)
(***************************************************************************)
EXTENDS LedgerProperties, WriterScan

CONSTANTS a1, a2, a3, k0, k1, k2

\* The order of the keys' bytes: the admin's key is in the middle.
MCKeyOrder == <<k1, k0, k2>>

\* The hashes are interchangeable: with Tx = 1 .. n it is enough to use them in order.
HashesInOrder == applied = 1 .. Cardinality(applied)

EstablishedInit ==
  /\ admin = [addr |-> a1, wk |-> Bootstrap]
  /\ initialization = "enabled"
  /\ node = [a \in Address |->
       CASE a = a1 -> [role |-> "INDEXER", wk |-> Bootstrap, balance |-> AdminBalance,
                       license |-> 1, staked |-> Stake]
         [] a = a2 -> [role |-> "WHITELISTED", wk |-> ZeroKey, balance |-> 100,
                       license |-> 2, staked |-> 0]
         [] OTHER  -> [NoEntry EXCEPT !.role = "READER", !.balance = 100]]
  /\ owner = [k \in Key |-> IF k = Bootstrap THEN a1 ELSE NoAddress]
  /\ writersIndex = <<a1>>
  /\ licenses = <<a1, a2>>
  /\ deployment = [s \in Subnet |-> NoAddress]
  /\ applied = {}
  /\ writers = {Bootstrap}
  /\ indexers = {Bootstrap}
  /\ batch = Idle
  /\ halted = FALSE

\* The same network after a2 became a writer at k1 and then an indexer
TwoIndexersInit ==
  /\ admin = [addr |-> a1, wk |-> Bootstrap]
  /\ initialization = "enabled"
  /\ node = [a \in Address |->
       CASE a = a1 -> [role |-> "INDEXER", wk |-> Bootstrap,
                       balance |-> AdminBalance + Share(75) - Fee,
                       license |-> 1, staked |-> Stake]
         [] a = a2 -> [role |-> "INDEXER", wk |-> k1, balance |-> 100 - Fee - Stake,
                       license |-> 2, staked |-> Stake]
         [] OTHER  -> [NoEntry EXCEPT !.role = "READER", !.balance = 100]]
  /\ owner = [k \in Key |-> CASE k = Bootstrap -> a1 [] k = k1 -> a2 [] OTHER -> NoAddress]
  /\ writersIndex = <<a1, a2>>
  /\ licenses = <<a1, a2>>
  /\ deployment = [s \in Subnet |-> NoAddress]
  /\ applied = {}
  /\ writers = {Bootstrap, k1}
  /\ indexers = {Bootstrap, k1}
  /\ batch = Idle
  /\ halted = FALSE

TwoIndexersSpec == TwoIndexersInit /\ [][Next]_vars

EstablishedSpec == EstablishedInit /\ [][Next]_vars
=============================================================================
