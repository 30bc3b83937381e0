---------------------------- MODULE MCLedgerMoney ----------------------------
(***************************************************************************)
(* The ledger from its first batch, with balances close to the limit.      *)
(***************************************************************************)
EXTENDS LedgerSupply, LedgerProperties

\* The hashes are interchangeable: it is enough to use them in order.
HashesInOrder == applied = 1 .. Cardinality(applied)
=============================================================================
