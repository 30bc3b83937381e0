-------------------------- MODULE LedgerProperties --------------------------
(***************************************************************************)
(* What the replicated state machine of Ledger promises.                   *)
(***************************************************************************)
EXTENDS Ledger

\* Exactly the writers and indexers have a stake, and it is exactly ten fees:
\* #stakeBalanceApply, #withdrawStakedBalanceApply and #validatorPenaltyApply
\* leave no stake behind on a node that lost its role, and none is missing.
StakeMatchesRole ==
  \A a \in Address : node[a].staked = IF IsWriter(a) THEN Stake ELSE 0

\* The key in a node entry is registered to that very address, so no two
\* nodes share a key: the two cases of the writer key validation in
\* #addWriter, and the fresh key of an admin recovery, are enough for it.
KeysBelongToNodes ==
  \A a \in Address : node[a].wk # ZeroKey => owner[node[a].wk] = a

\* Autobase applies the batches of exactly the keys of nodes whose role is
\* WRITER or INDEXER: base.addWriter and base.removeWriter go hand in hand
\* with the roles that the handlers write, whatever the order of operations.
WritersAreValidators ==
  HasAdmin =>
    /\ \A k \in writers : /\ owner[k] # NoAddress
                          /\ node[owner[k]].wk = k
                          /\ IsWriter(owner[k])
    /\ \A a \in Address : IsWriter(a) => node[a].wk \in writers

\* The admin can never lose the role and the key its operations depend on:
\* no ban, removal, penalty or recovery separates the admin entry from the
\* admin's node entry.
AdminStaysInOffice ==
  HasAdmin => /\ node[admin.addr].role = "INDEXER"
              /\ node[admin.addr].wk = admin.wk
              /\ admin.wk \in writers

\* Every key that takes part in consensus belongs to a node with that role.
IndexersAreRecorded ==
  HasAdmin => \A k \in indexers : owner[k] # NoAddress /\ IsIndexer(owner[k])

\* Whatever the order of operations, the base and the entries agree on who
\* writes, and the base has no indexer the entries do not know of.
MembershipMatchesRoles == WritersAreValidators /\ IndexersAreRecorded

\* Licence n is held by exactly the address it was issued to, and an address
\* never gets a second one, however often it is banned and whitelisted again.
LicensesMatchEntries ==
  /\ \A n \in DOMAIN licenses : node[licenses[n]].license = n
  /\ \A a \in Address : node[a].license # 0 =>
       node[a].license \in DOMAIN licenses /\ licenses[node[a].license] = a

\* A validator search that walks the writers index finds every writer.
WritersAreIndexed ==
  \A a \in Address : IsWriter(a) => \E i \in DOMAIN writersIndex : writersIndex[i] = a

\* What is looked up by number leads to the entries, and back.
IndexesMatchEntries == LicensesMatchEntries /\ WritersAreIndexed

\* A writing key, once registered, is never anybody else's again, and the
\* node that holds it can only move on to a key nobody had before.
KeyOwnershipIsPermanent ==
  [][/\ \A k \in Key : owner[k] # NoAddress => owner'[k] = owner[k]
     /\ \A a \in Address :
          node'[a].wk # node[a].wk => owner[node'[a].wk] = NoAddress]_vars

\* A reader, banned or new, gets back in only as a whitelisted node and only
\* through the admin's own batch: no penalty and no late operation of a
\* banned writer restores a role.
OnlyAdminLiftsBan ==
  [][\A a \in Address :
       /\ node[a].role = "READER"
       /\ node'[a].role # "READER"
       => /\ batch.from = admin.wk
          /\ node'[a].role = "WHITELISTED"]_vars

\* A batch with invalid operations costs its writer the whole role: unless it
\* is the admin's, or the remaining stake does not fit in the balance, the key
\* leaves the base and the stake is gone.  #validatorPenaltyApply says of its
\* early returns that in theory none of them should occur.
PenaltyAlwaysLands ==
  [][/\ Open /\ batch.invalid > 0 /\ batch' = Idle
     /\ HasAdmin /\ batch.from # admin.wk
     => \E a \in Address :
          /\ owner[batch.from] = a
          /\ \/ ~CanReceive(a, LeftOfStake(node[a], batch.invalid))
             \/ /\ batch.from \notin writers'
                /\ node[a].staked = Stake
                /\ node'[a].staked = 0
                /\ node'[a].role = "WHITELISTED"]_vars

-----------------------------------------------------------------------------
(* What the repository says and the code does not do *)

\* #removeIndexer says that it downgrades the role to writer and updates the
\* node entry and the indexers entry, so that a node entry with the role
\* INDEXER always stands for a key that takes part in consensus.  (A base
\* without any indexer is left out: Autobase decides what happens then.)
IndexerRoleMatchesBase ==
  HasAdmin /\ indexers # {} => \A a \in Address : IsIndexer(a) => node[a].wk \in indexers
=============================================================================
