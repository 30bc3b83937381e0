------------------------------- MODULE Ledger -------------------------------
(***************************************************************************)
(* The replicated state machine of the Main Settlement Bus: the function   *)
(* #apply of src/src/core/state/State.js, which every node runs over the   *)
(* same linearized sequence of batches.                                    *)
(*                                                                         *)
(* One call of #apply takes one batch, the nodes one writer appended       *)
(* together.  It is modelled as StartBatch, then one action per node of    *)
(* the batch (the thirteen operation handlers, or MalformedOperation),     *)
(* then EndBatch, which penalises the writer for the nodes that failed.    *)
(* Nothing else runs between the steps of a batch, and a later node of a   *)
(* batch reads what an earlier one wrote.                                  *)
(*                                                                         *)
(* Signatures, hashes and schemas are abstracted: an operation that gets   *)
(* as far as a handler here is well formed, signed by the requester r and  *)
(* (where the handler asks for it) co-signed by the validator v, and its   *)
(* txv is the hash of the current indexers.  Every operation that is not   *)
(* is a MalformedOperation.  A transaction hash is an opaque member of Tx. *)
(*                                                                         *)
(* A definition named Buggy... is the one after it with a plausible bug;   *)
(* no action uses it.  With it in place of the other, TLC finds one of the *)
(* properties of LedgerProperties or LedgerSupply violated.                *)
(***************************************************************************)
EXTENDS Integers, Sequences, FiniteSets

CONSTANTS
  Address,       \* network addresses
  Key,           \* writing keys (autobase writer cores)
  ZeroKey,       \* ZERO_WK: the entry of a node that never had a key
  NoAddress,     \* absence of an address
  Bootstrap,     \* config.bootstrap: the key of the network's first core
  Subnet,        \* subnetwork bootstraps, never the MSB's own
  Tx,            \* transaction hashes
  Amount,        \* amounts a transfer may carry
  Grant,         \* amounts a balance initialization may carry
  Fee,           \* FEE, 0.03 TNK
  AdminBalance,  \* ADMIN_INITIAL_BALANCE, 1000 TNK
  MaxBalance,    \* the largest 16 byte balance
  MaxBatch       \* BATCH_SIZE

ASSUME KeyAssumption == Bootstrap \in Key /\ ZeroKey \notin Key
ASSUME AddressAssumption == NoAddress \notin Address
ASSUME MoneyAssumption ==
  /\ Fee \in Nat \ {0}
  /\ AdminBalance \in Nat
  /\ MaxBalance \in Nat
  /\ AdminBalance <= MaxBalance
  /\ 10 * Fee <= MaxBalance
  /\ Amount \subseteq 0 .. MaxBalance
  /\ Grant \subseteq 1 .. MaxBalance
ASSUME BatchAssumption == MaxBatch \in Nat \ {0}

VARIABLES
  admin,           \* the 'admin' entry: address and writing key
  initialization,  \* the 'init' entry
  node,            \* node entries by address
  owner,           \* the 'wka/' registry: who first registered a writing key
  writersIndex,    \* 'wri/' with 'wrl': addresses in the order they were added
  licenses,        \* 'li/' with 'lc': licence n was issued to licenses[n]
  deployment,      \* 'deployment/': who deployed a subnetwork
  applied,         \* hashes of the operations stored so far
  writers,         \* autobase: keys whose batches are applied
  indexers,        \* autobase: keys that take part in consensus
  batch,           \* the batch being applied
  halted           \* an exception escaped #apply

ledger == <<admin, initialization, node, owner, writersIndex, licenses,
            deployment, applied, writers, indexers>>
vars == <<ledger, batch, halted>>

-----------------------------------------------------------------------------
(* Data *)

\* Roles are the bit masks of roles.js; ABSENT stands for no entry at all.
Role == {"ABSENT", "READER", "WHITELISTED", "WRITER", "INDEXER"}

NodeEntry == [role: Role, wk: Key \union {ZeroKey}, balance: 0 .. MaxBalance,
              license: Nat, staked: 0 .. MaxBalance]

NoEntry == [role |-> "ABSENT", wk |-> ZeroKey, balance |-> 0,
            license |-> 0, staked |-> 0]

\* BALANCE_TO_STAKE = FEE * 10
Stake == 10 * Fee

\* BALANCE_FEE.percentage(p): the product is divided by whole units
Share(percent) == (Fee * percent) \div 100

Exists(a) == node[a].role # "ABSENT"
\* the bits of a role: an indexer is a writer, a writer is whitelisted
IsWhitelisted(a) == node[a].role \in {"WHITELISTED", "WRITER", "INDEXER"}
IsWriter(a) == node[a].role \in {"WRITER", "INDEXER"}
IsIndexer(a) == node[a].role = "INDEXER"

HasAdmin == admin.addr # NoAddress

\* Balance.add answers null when the sum does not fit in 16 bytes
CanReceive(a, x) == node[a].balance + x <= MaxBalance

Idle == [from |-> ZeroKey, size |-> 0, invalid |-> 0]
Open == batch.from # ZeroKey

LedgerTypeOK ==
  /\ admin \in [addr: Address \union {NoAddress}, wk: Key \union {ZeroKey}]
  /\ initialization \in {"unset", "enabled", "disabled"}
  /\ node \in [Address -> NodeEntry]
  /\ owner \in [Key -> Address \union {NoAddress}]
  /\ writersIndex \in Seq(Address)
  /\ licenses \in Seq(Address)
  /\ deployment \in [Subnet -> Address \union {NoAddress}]
  /\ applied \in SUBSET Tx
  /\ writers \in SUBSET Key
  /\ indexers \in SUBSET Key

\* No batch counts more failures than it has nodes.
BatchTypeOK ==
  /\ batch \in [from: Key \union {ZeroKey}, size: 0 .. MaxBatch,
                invalid: 0 .. MaxBatch]
  /\ batch.invalid <= batch.size
  /\ halted \in BOOLEAN

TypeOK == LedgerTypeOK /\ BatchTypeOK

Init ==
  /\ admin = [addr |-> NoAddress, wk |-> ZeroKey]
  /\ initialization = "unset"
  /\ node = [a \in Address |-> NoEntry]
  /\ owner = [k \in Key |-> NoAddress]
  /\ writersIndex = <<>>
  /\ licenses = <<>>
  /\ deployment = [s \in Subnet |-> NoAddress]
  /\ applied = {}
  /\ writers = {Bootstrap}
  /\ indexers = {Bootstrap}
  /\ batch = Idle
  /\ halted = FALSE

-----------------------------------------------------------------------------
(* The autobase membership calls #apply makes *)

BuggyRemoveWriterKey(k) == writers' = writers /\ indexers' = indexers \ {k}

\* base.removeWriter(k)
RemoveWriterKey(k) ==
  /\ writers' = writers \ {k}
  /\ indexers' = indexers \ {k}

\* base.removeWriter(old) followed by base.addWriter(new, {indexer: true})
MoveIndexerKey(old, new) ==
  /\ writers' = (writers \ {old}) \union {new}
  /\ indexers' = (indexers \ {old}) \union {new}

BuggyDemoteIndexerKey(k) == writers' = writers \union {k} /\ UNCHANGED indexers

\* base.removeWriter(k) followed by base.addWriter(k, {isIndexer: false})
DemoteIndexerKey(k) ==
  /\ writers' = writers \union {k}
  /\ indexers' = indexers \ {k}

-----------------------------------------------------------------------------
(* One node of a batch *)

\* What #apply does with the status a handler returns: a failure is counted
\* against the batch, an ignored operation is not.
Count(status) ==
  batch' = [batch EXCEPT !.size = @ + 1,
                         !.invalid = IF status = "FAILURE" THEN @ + 1 ELSE @]

\* There is a further node in the batch.
NextNode == ~halted /\ Open /\ batch.size < MaxBatch

\* A handler that stores nothing
Refused(status) ==
  /\ NextNode
  /\ status # "SUCCESS"
  /\ Count(status)
  /\ UNCHANGED <<ledger, halted>>

\* A handler that succeeds also stores the operation under its hash.
Stored(tx, status) ==
  /\ NextNode
  /\ status = "SUCCESS"
  /\ Count(status)
  /\ applied' = applied \union {tx}
  /\ UNCHANGED halted

\* An oversized, undecodable or unknown payload, a bad schema, signature or
\* hash, or a txv that is not the hash of the current indexers
MalformedOperation == Refused("FAILURE")

\* #isAdminApply and the consistency check that follows it: the batch comes
\* from the admin's writing key and the admin signed the operation.
AdminRequest(r) == HasAdmin /\ admin.wk = batch.from /\ admin.addr = r

\* #isValidatorValidApply: the co-signer is an active writer, and this batch
\* comes from its writing key.
IsValidatorValid(v) == IsWriter(v) /\ node[v].wk = batch.from

\* A request co-signed by another address, which is a valid validator
Cosigned(r, v) == r # v /\ IsValidatorValid(v)

\* #stakeBalanceApply
StakeBalance(e) == [e EXCEPT !.balance = @ - Stake, !.staked = Stake]
CanStake(e) == e.balance >= Stake

BuggyWithdrawStake(e) == [e EXCEPT !.balance = @ + e.staked]

\* #withdrawStakedBalanceApply
WithdrawStake(e) == [e EXCEPT !.balance = @ + e.staked, !.staked = 0]
CanWithdraw(e) == e.staked > 0 /\ e.balance + e.staked <= MaxBalance

Credit(e, x) == [e EXCEPT !.balance = @ + x]
Debit(e, x) == [e EXCEPT !.balance = @ - x]

BuggyIndexWriter(a) == writersIndex' = [writersIndex EXCEPT ![Len(writersIndex)] = a]

\* #updateWritersIndex: the address goes to the next slot of 'wri/'.  A writer
\* that comes back is listed again, and nothing is ever taken out.
IndexWriter(a) == writersIndex' = Append(writersIndex, a)

-----------------------------------------------------------------------------
(* The admin's operations *)

\* Every operation of the admin checks the requester and the replay.
AdminStatus(tx, r, allowed) ==
  IF AdminRequest(r) /\ tx \notin applied /\ allowed THEN "SUCCESS" ELSE "FAILURE"

InitializeBalanceStatus(tx, r) ==
  AdminStatus(tx, r, initialization # "disabled")

\* amount.update(entry) writes the amount over the recipient's balance.
InitializeBalance(tx, r, to, amount) ==
  LET status == InitializeBalanceStatus(tx, r) IN
  \/ Refused(status)
  \/ /\ Stored(tx, status)
     /\ node' = [node EXCEPT ![to] =
          IF Exists(to) THEN [node[to] EXCEPT !.balance = amount]
                        ELSE [NoEntry EXCEPT !.role = "READER", !.balance = amount]]
     /\ UNCHANGED <<admin, initialization, owner, writersIndex, licenses,
                    deployment, writers, indexers>>

DisableInitialization(tx, r) ==
  LET status == AdminStatus(tx, r, initialization # "disabled") IN
  \/ Refused(status)
  \/ /\ Stored(tx, status)
     /\ initialization' = "disabled"
     /\ UNCHANGED <<admin, node, owner, writersIndex, licenses, deployment,
                    writers, indexers>>

\* The first operation of the network, appended by its bootstrap core
AddAdminStatus(tx, iw) ==
  IF /\ batch.from = Bootstrap
     /\ iw = Bootstrap
     /\ owner[iw] = NoAddress
     /\ ~HasAdmin
     /\ tx \notin applied
  THEN "SUCCESS" ELSE "FAILURE"

AddAdmin(tx, r, iw) ==
  LET status == AddAdminStatus(tx, iw) IN
  \/ Refused(status)
  \/ /\ Stored(tx, status)
     /\ licenses' = Append(licenses, r)
     /\ node' = [node EXCEPT ![r] =
          [role |-> "INDEXER", wk |-> iw, balance |-> AdminBalance,
           license |-> Len(licenses) + 1, staked |-> Stake]]
     /\ owner' = [owner EXCEPT ![iw] = r]
     /\ IndexWriter(r)
     /\ admin' = [addr |-> r, wk |-> iw]
     /\ initialization' = "enabled"
     /\ UNCHANGED <<deployment, writers, indexers>>

\* The admin moves to a new, never registered key with the help of another
\* validator; the old key must still be an indexer's.
AdminRecoveryStatus(tx, r, iw, v) ==
  IF \/ ~Cosigned(r, v)
     \/ owner[iw] # NoAddress
     \/ ~HasAdmin
     \/ admin.addr # r
     \/ tx \in applied
     \/ admin.wk \notin indexers
     \/ iw \in indexers
  THEN "FAILURE"
  ELSE IF node[r].balance < Fee THEN "IGNORE"
  ELSE IF ~CanReceive(v, Share(75)) THEN "FAILURE" ELSE "SUCCESS"

AdminRecovery(tx, r, iw, v) ==
  LET status == AdminRecoveryStatus(tx, r, iw, v) IN
  \/ Refused(status)
  \/ /\ Stored(tx, status)
     /\ MoveIndexerKey(admin.wk, iw)
     /\ owner' = [owner EXCEPT ![iw] = r]
     /\ admin' = [addr |-> r, wk |-> iw]
     /\ node' = [node EXCEPT ![r] = [Debit(@, Fee) EXCEPT !.wk = iw],
                             ![v] = Credit(@, Share(75))]
     /\ UNCHANGED <<initialization, writersIndex, licenses, deployment>>

\* The admin pays only once initialization is disabled; all of it is burned.
WhitelistFee == IF initialization = "disabled" THEN Fee ELSE 0

AppendWhitelistStatus(tx, r, to) ==
  AdminStatus(tx, r, ~IsWhitelisted(to) /\ node[admin.addr].balance >= WhitelistFee)

BuggyNeedsLicense(to) == ~IsWhitelisted(to)

\* A node that lost its role keeps the licence it was issued.
NeedsLicense(to) == node[to].license = 0

\* The admin's charged entry is put first, then the target's.
AppendWhitelist(tx, r, to) ==
  LET status == AppendWhitelistStatus(tx, r, to)
      charged == [node EXCEPT ![admin.addr] = Debit(@, WhitelistFee)]
  IN
  \/ Refused(status)
  \/ /\ Stored(tx, status)
     /\ licenses' = IF NeedsLicense(to) THEN Append(licenses, to) ELSE licenses
     /\ node' = [charged EXCEPT ![to] =
          [node[to] EXCEPT !.role = "WHITELISTED",
                           !.license = IF NeedsLicense(to) THEN Len(licenses) + 1 ELSE @]]
     /\ UNCHANGED <<admin, initialization, owner, writersIndex, deployment,
                    writers, indexers>>

\* The three operations below burn a whole fee of the admin's.  Its entry,
\* read before the target's is changed, is put after it.
ChargeAdmin(changed) ==
  node' = [changed EXCEPT ![admin.addr] = Debit(node[admin.addr], Fee)]

AdminCanPay == node[admin.addr].balance >= Fee

AddIndexerStatus(tx, r, to) ==
  AdminStatus(tx, r, /\ IsWriter(to) /\ ~IsIndexer(to)
                     /\ node[to].wk \notin indexers
                     /\ AdminCanPay)

AddIndexer(tx, r, to) ==
  LET status == AddIndexerStatus(tx, r, to) IN
  \/ Refused(status)
  \/ /\ Stored(tx, status)
     /\ MoveIndexerKey(node[to].wk, node[to].wk)
     /\ ChargeAdmin([node EXCEPT ![to].role = "INDEXER"])
     /\ UNCHANGED <<admin, initialization, owner, writersIndex, licenses, deployment>>

RemoveIndexerStatus(tx, r, to) ==
  AdminStatus(tx, r, IsIndexer(to) /\ node[to].wk \in indexers /\ AdminCanPay)

RemoveIndexer(tx, r, to) ==
  LET status == RemoveIndexerStatus(tx, r, to) IN
  \/ Refused(status)
  \/ /\ Stored(tx, status)
     /\ DemoteIndexerKey(node[to].wk)
     /\ IndexWriter(to)
     /\ ChargeAdmin([node EXCEPT ![to].role = "WRITER"])
     /\ UNCHANGED <<admin, initialization, owner, licenses, deployment>>

BanValidatorStatus(tx, r, to) ==
  AdminStatus(tx, r, /\ IsWhitelisted(to) /\ ~IsIndexer(to)
                     /\ AdminCanPay
                     /\ IsWriter(to) => CanWithdraw(node[to]))

\* A banned writer gets its stake back; the licence and the key stay.
BanValidator(tx, r, to) ==
  LET status == BanValidatorStatus(tx, r, to)
      banned == [node[to] EXCEPT !.role = "READER"]
  IN
  \/ Refused(status)
  \/ /\ Stored(tx, status)
     /\ IF IsWriter(to) THEN RemoveWriterKey(node[to].wk)
                        ELSE UNCHANGED <<writers, indexers>>
     /\ ChargeAdmin([node EXCEPT ![to] =
          IF IsWriter(to) THEN WithdrawStake(banned) ELSE banned])
     /\ UNCHANGED <<admin, initialization, owner, writersIndex, licenses, deployment>>

-----------------------------------------------------------------------------
(* Operations a validator co-signs *)

BuggyMayBecomeWriter(r, iw) == Exists(r) /\ IsWhitelisted(r) /\ ~IsWriter(r)

\* Writer key validation cases 1 and 2 of #addWriter: a new key, or the key
\* the requester already owns and has in its entry; and the role check.
MayBecomeWriter(r, iw) ==
  /\ Exists(r)
  /\ owner[iw] # NoAddress => node[r].wk = iw /\ owner[iw] = r
  /\ IsWhitelisted(r) /\ ~IsWriter(r)

BuggyAddWriterStatus(tx, r, iw, v) ==
  IF ~Cosigned(r, v) \/ ~MayBecomeWriter(r, iw) THEN "FAILURE"
  ELSE IF tx \in applied \/ node[r].balance < Fee THEN "IGNORE"
  ELSE IF CanReceive(v, Share(75)) /\ CanStake(Debit(node[r], Fee))
       THEN "SUCCESS" ELSE "FAILURE"

AddWriterStatus(tx, r, iw, v) ==
  IF ~Cosigned(r, v) THEN "FAILURE"
  ELSE IF tx \in applied THEN "IGNORE"
  ELSE IF ~MayBecomeWriter(r, iw) THEN "FAILURE"
  ELSE IF node[r].balance < Fee THEN "IGNORE"
  ELSE IF CanReceive(v, Share(75)) /\ CanStake(Debit(node[r], Fee))
       THEN "SUCCESS" ELSE "FAILURE"

AddWriter(tx, r, iw, v) ==
  LET status == AddWriterStatus(tx, r, iw, v) IN
  \/ Refused(status)
  \/ /\ Stored(tx, status)
     /\ writers' = writers \union {iw}
     /\ node' = [node EXCEPT
          ![r] = [StakeBalance(Debit(@, Fee)) EXCEPT !.role = "WRITER", !.wk = iw],
          ![v] = Credit(@, Share(75))]
     /\ owner' = [owner EXCEPT ![iw] = IF @ = NoAddress THEN r ELSE @]
     /\ IndexWriter(r)
     /\ UNCHANGED <<admin, initialization, licenses, deployment, indexers>>

\* Only the registered key of the requester's own entry can be removed.
MayLeave(r, iw) ==
  /\ IsWriter(r) /\ ~IsIndexer(r)
  /\ owner[iw] = r /\ node[r].wk = iw

RemoveWriterStatus(tx, r, iw, v) ==
  IF ~Cosigned(r, v) THEN "FAILURE"
  ELSE IF tx \in applied THEN "IGNORE"
  ELSE IF ~MayLeave(r, iw) THEN "FAILURE"
  ELSE IF node[r].balance < Fee THEN "IGNORE"
  ELSE IF CanReceive(v, Share(75)) /\ CanWithdraw(Debit(node[r], Fee))
       THEN "SUCCESS" ELSE "FAILURE"

RemoveWriter(tx, r, iw, v) ==
  LET status == RemoveWriterStatus(tx, r, iw, v) IN
  \/ Refused(status)
  \/ /\ Stored(tx, status)
     /\ RemoveWriterKey(node[r].wk)
     /\ node' = [node EXCEPT
          ![r] = [WithdrawStake(Debit(@, Fee)) EXCEPT !.role = "WHITELISTED"],
          ![v] = Credit(@, Share(75))]
     /\ UNCHANGED <<admin, initialization, owner, writersIndex, licenses, deployment>>

BuggyBootstrapDeploymentStatus(tx, r, bs, v) ==
  IF ~Cosigned(r, v) THEN "FAILURE"
  ELSE IF tx \in applied THEN "IGNORE"
  ELSE IF deployment[bs] # NoAddress \/ ~Exists(r) THEN "FAILURE"
  ELSE IF node[r].balance < Fee THEN "IGNORE"
  ELSE IF CanReceive(v, Share(75)) THEN "SUCCESS" ELSE "FAILURE"

BootstrapDeploymentStatus(tx, r, bs, v) ==
  IF ~Cosigned(r, v) THEN "FAILURE"
  ELSE IF tx \in applied \/ deployment[bs] # NoAddress THEN "IGNORE"
  ELSE IF ~Exists(r) THEN "FAILURE"
  ELSE IF node[r].balance < Fee THEN "IGNORE"
  ELSE IF CanReceive(v, Share(75)) THEN "SUCCESS" ELSE "FAILURE"

BootstrapDeployment(tx, r, bs, v) ==
  LET status == BootstrapDeploymentStatus(tx, r, bs, v) IN
  \/ Refused(status)
  \/ /\ Stored(tx, status)
     /\ deployment' = [deployment EXCEPT ![bs] = r]
     /\ node' = [node EXCEPT ![r] = Debit(@, Fee), ![v] = Credit(@, Share(75))]
     /\ UNCHANGED <<admin, initialization, owner, writersIndex, licenses,
                    writers, indexers>>

\* #transferFeeTxOperation: half of the fee goes to the validator and a quarter
\* to the subnetwork's creator, unless the creator is the one who pays.
CreatorShare(r, creator) == IF creator = r THEN 0 ELSE Share(25)

PayTxFee(r, v, creator) ==
  LET charged  == [node EXCEPT ![r] = Debit(@, Fee), ![v] = Credit(@, Share(50))]
  IN [charged EXCEPT ![creator] = Credit(@, CreatorShare(r, creator))]

CanPayTxFee(r, v, creator) ==
  /\ CanReceive(v, Share(50))
  /\ creator = v => CanReceive(v, Share(50) + Share(25))
  /\ creator \notin {r, v} => Exists(creator) /\ CanReceive(creator, Share(25))

TxStatus(tx, r, bs, v) ==
  IF ~Cosigned(r, v) THEN "FAILURE"
  ELSE IF tx \in applied THEN "IGNORE"
  ELSE IF deployment[bs] = NoAddress \/ ~Exists(r) THEN "FAILURE"
  ELSE IF node[r].balance < Fee THEN "IGNORE"
  ELSE IF CanPayTxFee(r, v, deployment[bs]) THEN "SUCCESS" ELSE "FAILURE"

TxOperation(tx, r, bs, v) ==
  LET status == TxStatus(tx, r, bs, v) IN
  \/ Refused(status)
  \/ /\ Stored(tx, status)
     /\ node' = PayTxFee(r, v, deployment[bs])
     /\ UNCHANGED <<admin, initialization, owner, writersIndex, licenses,
                    deployment, writers, indexers>>

BuggyDeducted(r, to, amount) == IF to = r THEN Fee ELSE amount

\* A transfer to oneself only costs the fee.
Deducted(r, to, amount) == IF to = r THEN Fee ELSE amount + Fee

BuggyTransferStatus(tx, r, to, amount, v) ==
  IF ~Cosigned(r, v) THEN "FAILURE"
  ELSE IF tx \in applied THEN "IGNORE"
  ELSE IF to = v /\ ~CanReceive(v, amount) THEN "THROW"
  ELSE IF ~Exists(r) THEN "FAILURE"
  ELSE IF node[r].balance < Deducted(r, to, amount) THEN "IGNORE"
  ELSE "SUCCESS"

\* When the validator is the recipient, #transfer adds the amount and the
\* reward in one chain: add answers null when the amount overflows, and
\* calling add on null throws out of #apply.
TransferStatus(tx, r, to, amount, v) ==
  IF ~Cosigned(r, v) THEN "FAILURE"
  ELSE IF tx \in applied THEN "IGNORE"
  ELSE IF Deducted(r, to, amount) > MaxBalance \/ ~Exists(r) THEN "FAILURE"
  ELSE IF node[r].balance < Deducted(r, to, amount) THEN "IGNORE"
  ELSE IF to = v /\ ~CanReceive(v, amount) THEN "THROW"
  ELSE IF /\ to \notin {r, v} => CanReceive(to, amount)
          /\ CanReceive(v, Share(75) + (IF to = v THEN amount ELSE 0))
       THEN "SUCCESS" ELSE "FAILURE"

\* A recipient without an entry gets one as a reader.
Receive(e, amount) ==
  Credit(IF e.role = "ABSENT" THEN [e EXCEPT !.role = "READER"] ELSE e, amount)

Pay(r, to, amount, v) ==
  LET charged == [node EXCEPT ![r] = Debit(@, Deducted(r, to, amount)),
                              ![v] = Credit(@, Share(75))]
  IN IF to = r THEN charged ELSE [charged EXCEPT ![to] = Receive(@, amount)]

\* The exception leaves the batch unflushed: nothing reads the ledger again.
Throw ==
  /\ NextNode
  /\ halted' = TRUE
  /\ UNCHANGED <<ledger, batch>>

Transfer(tx, r, to, amount, v) ==
  LET status == TransferStatus(tx, r, to, amount, v) IN
  \/ status # "THROW" /\ Refused(status)
  \/ status = "THROW" /\ Throw
  \/ /\ Stored(tx, status)
     /\ node' = Pay(r, to, amount, v)
     /\ UNCHANGED <<admin, initialization, owner, writersIndex, licenses,
                    deployment, writers, indexers>>

-----------------------------------------------------------------------------
(* Batches *)

\* Autobase applies the batches of current writers only (optimistic: false).
StartBatch(k) ==
  /\ ~halted /\ ~Open
  /\ k \in writers
  /\ batch' = [Idle EXCEPT !.from = k]
  /\ UNCHANGED <<ledger, halted>>

\* #validatorPenaltyApply for n invalid operations: one fee each is taken from
\* the stake and burned, what is left returns to the balance, and the node
\* goes back to whitelisted.  The admin is exempt, and a key that leads to no
\* entry is let off.
LeftOfStake(e, n) == IF n * Fee >= e.staked THEN 0 ELSE e.staked - n * Fee

BuggyPunished(e, n) ==
  [e EXCEPT !.balance = @ + LeftOfStake(e, n), !.staked = 0,
            !.role = IF LeftOfStake(e, n) > 0 THEN @ ELSE "WHITELISTED"]

Punished(e, n) == [e EXCEPT !.balance = @ + LeftOfStake(e, n),
                            !.staked = 0, !.role = "WHITELISTED"]

BuggyPunishable(k, n) == HasAdmin /\ owner[k] # NoAddress /\ Exists(owner[k])

Punishable(k, n) ==
  /\ HasAdmin
  /\ admin.wk # k
  /\ owner[k] # NoAddress
  /\ Exists(owner[k])
  /\ CanReceive(owner[k], LeftOfStake(node[owner[k]], n))

ValidatorPenalty(k, n) ==
  IF Punishable(k, n)
  THEN /\ RemoveWriterKey(k)
       /\ node' = [node EXCEPT ![owner[k]] = Punished(@, n)]
       /\ UNCHANGED <<admin, initialization, owner, writersIndex, licenses,
                      deployment, applied>>
  ELSE UNCHANGED ledger

EndBatch ==
  /\ ~halted /\ Open
  /\ batch.size > 0
  /\ IF batch.invalid > 0 THEN ValidatorPenalty(batch.from, batch.invalid)
                          ELSE UNCHANGED ledger
  /\ batch' = Idle
  /\ UNCHANGED halted

\* More than MaxBatch nodes at once: none is applied.
OversizedBatch(k) ==
  /\ ~halted /\ ~Open
  /\ k \in writers
  /\ ValidatorPenalty(k, MaxBatch)
  /\ UNCHANGED <<batch, halted>>

-----------------------------------------------------------------------------
AdminOperation(tx, r) ==
  \/ DisableInitialization(tx, r)
  \/ \E to \in Address, amount \in Grant : InitializeBalance(tx, r, to, amount)
  \/ \E iw \in Key : AddAdmin(tx, r, iw)
  \/ \E to \in Address : \/ AppendWhitelist(tx, r, to)
                         \/ AddIndexer(tx, r, to)
                         \/ RemoveIndexer(tx, r, to)
                         \/ BanValidator(tx, r, to)

CosignedOperation(tx, r, v) ==
  \/ \E iw \in Key : \/ AdminRecovery(tx, r, iw, v)
                     \/ AddWriter(tx, r, iw, v)
                     \/ RemoveWriter(tx, r, iw, v)
  \/ \E bs \in Subnet : \/ BootstrapDeployment(tx, r, bs, v)
                        \/ TxOperation(tx, r, bs, v)
  \/ \E to \in Address, amount \in Amount : Transfer(tx, r, to, amount, v)

Next ==
  \/ \E k \in Key : StartBatch(k) \/ OversizedBatch(k)
  \/ MalformedOperation
  \/ \E tx \in Tx, r \in Address : AdminOperation(tx, r)
  \/ \E tx \in Tx, r \in Address, v \in Address : CosignedOperation(tx, r, v)
  \/ EndBatch

Spec == Init /\ [][Next]_vars
=============================================================================
