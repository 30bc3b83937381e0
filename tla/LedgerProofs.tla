---------------------------- MODULE LedgerProofs ----------------------------
(***************************************************************************)
(* Theorems about Ledger, for every set of addresses, keys, hashes and     *)
(* amounts, and every fee, limit and batch size.                           *)
(***************************************************************************)
EXTENDS LedgerProperties, TLAPS

-----------------------------------------------------------------------------
(* Amounts *)

\* No share of the fee is negative or larger than the fee.
LEMMA ShareType ==
  ASSUME NEW p \in 0 .. 100
  PROVE  Share(p) \in 0 .. Fee
<1>1. Fee \in Nat
  BY MoneyAssumption
<1>2. Fee * p >= 0 /\ Fee * p <= Fee * 100
  BY <1>1, SMT
<1>. QED
  BY <1>1, <1>2, SMT DEF Share

\* BALANCE_TO_STAKE is positive and fits in a balance.
LEMMA StakeType == Stake \in Nat /\ Stake > 0 /\ Stake <= MaxBalance
  BY MoneyAssumption DEF Stake

\* What a penalty leaves of a stake is never more than the stake.
LEMMA LeftOfStakeType ==
  ASSUME NEW e \in NodeEntry, NEW n \in Nat
  PROVE  LeftOfStake(e, n) \in 0 .. e.staked
<1>1. n * Fee \in Nat
  BY MoneyAssumption
<1>. QED
  BY <1>1, MoneyAssumption DEF LeftOfStake, NodeEntry

-----------------------------------------------------------------------------
(* Node entries *)

\* The entry nodeEntry.init makes, without a role, is well typed.
LEMMA NoEntryType == NoEntry \in NodeEntry
  BY MoneyAssumption DEF NoEntry, NodeEntry, Role

\* Replacing the balance of an entry by another balance leaves an entry.
LEMMA BalanceType ==
  ASSUME NEW e \in NodeEntry, NEW b \in 0 .. MaxBalance
  PROVE  [e EXCEPT !.balance = b] \in NodeEntry
  BY DEF NodeEntry

\* Balance.add that did not answer null leaves an entry.
LEMMA CreditType ==
  ASSUME NEW e \in NodeEntry, NEW x \in Nat, e.balance + x <= MaxBalance
  PROVE  Credit(e, x) \in NodeEntry
<1>1. e.balance + x \in 0 .. MaxBalance
  BY MoneyAssumption DEF NodeEntry
<1>. QED
  BY <1>1, BalanceType DEF Credit

\* Balance.sub of no more than the balance leaves an entry.
LEMMA DebitType ==
  ASSUME NEW e \in NodeEntry, NEW x \in Nat, e.balance >= x
  PROVE  Debit(e, x) \in NodeEntry
<1>1. e.balance - x \in 0 .. MaxBalance
  BY MoneyAssumption DEF NodeEntry
<1>. QED
  BY <1>1, BalanceType DEF Debit

\* #stakeBalanceApply leaves a well typed entry.
LEMMA StakeBalanceType ==
  ASSUME NEW e \in NodeEntry, CanStake(e)
  PROVE  StakeBalance(e) \in NodeEntry
<1>1. e.balance - Stake \in 0 .. MaxBalance /\ Stake \in 0 .. MaxBalance
  BY MoneyAssumption, StakeType DEF CanStake, NodeEntry
<1>. QED
  BY <1>1 DEF StakeBalance, NodeEntry

\* #withdrawStakedBalanceApply leaves a well typed entry.
LEMMA WithdrawStakeType ==
  ASSUME NEW e \in NodeEntry, CanWithdraw(e)
  PROVE  WithdrawStake(e) \in NodeEntry
<1>1. e.balance + e.staked \in 0 .. MaxBalance /\ 0 \in 0 .. MaxBalance
  BY MoneyAssumption DEF CanWithdraw, NodeEntry
<1>. QED
  BY <1>1 DEF WithdrawStake, NodeEntry

\* #validatorPenaltyApply leaves a well typed entry of the writer.
LEMMA PunishedType ==
  ASSUME NEW e \in NodeEntry, NEW n \in Nat,
         e.balance + LeftOfStake(e, n) <= MaxBalance
  PROVE  Punished(e, n) \in NodeEntry
<1>1. e.balance + LeftOfStake(e, n) \in 0 .. MaxBalance /\ 0 \in 0 .. MaxBalance
  BY MoneyAssumption, LeftOfStakeType DEF NodeEntry
<1>. QED
  BY <1>1 DEF Punished, NodeEntry, Role

\* setRole leaves a well typed entry.
LEMMA RoleType ==
  ASSUME NEW e \in NodeEntry, NEW role \in Role
  PROVE  [e EXCEPT !.role = role] \in NodeEntry
  BY DEF NodeEntry

\* #updateWritersIndex and the licence index grow by an address.
LEMMA AppendType ==
  ASSUME NEW s \in Seq(Address), NEW a \in Address
  PROVE  Append(s, a) \in Seq(Address)
  OBVIOUS

-----------------------------------------------------------------------------
(* Types *)

\* The initial state is well typed.
LEMMA InitType == Init => TypeOK
<1>. SUFFICES ASSUME Init PROVE TypeOK
  OBVIOUS
<1>1. node \in [Address -> NodeEntry]
  BY NoEntryType DEF Init
<1>2. LedgerTypeOK
  BY <1>1, KeyAssumption DEF Init, LedgerTypeOK
<1>3. 0 \in 0 .. MaxBatch
  BY BatchAssumption
<1>4. /\ batch = [from |-> ZeroKey, size |-> 0, invalid |-> 0]
      /\ halted = FALSE
  BY DEF Init, Idle
<1>5. BatchTypeOK
  <2>1. batch \in [from: Key \union {ZeroKey}, size: 0 .. MaxBatch, invalid: 0 .. MaxBatch]
    BY <1>3, <1>4
  <2>2. batch.invalid <= batch.size
    BY <1>4
  <2>. QED
    BY <1>4, <2>1, <2>2 DEF BatchTypeOK
<1>. QED
  BY <1>2, <1>5 DEF TypeOK

\* A batch never counts more nodes than it may have.
LEMMA CountType ==
  ASSUME TypeOK, NEW s, NextNode, Count(s), halted' = halted
  PROVE  BatchTypeOK'
<1>. DEFINE failed == IF s = "FAILURE" THEN batch.invalid + 1 ELSE batch.invalid
<1>1. /\ batch.size \in 0 .. MaxBatch /\ batch.size < MaxBatch
      /\ batch.invalid \in 0 .. MaxBatch /\ batch.invalid <= batch.size
      /\ MaxBatch \in Nat
  BY BatchAssumption DEF TypeOK, BatchTypeOK, NextNode
<1>2. /\ batch.size + 1 \in 0 .. MaxBatch
      /\ failed \in 0 .. MaxBatch
      /\ failed <= batch.size + 1
  BY <1>1
<1>3. batch' = [batch EXCEPT !.size = batch.size + 1, !.invalid = failed]
  BY DEF Count
<1>. HIDE DEF failed
<1>. QED
  BY <1>2, <1>3 DEF TypeOK, BatchTypeOK

\* A node that is refused, whatever its handler, only counts.
LEMMA RefusedType ==
  ASSUME TypeOK, NEW s, Refused(s)
  PROVE  TypeOK'
<1>1. BatchTypeOK'
  BY CountType DEF Refused
<1>2. LedgerTypeOK'
  BY DEF TypeOK, LedgerTypeOK, Refused, ledger
<1>. QED
  BY <1>1, <1>2 DEF TypeOK

\* A node that is stored adds its hash and counts.
LEMMA StoredType ==
  ASSUME TypeOK, NEW s, NEW tx \in Tx, Stored(tx, s)
  PROVE  BatchTypeOK' /\ applied' \in SUBSET Tx
<1>1. BatchTypeOK'
  BY CountType DEF Stored
<1>2. applied' \in SUBSET Tx
  BY DEF TypeOK, LedgerTypeOK, Stored
<1>. QED
  BY <1>1, <1>2

\* The entry a penalty leaves behind is well typed.
LEMMA PenaltyType ==
  ASSUME TypeOK, NEW k \in Key, NEW n \in Nat, ValidatorPenalty(k, n)
  PROVE  LedgerTypeOK'
<1>1. CASE Punishable(k, n)
  <2>1. owner[k] \in Address
    BY <1>1 DEF Punishable, TypeOK, LedgerTypeOK
  <2>2. node[owner[k]] \in NodeEntry
    BY <2>1 DEF TypeOK, LedgerTypeOK
  <2>3. Punished(node[owner[k]], n) \in NodeEntry
    BY <1>1, <2>2, PunishedType DEF Punishable, CanReceive
  <2>4. node' \in [Address -> NodeEntry]
    BY <1>1, <2>1, <2>3 DEF ValidatorPenalty, TypeOK, LedgerTypeOK
  <2>. QED
    BY <1>1, <2>4 DEF ValidatorPenalty, RemoveWriterKey, TypeOK, LedgerTypeOK
<1>2. CASE ~Punishable(k, n)
  BY <1>2 DEF ValidatorPenalty, ledger, TypeOK, LedgerTypeOK
<1>. QED
  BY <1>1, <1>2

\* Starting, ending and rejecting a batch in #apply keep the types.
LEMMA BatchStepType ==
  ASSUME TypeOK,
         \/ EndBatch
         \/ \E k \in Key : StartBatch(k) \/ OversizedBatch(k)
  PROVE  TypeOK'
<1>1. CASE EndBatch
  <2>1. batch.from \in Key /\ batch.invalid \in Nat
    BY <1>1, BatchAssumption DEF EndBatch, Open, TypeOK, BatchTypeOK
  <2>2. LedgerTypeOK'
    BY <1>1, <2>1, PenaltyType DEF EndBatch, ledger, TypeOK, LedgerTypeOK
  <2>3. BatchTypeOK'
    BY <1>1, BatchAssumption DEF EndBatch, Idle, TypeOK, BatchTypeOK
  <2>. QED
    BY <2>2, <2>3 DEF TypeOK
<1>2. ASSUME NEW k \in Key, StartBatch(k)
      PROVE  TypeOK'
  <2>1. LedgerTypeOK'
    BY <1>2 DEF StartBatch, ledger, TypeOK, LedgerTypeOK
  <2>2. BatchTypeOK'
    BY <1>2, BatchAssumption DEF StartBatch, Idle, TypeOK, BatchTypeOK
  <2>. QED
    BY <2>1, <2>2 DEF TypeOK
<1>3. ASSUME NEW k \in Key, OversizedBatch(k)
      PROVE  TypeOK'
  <2>1. LedgerTypeOK'
    BY <1>3, PenaltyType, BatchAssumption DEF OversizedBatch
  <2>2. BatchTypeOK'
    BY <1>3 DEF OversizedBatch, TypeOK, BatchTypeOK
  <2>. QED
    BY <2>1, <2>2 DEF TypeOK
<1>. QED
  BY <1>1, <1>2, <1>3

\* Two different entries, one charged the fee and one paid a share of it
LEMMA PaymentType ==
  ASSUME NEW f \in [Address -> NodeEntry], NEW r \in Address, NEW v \in Address,
         NEW x \in Nat, NEW y \in Nat,
         f[r].balance >= x, f[v].balance + y <= MaxBalance, r # v
  PROVE  [f EXCEPT ![r] = Debit(f[r], x), ![v] = Credit(f[v], y)] \in [Address -> NodeEntry]
<1>1. Debit(f[r], x) \in NodeEntry
  BY DebitType
<1>2. Credit(f[v], y) \in NodeEntry
  BY CreditType
<1>. QED
  BY <1>1, <1>2

\* The fee and the shares #transferFeeTxOperation pays are naturals.
LEMMA FeeType == Fee \in Nat /\ Share(75) \in Nat /\ Share(50) \in Nat /\ Share(25) \in Nat
<1>1. Fee \in Nat
  BY MoneyAssumption
<1>2. Share(75) \in 0 .. Fee /\ Share(50) \in 0 .. Fee /\ Share(25) \in 0 .. Fee
  BY ShareType
<1>. QED
  BY <1>1, <1>2

\* An operation of the admin that succeeds passed the admin's checks.
LEMMA AdminStatusSuccess ==
  ASSUME NEW tx, NEW r, NEW allowed \in BOOLEAN, AdminStatus(tx, r, allowed) = "SUCCESS"
  PROVE  AdminRequest(r) /\ tx \notin applied /\ allowed
  BY DEF AdminStatus

\* #handleApplyInitializeBalanceOperation keeps the types.
LEMMA InitializeBalanceType ==
  ASSUME TypeOK, NEW tx \in Tx, NEW r \in Address, NEW to \in Address,
         NEW amount \in Grant, InitializeBalance(tx, r, to, amount)
  PROVE  TypeOK'
<1>1. CASE Refused(InitializeBalanceStatus(tx, r))
  BY <1>1, RefusedType
<1>2. CASE ~Refused(InitializeBalanceStatus(tx, r))
  <2>1. BatchTypeOK' /\ applied' \in SUBSET Tx
    BY <1>2, StoredType DEF InitializeBalance
  <2>. DEFINE entry == IF Exists(to) THEN [node[to] EXCEPT !.balance = amount]
                       ELSE [NoEntry EXCEPT !.role = "READER", !.balance = amount]
  <2>2. node[to] \in NodeEntry /\ amount \in 0 .. MaxBalance
    BY MoneyAssumption DEF TypeOK, LedgerTypeOK
  <2>3. [node[to] EXCEPT !.balance = amount] \in NodeEntry
    BY <2>2, BalanceType
  <2>4. [NoEntry EXCEPT !.role = "READER", !.balance = amount] \in NodeEntry
    BY <2>2, NoEntryType DEF NodeEntry, Role
  <2>5. entry \in NodeEntry
    BY <2>3, <2>4
  <2>6. node' = [node EXCEPT ![to] = entry]
    BY <1>2 DEF InitializeBalance
  <2>7. node' \in [Address -> NodeEntry]
    BY <2>5, <2>6 DEF TypeOK, LedgerTypeOK
  <2>. QED
    BY <1>2, <2>1, <2>7 DEF InitializeBalance, TypeOK, LedgerTypeOK
<1>. QED
  BY <1>1, <1>2

\* #handleApplyDisableBalanceInitializationOperation keeps the types.
LEMMA DisableInitializationType ==
  ASSUME TypeOK, NEW tx \in Tx, NEW r \in Address, DisableInitialization(tx, r)
  PROVE  TypeOK'
<1>. DEFINE status == AdminStatus(tx, r, initialization # "disabled")
<1>1. CASE Refused(status)
  BY <1>1, RefusedType
<1>2. CASE ~Refused(status)
  <2>1. BatchTypeOK' /\ applied' \in SUBSET Tx
    BY <1>2, StoredType DEF DisableInitialization
  <2>. QED
    BY <1>2, <2>1 DEF DisableInitialization, TypeOK, LedgerTypeOK
<1>. QED
  BY <1>1, <1>2

\* #handleApplyAddAdminOperation keeps the types.
LEMMA AddAdminType ==
  ASSUME TypeOK, NEW tx \in Tx, NEW r \in Address, NEW iw \in Key, AddAdmin(tx, r, iw)
  PROVE  TypeOK'
<1>1. CASE Refused(AddAdminStatus(tx, iw))
  BY <1>1, RefusedType
<1>2. CASE ~Refused(AddAdminStatus(tx, iw))
  <2>. DEFINE entry == [role |-> "INDEXER", wk |-> iw, balance |-> AdminBalance,
                        license |-> Len(licenses) + 1, staked |-> Stake]
  <2>1. BatchTypeOK' /\ applied' \in SUBSET Tx
    BY <1>2, StoredType DEF AddAdmin
  <2>2. AdminBalance \in 0 .. MaxBalance /\ Stake \in 0 .. MaxBalance /\ Len(licenses) + 1 \in Nat
    BY MoneyAssumption, StakeType DEF TypeOK, LedgerTypeOK
  <2>3. entry \in NodeEntry
    BY <2>2 DEF NodeEntry, Role
  <2>4. node' = [node EXCEPT ![r] = entry] /\ Stored(tx, AddAdminStatus(tx, iw))
    BY <1>2, Zenon DEF AddAdmin
  <2>. HIDE DEF entry
  <2>5. node' \in [Address -> NodeEntry]
    BY <2>3, <2>4 DEF TypeOK, LedgerTypeOK
  <2>6. licenses' = Append(licenses, r) /\ writersIndex' = Append(writersIndex, r)
    BY <1>2, Zenon DEF AddAdmin, IndexWriter
  <2>7. licenses' \in Seq(Address) /\ writersIndex' \in Seq(Address)
    BY <2>6, AppendType DEF TypeOK, LedgerTypeOK
  <2>8. /\ admin' = [addr |-> r, wk |-> iw]
        /\ owner' = [owner EXCEPT ![iw] = r]
        /\ initialization' = "enabled"
        /\ UNCHANGED <<deployment, writers, indexers>>
    BY <1>2, Zenon DEF AddAdmin
  <2>. QED
    BY <2>1, <2>5, <2>7, <2>8 DEF TypeOK, LedgerTypeOK
<1>. QED
  BY <1>1, <1>2

\* #handleApplyAppendWhitelistOperation keeps the types.
LEMMA AppendWhitelistType ==
  ASSUME TypeOK, NEW tx \in Tx, NEW r \in Address, NEW to \in Address,
         AppendWhitelist(tx, r, to)
  PROVE  TypeOK'
<1>. DEFINE status == AppendWhitelistStatus(tx, r, to)
<1>1. CASE Refused(status)
  BY <1>1, RefusedType
<1>2. CASE ~Refused(status)
  <2>. DEFINE license == IF NeedsLicense(to) THEN Len(licenses) + 1 ELSE node[to].license
              charged == [node EXCEPT ![admin.addr] = Debit(node[admin.addr], WhitelistFee)]
              entry == [node[to] EXCEPT !.role = "WHITELISTED", !.license = license]
  <2>1. BatchTypeOK' /\ applied' \in SUBSET Tx
    BY <1>2, StoredType DEF AppendWhitelist
  <2>2. AdminRequest(r) /\ node[admin.addr].balance >= WhitelistFee
    BY <1>2, AdminStatusSuccess DEF AppendWhitelist, AppendWhitelistStatus, Stored
  <2>3. WhitelistFee \in Nat
    BY MoneyAssumption DEF WhitelistFee
  <2>4. admin.addr \in Address
    BY <2>2 DEF AdminRequest
  <2>5. charged \in [Address -> NodeEntry]
    BY <2>2, <2>3, <2>4, DebitType DEF TypeOK, LedgerTypeOK
  <2>6. node[to] \in NodeEntry /\ license \in Nat
    BY DEF TypeOK, LedgerTypeOK, NodeEntry
  <2>7. entry \in NodeEntry
    BY <2>6 DEF NodeEntry, Role
  <2>8. node' = [charged EXCEPT ![to] = entry]
    BY <1>2, Zenon DEF AppendWhitelist
  <2>. HIDE DEF entry, charged
  <2>9. node' \in [Address -> NodeEntry]
    BY <2>5, <2>7, <2>8
  <2>10. licenses' \in Seq(Address)
    <3>1. licenses' = IF NeedsLicense(to) THEN Append(licenses, to) ELSE licenses
      BY <1>2, Zenon DEF AppendWhitelist
    <3>. QED
      BY <3>1, AppendType DEF TypeOK, LedgerTypeOK
  <2>11. UNCHANGED <<admin, initialization, owner, writersIndex, deployment, writers, indexers>>
    BY <1>2, Zenon DEF AppendWhitelist
  <2>. QED
    BY <2>1, <2>9, <2>10, <2>11 DEF TypeOK, LedgerTypeOK
<1>. QED
  BY <1>1, <1>2

\* #handleApplyAdminRecoveryOperation keeps the types.
LEMMA AdminRecoveryType ==
  ASSUME TypeOK, NEW tx \in Tx, NEW r \in Address, NEW iw \in Key, NEW v \in Address,
         AdminRecovery(tx, r, iw, v)
  PROVE  TypeOK'
<1>. DEFINE status == AdminRecoveryStatus(tx, r, iw, v)
<1>1. CASE Refused(status)
  BY <1>1, RefusedType
<1>2. CASE ~Refused(status)
  <2>. DEFINE charged == Debit(node[r], Fee)
              paid == Credit(node[v], Share(75))
  <2>1. BatchTypeOK' /\ applied' \in SUBSET Tx /\ status = "SUCCESS"
    BY <1>2, StoredType DEF AdminRecovery, Stored
  <2>2. r # v /\ node[r].balance >= Fee /\ CanReceive(v, Share(75))
    <3>1. node[r].balance \in Nat
      BY MoneyAssumption DEF TypeOK, LedgerTypeOK, NodeEntry
    <3>. QED
      BY <2>1, <3>1, FeeType DEF AdminRecoveryStatus, Cosigned
  <2>3. charged \in NodeEntry /\ paid \in NodeEntry
    BY <2>2, FeeType, DebitType, CreditType DEF CanReceive, TypeOK, LedgerTypeOK
  <2>4. [charged EXCEPT !.wk = iw] \in NodeEntry
    BY <2>3 DEF NodeEntry
  <2>5. node' = [node EXCEPT ![r] = [charged EXCEPT !.wk = iw], ![v] = paid]
    BY <1>2, Zenon DEF AdminRecovery
  <2>6. /\ admin' = [addr |-> r, wk |-> iw]
        /\ owner' = [owner EXCEPT ![iw] = r]
        /\ MoveIndexerKey(admin.wk, iw)
        /\ UNCHANGED <<initialization, writersIndex, licenses, deployment>>
    BY <1>2, Zenon DEF AdminRecovery
  <2>. HIDE DEF charged, paid
  <2>7. node' \in [Address -> NodeEntry]
    BY <2>3, <2>4, <2>5 DEF TypeOK, LedgerTypeOK
  <2>. QED
    BY <2>1, <2>6, <2>7 DEF MoveIndexerKey, TypeOK, LedgerTypeOK
<1>. QED
  BY <1>1, <1>2

\* Charging the admin after the target's entry was put keeps the types.
LEMMA ChargeAdminType ==
  ASSUME LedgerTypeOK, NEW changed \in [Address -> NodeEntry],
         HasAdmin, AdminCanPay, ChargeAdmin(changed)
  PROVE  node' \in [Address -> NodeEntry]
<1>1. admin.addr \in Address
  BY DEF HasAdmin, LedgerTypeOK
<1>2. Debit(node[admin.addr], Fee) \in NodeEntry
  <2>1. node[admin.addr].balance >= Fee /\ Fee \in Nat
    BY MoneyAssumption DEF AdminCanPay
  <2>. QED
    BY <1>1, <2>1, DebitType DEF LedgerTypeOK
<1>. QED
  BY <1>2, Zenon DEF ChargeAdmin

\* An indexer's key goes back to the base: it has to be a key.
LEMMA AddIndexerType ==
  ASSUME TypeOK, NEW tx \in Tx, NEW r \in Address, NEW to \in Address,
         AddIndexer(tx, r, to), IsWriter(to) => node[to].wk \in Key
  PROVE  TypeOK'
<1>. DEFINE status == AddIndexerStatus(tx, r, to)
<1>1. CASE Refused(status)
  BY <1>1, RefusedType
<1>2. CASE ~Refused(status)
  <2>. DEFINE entry == [node[to] EXCEPT !.role = "INDEXER"]
              changed == [node EXCEPT ![to].role = "INDEXER"]
  <2>1. BatchTypeOK' /\ applied' \in SUBSET Tx /\ status = "SUCCESS"
    BY <1>2, StoredType DEF AddIndexer, Stored
  <2>2. HasAdmin /\ IsWriter(to) /\ AdminCanPay
    BY <2>1, Zenon DEF AdminStatus, AddIndexerStatus, AdminRequest
  <2>3. changed \in [Address -> NodeEntry]
    <3>1. node[to] \in NodeEntry
      BY DEF TypeOK, LedgerTypeOK
    <3>2. entry \in NodeEntry
      BY <3>1, RoleType DEF Role
    <3>3. changed = [node EXCEPT ![to] = entry]
      OBVIOUS
    <3>. HIDE DEF entry, changed
    <3>. QED
      BY <3>2, <3>3 DEF TypeOK, LedgerTypeOK
  <2>4. /\ ChargeAdmin(changed)
        /\ MoveIndexerKey(node[to].wk, node[to].wk)
        /\ UNCHANGED <<admin, initialization, owner, writersIndex, licenses, deployment>>
    BY <1>2, Zenon DEF AddIndexer
  <2>. HIDE DEF changed
  <2>5. node' \in [Address -> NodeEntry]
    BY <2>2, <2>3, <2>4, ChargeAdminType DEF TypeOK
  <2>. QED
    BY <2>1, <2>2, <2>4, <2>5 DEF MoveIndexerKey, TypeOK, LedgerTypeOK
<1>. QED
  BY <1>1, <1>2

\* #removeIndexer keeps the types.
LEMMA RemoveIndexerType ==
  ASSUME TypeOK, NEW tx \in Tx, NEW r \in Address, NEW to \in Address,
         RemoveIndexer(tx, r, to)
  PROVE  TypeOK'
<1>. DEFINE status == RemoveIndexerStatus(tx, r, to)
<1>1. CASE Refused(status)
  BY <1>1, RefusedType
<1>2. CASE ~Refused(status)
  <2>. DEFINE entry == [node[to] EXCEPT !.role = "WRITER"]
              changed == [node EXCEPT ![to].role = "WRITER"]
  <2>1. BatchTypeOK' /\ applied' \in SUBSET Tx /\ status = "SUCCESS"
    BY <1>2, StoredType DEF RemoveIndexer, Stored
  <2>2. HasAdmin /\ node[to].wk \in Key /\ AdminCanPay
    BY <2>1, Zenon DEF AdminStatus, RemoveIndexerStatus, AdminRequest, TypeOK, LedgerTypeOK
  <2>3. changed \in [Address -> NodeEntry]
    <3>1. node[to] \in NodeEntry
      BY DEF TypeOK, LedgerTypeOK
    <3>2. entry \in NodeEntry
      BY <3>1, RoleType DEF Role
    <3>3. changed = [node EXCEPT ![to] = entry]
      OBVIOUS
    <3>. HIDE DEF entry, changed
    <3>. QED
      BY <3>2, <3>3 DEF TypeOK, LedgerTypeOK
  <2>4. /\ ChargeAdmin(changed)
        /\ DemoteIndexerKey(node[to].wk)
        /\ writersIndex' = Append(writersIndex, to)
        /\ UNCHANGED <<admin, initialization, owner, licenses, deployment>>
    BY <1>2, Zenon DEF RemoveIndexer, IndexWriter
  <2>. HIDE DEF changed
  <2>5. node' \in [Address -> NodeEntry]
    BY <2>2, <2>3, <2>4, ChargeAdminType DEF TypeOK
  <2>6. writersIndex' \in Seq(Address)
    BY <2>4, AppendType DEF TypeOK, LedgerTypeOK
  <2>. QED
    BY <2>1, <2>2, <2>4, <2>5, <2>6 DEF DemoteIndexerKey, TypeOK, LedgerTypeOK
<1>. QED
  BY <1>1, <1>2

\* #handleApplyBanValidatorOperation keeps the types.
LEMMA BanValidatorType ==
  ASSUME TypeOK, NEW tx \in Tx, NEW r \in Address, NEW to \in Address,
         BanValidator(tx, r, to)
  PROVE  TypeOK'
<1>. DEFINE status == BanValidatorStatus(tx, r, to)
<1>1. CASE Refused(status)
  BY <1>1, RefusedType
<1>2. CASE ~Refused(status)
  <2>. DEFINE banned == [node[to] EXCEPT !.role = "READER"]
              entry == IF IsWriter(to) THEN WithdrawStake(banned) ELSE banned
              changed == [node EXCEPT ![to] = entry]
  <2>1. BatchTypeOK' /\ applied' \in SUBSET Tx /\ status = "SUCCESS"
    BY <1>2, StoredType DEF BanValidator, Stored
  <2>2. HasAdmin /\ AdminCanPay /\ (IsWriter(to) => CanWithdraw(node[to]))
    BY <2>1, Zenon DEF AdminStatus, BanValidatorStatus, AdminRequest
  <2>3. banned \in NodeEntry /\ banned.balance = node[to].balance /\ banned.staked = node[to].staked
    <3>1. node[to] \in NodeEntry
      BY DEF TypeOK, LedgerTypeOK
    <3>2. banned \in NodeEntry
      BY <3>1, RoleType DEF Role
    <3>. QED
      BY <3>1, <3>2 DEF NodeEntry
  <2>4. ASSUME IsWriter(to) PROVE WithdrawStake(banned) \in NodeEntry
    <3>1. CanWithdraw(banned)
      BY <2>2, <2>3, <2>4 DEF CanWithdraw
    <3>. QED
      BY <2>3, <3>1, WithdrawStakeType
  <2>5. entry \in NodeEntry
    BY <2>3, <2>4
  <2>6. /\ ChargeAdmin(changed)
        /\ writers' \subseteq writers
        /\ indexers' \subseteq indexers
        /\ UNCHANGED <<admin, initialization, owner, writersIndex, licenses, deployment>>
    <3>1. /\ ChargeAdmin(changed)
          /\ IF IsWriter(to) THEN RemoveWriterKey(node[to].wk)
                             ELSE UNCHANGED <<writers, indexers>>
          /\ UNCHANGED <<admin, initialization, owner, writersIndex, licenses, deployment>>
      BY <1>2, Zenon DEF BanValidator
    <3>. QED
      BY <3>1 DEF RemoveWriterKey
  <2>. HIDE DEF entry
  <2>7. changed \in [Address -> NodeEntry]
    BY <2>5 DEF TypeOK, LedgerTypeOK
  <2>. HIDE DEF changed
  <2>8. node' \in [Address -> NodeEntry]
    BY <2>2, <2>6, <2>7, ChargeAdminType DEF TypeOK
  <2>. QED
    BY <2>1, <2>6, <2>8 DEF TypeOK, LedgerTypeOK
<1>. QED
  BY <1>1, <1>2

\* #addWriter keeps the types.
LEMMA AddWriterType ==
  ASSUME TypeOK, NEW tx \in Tx, NEW r \in Address, NEW iw \in Key, NEW v \in Address,
         AddWriter(tx, r, iw, v)
  PROVE  TypeOK'
<1>. DEFINE status == AddWriterStatus(tx, r, iw, v)
<1>1. CASE Refused(status)
  BY <1>1, RefusedType
<1>2. CASE ~Refused(status)
  <2>. DEFINE charged == Debit(node[r], Fee)
              staked == StakeBalance(charged)
              entry == [staked EXCEPT !.role = "WRITER", !.wk = iw]
              paid == Credit(node[v], Share(75))
  <2>1. BatchTypeOK' /\ applied' \in SUBSET Tx /\ status = "SUCCESS"
    BY <1>2, StoredType DEF AddWriter, Stored
  <2>2. /\ ~(node[r].balance < Fee)
        /\ CanReceive(v, Share(75)) /\ CanStake(charged)
    BY <2>1 DEF AddWriterStatus
  <2>3. node[r] \in NodeEntry /\ node[v] \in NodeEntry /\ node[r].balance >= Fee
    <3>1. node[r] \in NodeEntry /\ node[v] \in NodeEntry
      BY DEF TypeOK, LedgerTypeOK
    <3>2. node[r].balance \in Nat
      BY <3>1, MoneyAssumption DEF NodeEntry
    <3>. QED
      BY <2>2, <3>1, <3>2, FeeType
  <2>4. charged \in NodeEntry /\ paid \in NodeEntry
    BY <2>2, <2>3, FeeType, DebitType, CreditType DEF CanReceive
  <2>5. staked \in NodeEntry
    BY <2>2, <2>4, StakeBalanceType
  <2>. HIDE DEF staked
  <2>6. entry \in NodeEntry
    BY <2>5 DEF NodeEntry, Role
  <2>7. /\ node' = [node EXCEPT ![r] = entry, ![v] = paid]
        /\ writers' = writers \union {iw}
        /\ owner' = [owner EXCEPT ![iw] = IF owner[iw] = NoAddress THEN r ELSE owner[iw]]
        /\ writersIndex' = Append(writersIndex, r)
        /\ UNCHANGED <<admin, initialization, licenses, deployment, indexers>>
    BY <1>2, Zenon DEF AddWriter, IndexWriter, staked
  <2>. HIDE DEF entry, paid
  <2>8. node' \in [Address -> NodeEntry]
    BY <2>4, <2>6, <2>7 DEF TypeOK, LedgerTypeOK
  <2>9. writersIndex' \in Seq(Address)
    BY <2>7, AppendType DEF TypeOK, LedgerTypeOK
  <2>10. owner' \in [Key -> Address \union {NoAddress}]
    BY <2>7 DEF TypeOK, LedgerTypeOK
  <2>. QED
    BY <2>1, <2>7, <2>8, <2>9, <2>10 DEF TypeOK, LedgerTypeOK
<1>. QED
  BY <1>1, <1>2

\* #removeWriter keeps the types.
LEMMA RemoveWriterType ==
  ASSUME TypeOK, NEW tx \in Tx, NEW r \in Address, NEW iw \in Key, NEW v \in Address,
         RemoveWriter(tx, r, iw, v)
  PROVE  TypeOK'
<1>. DEFINE status == RemoveWriterStatus(tx, r, iw, v)
<1>1. CASE Refused(status)
  BY <1>1, RefusedType
<1>2. CASE ~Refused(status)
  <2>. DEFINE charged == Debit(node[r], Fee)
              withdrawn == WithdrawStake(charged)
              entry == [withdrawn EXCEPT !.role = "WHITELISTED"]
              paid == Credit(node[v], Share(75))
  <2>1. BatchTypeOK' /\ applied' \in SUBSET Tx /\ status = "SUCCESS"
    BY <1>2, StoredType DEF RemoveWriter, Stored
  <2>2. /\ ~(node[r].balance < Fee)
        /\ CanReceive(v, Share(75)) /\ CanWithdraw(charged)
    BY <2>1 DEF RemoveWriterStatus
  <2>3. node[r] \in NodeEntry /\ node[v] \in NodeEntry /\ node[r].balance >= Fee
    <3>1. node[r] \in NodeEntry /\ node[v] \in NodeEntry
      BY DEF TypeOK, LedgerTypeOK
    <3>2. node[r].balance \in Nat
      BY <3>1, MoneyAssumption DEF NodeEntry
    <3>. QED
      BY <2>2, <3>1, <3>2, FeeType
  <2>4. charged \in NodeEntry /\ paid \in NodeEntry
    BY <2>2, <2>3, FeeType, DebitType, CreditType DEF CanReceive
  <2>5. withdrawn \in NodeEntry
    BY <2>2, <2>4, WithdrawStakeType
  <2>. HIDE DEF withdrawn
  <2>6. entry \in NodeEntry
    BY <2>5, RoleType DEF Role
  <2>7. /\ node' = [node EXCEPT ![r] = entry, ![v] = paid]
        /\ RemoveWriterKey(node[r].wk)
        /\ UNCHANGED <<admin, initialization, owner, writersIndex, licenses, deployment>>
    BY <1>2, Zenon DEF RemoveWriter, withdrawn
  <2>. HIDE DEF entry, paid
  <2>8. node' \in [Address -> NodeEntry]
    BY <2>4, <2>6, <2>7 DEF TypeOK, LedgerTypeOK
  <2>. QED
    BY <2>1, <2>7, <2>8 DEF RemoveWriterKey, TypeOK, LedgerTypeOK
<1>. QED
  BY <1>1, <1>2

\* #handleApplyBootstrapDeploymentOperation keeps the types.
LEMMA BootstrapDeploymentType ==
  ASSUME TypeOK, NEW tx \in Tx, NEW r \in Address, NEW bs \in Subnet, NEW v \in Address,
         BootstrapDeployment(tx, r, bs, v)
  PROVE  TypeOK'
<1>. DEFINE status == BootstrapDeploymentStatus(tx, r, bs, v)
<1>1. CASE Refused(status)
  BY <1>1, RefusedType
<1>2. CASE ~Refused(status)
  <2>1. BatchTypeOK' /\ applied' \in SUBSET Tx /\ status = "SUCCESS"
    BY <1>2, StoredType DEF BootstrapDeployment, Stored
  <2>2. Cosigned(r, v) /\ ~(node[r].balance < Fee) /\ CanReceive(v, Share(75))
    BY <2>1 DEF BootstrapDeploymentStatus
  <2>3. node \in [Address -> NodeEntry] /\ node[r].balance \in Nat
    BY MoneyAssumption DEF TypeOK, LedgerTypeOK, NodeEntry
  <2>4. r # v /\ node[r].balance >= Fee /\ node[v].balance + Share(75) <= MaxBalance
    BY <2>2, <2>3, FeeType DEF Cosigned, CanReceive
  <2>5. /\ node' = [node EXCEPT ![r] = Debit(node[r], Fee), ![v] = Credit(node[v], Share(75))]
        /\ deployment' = [deployment EXCEPT ![bs] = r]
        /\ UNCHANGED <<admin, initialization, owner, writersIndex, licenses,
                       writers, indexers>>
    BY <1>2, <2>4, Zenon DEF BootstrapDeployment
  <2>6. node' \in [Address -> NodeEntry]
    BY <2>3, <2>4, <2>5, FeeType, PaymentType
  <2>. QED
    BY <2>1, <2>5, <2>6 DEF TypeOK, LedgerTypeOK
<1>. QED
  BY <1>1, <1>2

\* #handleApplyTxOperation keeps the types, whoever the creator is.
LEMMA TxOperationType ==
  ASSUME TypeOK, NEW tx \in Tx, NEW r \in Address, NEW bs \in Subnet, NEW v \in Address,
         TxOperation(tx, r, bs, v)
  PROVE  TypeOK'
<1>. DEFINE status == TxStatus(tx, r, bs, v)
            creator == deployment[bs]
            half == Share(50)
            charged == [node EXCEPT ![r] = Debit(node[r], Fee), ![v] = Credit(node[v], half)]
            share == CreatorShare(r, creator)
<1>1. CASE Refused(status)
  BY <1>1, RefusedType
<1>2. CASE ~Refused(status)
  <2>1. BatchTypeOK' /\ applied' \in SUBSET Tx /\ status = "SUCCESS"
    BY <1>2, StoredType DEF TxOperation, Stored
  <2>2. /\ Cosigned(r, v) /\ ~(node[r].balance < Fee)
        /\ CanPayTxFee(r, v, creator) /\ creator # NoAddress
    BY <2>1 DEF TxStatus
  <2>3. /\ node \in [Address -> NodeEntry] /\ creator \in Address
        /\ node[r].balance \in Nat /\ node[v].balance \in Nat /\ node[creator].balance \in Nat
    <3>1. node \in [Address -> NodeEntry] /\ creator \in Address
      BY <2>2 DEF TypeOK, LedgerTypeOK
    <3>2. \A a \in Address : node[a].balance \in Nat
      BY <3>1, MoneyAssumption DEF NodeEntry
    <3>. QED
      BY <3>1, <3>2
  <2>4. r # v /\ node[r].balance >= Fee /\ node[v].balance + half <= MaxBalance
    BY <2>2, <2>3, FeeType DEF Cosigned, CanReceive, CanPayTxFee
  <2>5. /\ node' = [charged EXCEPT ![creator] = Credit(charged[creator], share)]
        /\ UNCHANGED <<admin, initialization, owner, writersIndex, licenses,
                       deployment, writers, indexers>>
    BY <1>2, <2>4, Zenon DEF TxOperation, PayTxFee
  <2>6. charged \in [Address -> NodeEntry]
    BY <2>3, <2>4, FeeType, PaymentType
  <2>7. share \in Nat /\ charged[creator].balance + share <= MaxBalance
    <3>1. CASE creator = r
      <4>1. charged[r] \in NodeEntry
        BY <2>6
      <4>. QED
        BY <3>1, <4>1, MoneyAssumption DEF CreatorShare, NodeEntry
    <3>2. CASE creator = v
      <4>1. node[v].balance + (half + Share(25)) <= MaxBalance
        BY <2>2, <3>2 DEF CanPayTxFee, CanReceive
      <4>2. charged[v].balance = node[v].balance + half
        BY <2>3, <2>4 DEF Credit, NodeEntry
      <4>3. share = Share(25)
        BY <2>4, <3>2 DEF CreatorShare
      <4>. HIDE DEF half, charged, share
      <4>4. half \in Nat
        BY FeeType DEF half
      <4>. QED
        BY <2>3, <3>2, <4>1, <4>2, <4>3, <4>4, FeeType
    <3>3. CASE creator \notin {r, v}
      <4>1. node[creator].balance + Share(25) <= MaxBalance
        BY <2>2, <3>3 DEF CanPayTxFee, CanReceive
      <4>2. charged[creator] = node[creator]
        BY <2>3, <3>3
      <4>3. share = Share(25)
        BY <3>3 DEF CreatorShare
      <4>. QED
        BY <4>1, <4>2, <4>3, FeeType
    <3>. QED
      BY <3>1, <3>2, <3>3
  <2>. HIDE DEF charged, share, creator
  <2>8. Credit(charged[creator], share) \in NodeEntry
    BY <2>3, <2>6, <2>7, CreditType
  <2>9. node' \in [Address -> NodeEntry]
    BY <2>5, <2>6, <2>8
  <2>. QED
    BY <2>1, <2>5, <2>9 DEF TypeOK, LedgerTypeOK
<1>. QED
  BY <1>1, <1>2

\* #transfer keeps the types, to oneself, the validator or a stranger.
LEMMA TransferType ==
  ASSUME TypeOK, NEW tx \in Tx, NEW r \in Address, NEW to \in Address,
         NEW amount \in Amount, NEW v \in Address, Transfer(tx, r, to, amount, v)
  PROVE  TypeOK'
<1>. DEFINE status == TransferStatus(tx, r, to, amount, v)
            cost == Deducted(r, to, amount)
            reward == Share(75)
            charged == [node EXCEPT ![r] = Debit(node[r], cost), ![v] = Credit(node[v], reward)]
<1>1. CASE Refused(status)
  BY <1>1, RefusedType
<1>2. CASE Throw
  BY <1>2 DEF Throw, ledger, TypeOK, LedgerTypeOK, BatchTypeOK
<1>3. CASE ~Refused(status) /\ ~Throw
  <2>1. BatchTypeOK' /\ applied' \in SUBSET Tx /\ status = "SUCCESS"
    BY <1>3, StoredType DEF Transfer, Stored
  <2>2. /\ Cosigned(r, v) /\ ~(node[r].balance < cost)
        /\ to \notin {r, v} => CanReceive(to, amount)
        /\ CanReceive(v, reward + (IF to = v THEN amount ELSE 0))
    BY <2>1 DEF TransferStatus
  <2>3. /\ node \in [Address -> NodeEntry]
        /\ \A a \in Address : node[a].balance \in Nat
        /\ amount \in Nat /\ reward \in Nat /\ cost \in Nat
    <3>1. node \in [Address -> NodeEntry]
      BY DEF TypeOK, LedgerTypeOK
    <3>2. \A a \in Address : node[a].balance \in Nat
      BY <3>1, MoneyAssumption DEF NodeEntry
    <3>3. amount \in Nat
      BY MoneyAssumption
    <3>4. cost \in Nat
      BY <3>3, FeeType DEF Deducted
    <3>. QED
      BY <3>1, <3>2, <3>3, <3>4, FeeType
  <2>4. r # v /\ node[r].balance >= cost /\ node[v].balance + reward <= MaxBalance
    <3>. HIDE DEF cost, reward
    <3>. QED
      BY <2>2, <2>3, MoneyAssumption DEF Cosigned, CanReceive
  <2>5. /\ node' = IF to = r THEN charged
                   ELSE [charged EXCEPT ![to] = Receive(charged[to], amount)]
        /\ UNCHANGED <<admin, initialization, owner, writersIndex, licenses,
                       deployment, writers, indexers>>
    BY <1>3, <2>4, Zenon DEF Transfer, Pay
  <2>6. charged \in [Address -> NodeEntry]
    <3>. HIDE DEF cost, reward
    <3>. QED
      BY <2>3, <2>4, PaymentType
  <2>7. ASSUME to # r PROVE charged[to].balance + amount <= MaxBalance
    <3>1. CASE to = v
      <4>1. node[v].balance + (reward + amount) <= MaxBalance
        BY <2>2, <3>1 DEF CanReceive
      <4>2. charged[v].balance = node[v].balance + reward
        BY <2>3, <2>4 DEF Credit, NodeEntry
      <4>. HIDE DEF charged, reward
      <4>. QED
        BY <2>3, <3>1, <4>1, <4>2
    <3>2. CASE to # v
      <4>1. charged[to] = node[to]
        BY <2>3, <2>7, <3>2
      <4>2. node[to].balance + amount <= MaxBalance
        BY <2>2, <2>7, <3>2 DEF CanReceive
      <4>. QED
        BY <4>1, <4>2
    <3>. QED
      BY <3>1, <3>2
  <2>. HIDE DEF charged
  <2>8. ASSUME to # r PROVE Receive(charged[to], amount) \in NodeEntry
    <3>. DEFINE open == [charged[to] EXCEPT !.role = "READER"]
    <3>1. charged[to] \in NodeEntry
      BY <2>6
    <3>2. open \in NodeEntry /\ open.balance = charged[to].balance
      BY <3>1, RoleType DEF Role, NodeEntry
    <3>. HIDE DEF open
    <3>3. Credit(open, amount) \in NodeEntry /\ Credit(charged[to], amount) \in NodeEntry
      BY <2>3, <2>7, <2>8, <3>1, <3>2, CreditType
    <3>. QED
      BY <3>3 DEF Receive, open
  <2>9. node' \in [Address -> NodeEntry]
    BY <2>5, <2>6, <2>8
  <2>. QED
    BY <2>1, <2>5, <2>9 DEF TypeOK, LedgerTypeOK
<1>. QED
  BY <1>1, <1>2, <1>3

-----------------------------------------------------------------------------
(* The invariant *)

\* Before the first operation of the network there is nothing but the key of
\* its first core, and only that core can append.
BeforeLaunch ==
  ~HasAdmin => /\ \A a \in Address : node[a] = NoEntry
               /\ \A k \in Key : owner[k] = NoAddress
               /\ writers = {Bootstrap}
               /\ indexers \subseteq writers

\* The batch being applied comes from a key that is still a writer's: no
\* operation of a batch removes the key the batch came from.
BatchOfWriter == Open => batch.from \in writers

\* The converse of IndexersAreRecorded: a node with the role takes part in
\* consensus.  The admin that removed itself has the role and does not.
IndexersTakePart ==
  HasAdmin => \A a \in Address : IsIndexer(a) /\ a # admin.addr => node[a].wk \in indexers

Inv ==
  /\ TypeOK
  /\ StakeMatchesRole
  /\ KeysBelongToNodes
  /\ WritersAreValidators
  /\ AdminStaysInOffice
  /\ IndexersAreRecorded
  /\ IndexersTakePart
  /\ indexers \subseteq writers
  /\ BeforeLaunch
  /\ BatchOfWriter

\* What the invariant says, once there is an admin, of nodes, keys and stakes
Roster ==
  /\ StakeMatchesRole
  /\ KeysBelongToNodes
  /\ WritersAreValidators
  /\ AdminStaysInOffice
  /\ IndexersAreRecorded
  /\ IndexersTakePart
  /\ indexers \subseteq writers

\* Before the first batch the base has its bootstrap writer and no admin.
LEMMA InitInv == Init => Inv
<1>. SUFFICES ASSUME Init PROVE Inv
  OBVIOUS
<1>1. TypeOK
  BY InitType
<1>2. /\ ~HasAdmin
      /\ \A a \in Address : node[a] = NoEntry
      /\ \A k \in Key : owner[k] = NoAddress
      /\ writers = {Bootstrap} /\ indexers = {Bootstrap}
      /\ ~Open
  BY KeyAssumption DEF Init, HasAdmin, Open, Idle
<1>3. StakeMatchesRole /\ KeysBelongToNodes
  BY <1>2 DEF StakeMatchesRole, KeysBelongToNodes, NoEntry, IsWriter
<1>. QED
  BY <1>1, <1>2, <1>3 DEF Inv, WritersAreValidators, AdminStaysInOffice,
     IndexersAreRecorded, IndexersTakePart, BeforeLaunch, BatchOfWriter

\* A step that neither gives nor takes roles or stakes, nor a writer's key
SameStanding ==
  /\ UNCHANGED <<admin, owner, writers, indexers>>
  /\ \A a \in Address : /\ \/ node'[a].wk = node[a].wk
                           \/ ~IsWriter(a) /\ node'[a].wk = ZeroKey
                        /\ node'[a].staked = node[a].staked
                        /\ IsWriter(a)' = IsWriter(a)
                        /\ IsIndexer(a)' = IsIndexer(a)

\* A step that leaves roles, keys, stakes and the base alone keeps the roster.
LEMMA SameStandingInv ==
  ASSUME Inv, HasAdmin, SameStanding
  PROVE  Roster'
<1>1. StakeMatchesRole'
  BY DEF Inv, SameStanding, StakeMatchesRole
<1>2. KeysBelongToNodes'
  BY DEF Inv, SameStanding, KeysBelongToNodes
<1>3. WritersAreValidators'
  <2>1. \A k \in writers : /\ owner[k] \in Address /\ owner[k] # NoAddress
                            /\ node[owner[k]].wk = k /\ IsWriter(owner[k])
    BY DEF Inv, WritersAreValidators, TypeOK, LedgerTypeOK
  <2>2. ASSUME NEW k \in writers'
        PROVE  owner'[k] # NoAddress /\ node'[owner'[k]].wk = k /\ IsWriter(owner[k])'
    BY <2>1 DEF SameStanding
  <2>3. ASSUME NEW a \in Address, IsWriter(a)' PROVE node'[a].wk \in writers'
    BY <2>3 DEF Inv, SameStanding, WritersAreValidators
  <2>. QED
    BY <2>2, <2>3 DEF WritersAreValidators
<1>4. AdminStaysInOffice'
  <2>1. admin.addr \in Address
    BY DEF Inv, HasAdmin, TypeOK, LedgerTypeOK
  <2>. QED
    BY <2>1 DEF Inv, SameStanding, AdminStaysInOffice, HasAdmin, IsIndexer, IsWriter
<1>5. IndexersAreRecorded'
  <2>1. \A k \in indexers : owner[k] \in Address
    BY DEF Inv, HasAdmin, IndexersAreRecorded, TypeOK, LedgerTypeOK
  <2>. QED
    BY <2>1 DEF Inv, SameStanding, IndexersAreRecorded, HasAdmin
<1>6. (indexers \subseteq writers)'
  BY DEF Inv, SameStanding
<1>7. IndexersTakePart'
  BY DEF Inv, SameStanding, IndexersTakePart, HasAdmin, IsIndexer, IsWriter
<1>. QED
  BY <1>1, <1>2, <1>3, <1>4, <1>5, <1>6, <1>7 DEF Roster

\* Everybody but x keeps role, key and stake.
OthersStand(x) ==
  \A a \in Address \ {x} : /\ node'[a].wk = node[a].wk
                           /\ node'[a].staked = node[a].staked
                           /\ IsWriter(a)' = IsWriter(a)
                           /\ IsIndexer(a)' = IsIndexer(a)

\* A node that is not a writer becomes one, at a key that is new or its own.
LEMMA JoinInv ==
  ASSUME Inv, HasAdmin, NEW x \in Address, NEW k \in Key,
         ~IsWriter(x), owner[k] \in {NoAddress, x},
         UNCHANGED <<admin, indexers>>, writers' = writers \union {k},
         owner' = [owner EXCEPT ![k] = x],
         node'[x].wk = k, node'[x].staked = Stake, IsWriter(x)', ~IsIndexer(x)',
         OthersStand(x)
  PROVE  Roster'
<1>. USE DEF Inv, OthersStand
<1>1. \A j \in Key : j # k => owner'[j] = owner[j]
  BY DEF TypeOK, LedgerTypeOK
<1>2. owner'[k] = x
  BY DEF TypeOK, LedgerTypeOK
<1>3. \A a \in Address : a # x => node[a].wk # k
  BY AddressAssumption, KeyAssumption DEF KeysBelongToNodes
<1>4. \A j \in writers : j \in Key /\ owner[j] \in Address \ {x} /\ j # k
  BY AddressAssumption DEF WritersAreValidators, TypeOK, LedgerTypeOK
<1>5. StakeMatchesRole'
  BY DEF StakeMatchesRole
<1>6. KeysBelongToNodes'
  <2>1. ASSUME NEW a \in Address \ {x}, node'[a].wk # ZeroKey
        PROVE  owner'[node'[a].wk] = a
    <3>1. node'[a].wk = node[a].wk /\ node[a].wk \in Key
      BY <2>1 DEF TypeOK, LedgerTypeOK, NodeEntry
    <3>2. owner[node[a].wk] = a
      BY <2>1, <3>1 DEF KeysBelongToNodes
    <3>. QED
      BY <1>1, <1>3, <3>1, <3>2
  <2>. QED
    BY <1>2, <2>1 DEF KeysBelongToNodes
<1>7. WritersAreValidators'
  BY <1>1, <1>2, <1>4, AddressAssumption DEF WritersAreValidators, HasAdmin
<1>8. AdminStaysInOffice'
  BY DEF AdminStaysInOffice, HasAdmin, TypeOK, LedgerTypeOK, IsIndexer, IsWriter
<1>9. IndexersAreRecorded'
  BY <1>1, <1>4 DEF IndexersAreRecorded, HasAdmin
<1>10. (indexers \subseteq writers)'
  OBVIOUS
<1>11. IndexersTakePart'
  BY DEF IndexersTakePart, HasAdmin
<1>. QED
  BY <1>5, <1>6, <1>7, <1>8, <1>9, <1>10, <1>11 DEF Roster

\* A writer other than the admin loses its role, its stake and its place in
\* the base; its key stays registered to it.
LEMMA LeaveInv ==
  ASSUME Inv, HasAdmin, NEW x \in Address, IsWriter(x), x # admin.addr,
         UNCHANGED <<admin, owner>>, RemoveWriterKey(node[x].wk),
         node'[x].wk = node[x].wk, node'[x].staked = 0, ~IsWriter(x)', ~IsIndexer(x)',
         OthersStand(x)
  PROVE  /\ Roster'
         /\ \A k \in writers : k # node[x].wk => k \in writers'
<1>. USE DEF Inv, OthersStand, RemoveWriterKey
<1>1. node[x].wk \in writers /\ node[x].wk \in Key
  BY DEF WritersAreValidators, TypeOK, LedgerTypeOK
<1>2. owner[node[x].wk] = x
  BY <1>1, KeyAssumption DEF KeysBelongToNodes
<1>3. \A a \in Address \ {x} : IsWriter(a) => node[a].wk # node[x].wk
  BY <1>1, <1>2, KeyAssumption DEF KeysBelongToNodes
<1>4. \A k \in writers' : k \in Key /\ owner[k] \in Address \ {x}
  BY <1>2 DEF WritersAreValidators, TypeOK, LedgerTypeOK
<1>5. StakeMatchesRole'
  BY DEF StakeMatchesRole
<1>6. KeysBelongToNodes'
  BY DEF KeysBelongToNodes
<1>7. WritersAreValidators'
  BY <1>3, <1>4 DEF WritersAreValidators, HasAdmin
<1>8. AdminStaysInOffice'
  <2>1. admin.addr \in Address \ {x}
    BY DEF HasAdmin, TypeOK, LedgerTypeOK
  <2>2. IsWriter(admin.addr)
    BY DEF AdminStaysInOffice, IsWriter
  <2>3. admin.wk # node[x].wk
    BY <1>3, <2>1, <2>2 DEF AdminStaysInOffice
  <2>. QED
    BY <2>1, <2>3 DEF AdminStaysInOffice, HasAdmin, IsIndexer
<1>9. IndexersAreRecorded'
  BY <1>4 DEF IndexersAreRecorded, HasAdmin
<1>10. (indexers \subseteq writers)'
  OBVIOUS
<1>11. IndexersTakePart'
  BY <1>3 DEF IndexersTakePart, HasAdmin, IsIndexer, IsWriter
<1>. QED
  BY <1>5, <1>6, <1>7, <1>8, <1>9, <1>10, <1>11 DEF Roster

\* A writer starts or stops taking part in consensus.
LEMMA PromoteInv ==
  ASSUME Inv, HasAdmin, NEW x \in Address, IsWriter(x),
         UNCHANGED <<admin, owner, writers>>, OthersStand(x),
         node'[x].wk = node[x].wk, node'[x].staked = node[x].staked, IsWriter(x)',
         x = admin.addr => IsIndexer(x)',
         \/ IsIndexer(x)' /\ indexers' = indexers \union {node[x].wk}
         \/ /\ indexers' = indexers \ {node[x].wk}
            /\ x # admin.addr => ~IsIndexer(x)'
  PROVE  Roster'
<1>. USE DEF Inv, OthersStand
<1>1. node[x].wk \in writers /\ owner[node[x].wk] = x
  BY KeyAssumption DEF WritersAreValidators, KeysBelongToNodes, TypeOK, LedgerTypeOK
<1>2. \A k \in writers : owner[k] \in Address /\ node[owner[k]].wk = k
  BY DEF WritersAreValidators, TypeOK, LedgerTypeOK
<1>3. StakeMatchesRole'
  BY DEF StakeMatchesRole
<1>4. KeysBelongToNodes'
  BY DEF KeysBelongToNodes
<1>5. WritersAreValidators'
  BY <1>2 DEF WritersAreValidators, HasAdmin
<1>6. AdminStaysInOffice'
  <2>1. admin.addr \in Address
    BY DEF HasAdmin, TypeOK, LedgerTypeOK
  <2>2. node'[admin.addr].wk = node[admin.addr].wk
    BY <2>1
  <2>3. IsIndexer(admin.addr)'
    BY <2>1 DEF AdminStaysInOffice, IsIndexer
  <2>. QED
    BY <2>2, <2>3 DEF AdminStaysInOffice, HasAdmin, IsIndexer
<1>7. IndexersAreRecorded'
  <2>1. ASSUME NEW k \in indexers'
        PROVE  owner[k] # NoAddress /\ IsIndexer(owner[k])'
    <3>1. CASE k = node[x].wk
      BY <3>1, <1>1, AddressAssumption
    <3>2. CASE k # node[x].wk
      <4>1. k \in indexers /\ IsIndexer(owner[k])
        BY <3>2 DEF IndexersAreRecorded
      <4>2. owner[k] \in Address \ {x}
        BY <4>1, <3>2, <1>2
      <4>. QED
        BY <4>1, <4>2, AddressAssumption
    <3>. QED
      BY <3>1, <3>2
  <2>. QED
    BY <2>1 DEF IndexersAreRecorded
<1>8. (indexers \subseteq writers)'
  BY <1>1
<1>9. IndexersTakePart'
  <2>1. ASSUME NEW a \in Address \ {x}, IsIndexer(a), a # admin.addr
        PROVE  node[a].wk \in indexers /\ node[a].wk # node[x].wk
    <3>1. node[a].wk \in indexers /\ node[a].wk \in writers
      BY <2>1 DEF IndexersTakePart
    <3>. QED
      BY <1>1, <3>1, KeyAssumption DEF KeysBelongToNodes, TypeOK, LedgerTypeOK
  <2>2. ASSUME NEW a \in Address, IsIndexer(a)', a # admin.addr
        PROVE  node'[a].wk \in indexers'
    BY <2>1, <2>2
  <2>. QED
    BY <2>2 DEF IndexersTakePart
<1>. QED
  BY <1>3, <1>4, <1>5, <1>6, <1>7, <1>8, <1>9 DEF Roster

\* The admin moves to a key nobody had before.
LEMMA RecoverInv ==
  ASSUME Inv, HasAdmin, NEW new \in Key, owner[new] = NoAddress,
         MoveIndexerKey(admin.wk, new),
         admin' = [addr |-> admin.addr, wk |-> new],
         owner' = [owner EXCEPT ![new] = admin.addr],
         node'[admin.addr].wk = new,
         node'[admin.addr].staked = node[admin.addr].staked,
         node'[admin.addr].role = node[admin.addr].role,
         OthersStand(admin.addr)
  PROVE  /\ Roster'
         /\ \A k \in writers : k # admin.wk => k \in writers'
<1>. USE DEF Inv, OthersStand, MoveIndexerKey
<1>. DEFINE x == admin.addr
<1>1. /\ x \in Address /\ admin.wk \in writers /\ node[x].role = "INDEXER"
      /\ admin' = [addr |-> x, wk |-> new] /\ HasAdmin'
  BY DEF AdminStaysInOffice, HasAdmin, TypeOK, LedgerTypeOK
<1>2. owner'[new] = x /\ \A j \in Key : j # new => owner'[j] = owner[j]
  BY DEF TypeOK, LedgerTypeOK
<1>3. owner[admin.wk] = x /\ node[x].wk = admin.wk
  BY <1>1, KeyAssumption DEF KeysBelongToNodes, AdminStaysInOffice, TypeOK, LedgerTypeOK
<1>4. \A j \in writers \ {admin.wk} :
        j \in Key /\ j # new /\ owner[j] \in Address \ {x} /\ node[owner[j]].wk = j
  BY <1>3 DEF WritersAreValidators, TypeOK, LedgerTypeOK
<1>5. \A a \in Address \ {x} : IsWriter(a) => node[a].wk \in writers \ {admin.wk}
  BY <1>3, KeyAssumption DEF WritersAreValidators, KeysBelongToNodes, TypeOK, LedgerTypeOK
<1>. HIDE DEF x
<1>6. StakeMatchesRole'
  BY <1>1 DEF StakeMatchesRole, IsWriter, x
<1>7. KeysBelongToNodes'
  <2>. SUFFICES ASSUME NEW a \in Address, node'[a].wk # ZeroKey
                PROVE  owner'[node'[a].wk] = a
    BY DEF KeysBelongToNodes
  <2>1. CASE a = x
    BY <2>1, <1>2 DEF x
  <2>2. CASE a # x
    <3>1. node'[a].wk = node[a].wk /\ node[a].wk \in Key
      BY <2>2 DEF x, TypeOK, LedgerTypeOK, NodeEntry
    <3>2. owner[node[a].wk] = a /\ node[a].wk # new
      BY <3>1, AddressAssumption DEF KeysBelongToNodes
    <3>. QED
      BY <1>2, <3>1, <3>2
  <2>. QED
    BY <2>1, <2>2
<1>8. WritersAreValidators'
  <2>1. ASSUME NEW k \in writers'
        PROVE  owner'[k] # NoAddress /\ node'[owner'[k]].wk = k /\ IsWriter(owner[k])'
    <3>1. CASE k = new
      BY <3>1, <1>1, <1>2, AddressAssumption DEF IsWriter, x
    <3>2. CASE k # new
      BY <3>2, <1>1, <1>2, <1>4 DEF WritersAreValidators, x
    <3>. QED
      BY <3>1, <3>2
  <2>2. ASSUME NEW a \in Address, IsWriter(a)'
        PROVE  node'[a].wk \in writers'
    BY <2>2, <1>1, <1>5 DEF x
  <2>. QED
    BY <2>1, <2>2 DEF WritersAreValidators
<1>9. AdminStaysInOffice'
  BY <1>1 DEF AdminStaysInOffice, x
<1>10. IndexersAreRecorded'
  <2>1. ASSUME NEW k \in indexers'
        PROVE  owner'[k] # NoAddress /\ IsIndexer(owner[k])'
    <3>1. CASE k = new
      BY <3>1, <1>1, <1>2, AddressAssumption DEF IsIndexer, x
    <3>2. CASE k # new
      BY <3>2, <1>1, <1>2, <1>4 DEF IndexersAreRecorded, x
    <3>. QED
      BY <3>1, <3>2
  <2>. QED
    BY <2>1 DEF IndexersAreRecorded
<1>11. (indexers \subseteq writers)'
  OBVIOUS
<1>12. IndexersTakePart'
  <2>1. ASSUME NEW a \in Address \ {x}, IsIndexer(a) PROVE node[a].wk \in indexers'
    BY <2>1, <1>1, <1>5 DEF IndexersTakePart, IsIndexer, IsWriter, x
  <2>. QED
    BY <1>1, <2>1 DEF IndexersTakePart, x
<1>. QED
  BY <1>6, <1>7, <1>8, <1>9, <1>10, <1>11, <1>12 DEF Roster

\* The first operation of the network makes the roster of one node.
LEMMA LaunchInv ==
  ASSUME Inv, ~HasAdmin, NEW x \in Address,
         UNCHANGED <<writers, indexers>>,
         admin' = [addr |-> x, wk |-> Bootstrap],
         owner' = [owner EXCEPT ![Bootstrap] = x],
         node'[x].role = "INDEXER", node'[x].wk = Bootstrap, node'[x].staked = Stake,
         \A a \in Address \ {x} : node'[a] = node[a]
  PROVE  Roster' /\ HasAdmin'
<1>. USE DEF Inv, BeforeLaunch
<1>1. owner'[Bootstrap] = x /\ HasAdmin'
  BY KeyAssumption, AddressAssumption DEF HasAdmin, TypeOK, LedgerTypeOK
<1>2. \A a \in Address \ {x} : node'[a] = NoEntry
  OBVIOUS
<1>3. StakeMatchesRole' /\ KeysBelongToNodes'
  BY <1>1, <1>2 DEF StakeMatchesRole, KeysBelongToNodes, NoEntry, IsWriter
<1>4. WritersAreValidators'
  BY <1>1, <1>2, AddressAssumption DEF WritersAreValidators, NoEntry, IsWriter
<1>5. AdminStaysInOffice'
  BY <1>1 DEF AdminStaysInOffice
<1>6. IndexersAreRecorded' /\ (indexers \subseteq writers)'
  BY <1>1, AddressAssumption DEF IndexersAreRecorded, IsIndexer
<1>7. IndexersTakePart'
  BY <1>2 DEF IndexersTakePart, IsIndexer, NoEntry
<1>. QED
  BY <1>1, <1>3, <1>4, <1>5, <1>6, <1>7 DEF Roster

-----------------------------------------------------------------------------
(* Every operation preserves the invariant *)

\* After the launch the roster is all of the invariant.
LEMMA RosterInv ==
  ASSUME TypeOK', Roster', HasAdmin', BatchOfWriter'
  PROVE  Inv'
  BY DEF Roster, Inv, BeforeLaunch

\* The batch of a writer stays the batch of that writer.
LEMMA CountFrom ==
  ASSUME TypeOK, NEW s, Count(s)
  PROVE  batch'.from = batch.from
  BY DEF Count, TypeOK, BatchTypeOK

\* A step that changes only balances and records keeps the invariant.
LEMMA StandStillInv ==
  ASSUME Inv, TypeOK', HasAdmin, SameStanding, batch'.from = batch.from
  PROVE  Inv'
<1>1. Roster' /\ HasAdmin'
  BY SameStandingInv DEF SameStanding, HasAdmin
<1>2. BatchOfWriter'
  BY DEF Inv, BatchOfWriter, SameStanding, Open
<1>. QED
  BY <1>1, <1>2, RosterInv

\* A refused node keeps the invariant.
LEMMA RefusedInv ==
  ASSUME Inv, NEW s, Refused(s)
  PROVE  Inv'
<1>1. TypeOK'
  BY RefusedType DEF Inv
<1>2. UNCHANGED ledger /\ batch'.from = batch.from
  BY CountFrom DEF Refused, Inv
<1>3. BatchOfWriter'
  BY <1>2 DEF Inv, BatchOfWriter, Open, ledger
<1>. QED
  BY <1>1, <1>2, <1>3 DEF Inv, ledger, StakeMatchesRole, KeysBelongToNodes,
     WritersAreValidators, AdminStaysInOffice, IndexersAreRecorded, IndexersTakePart,
     BeforeLaunch, HasAdmin, IsWriter, IsIndexer

\* Without an admin there is no validator that could co-sign anything.
LEMMA CosignedHasAdmin ==
  ASSUME Inv, NEW r, NEW v \in Address, Cosigned(r, v)
  PROVE  /\ HasAdmin /\ r # v /\ IsWriter(v) /\ batch.from = node[v].wk
         /\ batch.from \in writers
<1>1. HasAdmin
  BY DEF Cosigned, IsValidatorValid, Inv, BeforeLaunch, IsWriter, NoEntry
<1>. QED
  BY <1>1 DEF Cosigned, IsValidatorValid, Inv, WritersAreValidators

\* Paying and being paid changes nobody's role, key or stake.
LEMMA BalanceStands ==
  ASSUME NEW e \in NodeEntry, NEW x
  PROVE  /\ Credit(e, x).role = e.role /\ Debit(e, x).role = e.role
         /\ Credit(e, x).wk = e.wk /\ Debit(e, x).wk = e.wk
         /\ Credit(e, x).staked = e.staked /\ Debit(e, x).staked = e.staked
  BY DEF Credit, Debit, NodeEntry

\* #handleApplyInitializeBalanceOperation keeps the invariant.
LEMMA InitializeBalanceInv ==
  ASSUME Inv, NEW tx \in Tx, NEW r \in Address, NEW to \in Address,
         NEW amount \in Grant, InitializeBalance(tx, r, to, amount)
  PROVE  Inv'
<1>1. CASE Refused(InitializeBalanceStatus(tx, r))
  BY <1>1, RefusedInv
<1>2. CASE ~Refused(InitializeBalanceStatus(tx, r))
  <2>. DEFINE entry == IF Exists(to) THEN [node[to] EXCEPT !.balance = amount]
                       ELSE [NoEntry EXCEPT !.role = "READER", !.balance = amount]
  <2>1. /\ InitializeBalanceStatus(tx, r) = "SUCCESS" /\ Stored(tx, InitializeBalanceStatus(tx, r))
        /\ node' = [node EXCEPT ![to] = entry]
        /\ UNCHANGED <<admin, owner, writers, indexers>>
    BY <1>2, Zenon DEF InitializeBalance, Stored
  <2>2. HasAdmin
    BY <2>1 DEF InitializeBalanceStatus, AdminStatus, AdminRequest
  <2>3. TypeOK' /\ batch'.from = batch.from
    BY <2>1, CountFrom, InitializeBalanceType DEF Inv, Stored
  <2>4. node \in [Address -> NodeEntry] /\ node[to] \in NodeEntry
    BY DEF Inv, TypeOK, LedgerTypeOK
  <2>5. CASE Exists(to)
    <3>1. entry.wk = node[to].wk /\ entry.staked = node[to].staked /\ entry.role = node[to].role
      BY <2>4, <2>5 DEF NodeEntry
    <3>. HIDE DEF entry
    <3>2. SameStanding
      BY <2>1, <2>4, <3>1 DEF SameStanding, IsWriter, IsIndexer
    <3>. QED
      BY <2>2, <2>3, <3>2, StandStillInv
  <2>6. CASE ~Exists(to)
    <3>1. entry.wk = ZeroKey /\ entry.staked = 0 /\ entry.role = "READER"
      BY <2>6 DEF NoEntry
    <3>2. node[to].staked = 0 /\ node[to].role = "ABSENT"
      BY <2>6 DEF Inv, StakeMatchesRole, Exists, IsWriter
    <3>. HIDE DEF entry
    <3>3. SameStanding
      BY <2>1, <2>4, <3>1, <3>2 DEF SameStanding, IsWriter, IsIndexer
    <3>. QED
      BY <2>2, <2>3, <3>3, StandStillInv
  <2>. QED
    BY <2>5, <2>6
<1>. QED
  BY <1>1, <1>2

\* #handleApplyDisableBalanceInitializationOperation keeps the invariant.
LEMMA DisableInitializationInv ==
  ASSUME Inv, NEW tx \in Tx, NEW r \in Address, DisableInitialization(tx, r)
  PROVE  Inv'
<1>. DEFINE status == AdminStatus(tx, r, initialization # "disabled")
<1>1. CASE Refused(status)
  BY <1>1, RefusedInv
<1>2. CASE ~Refused(status)
  <2>1. HasAdmin /\ batch'.from = batch.from
    BY <1>2, CountFrom DEF DisableInitialization, Stored, AdminStatus, AdminRequest, Inv
  <2>2. SameStanding
    BY <1>2 DEF DisableInitialization, SameStanding, IsWriter, IsIndexer
  <2>. QED
    BY <2>1, <2>2, DisableInitializationType, StandStillInv DEF Inv
<1>. QED
  BY <1>1, <1>2

\* #handleApplyAddAdminOperation establishes the roster.
LEMMA AddAdminInv ==
  ASSUME Inv, NEW tx \in Tx, NEW r \in Address, NEW iw \in Key, AddAdmin(tx, r, iw)
  PROVE  Inv'
<1>1. CASE Refused(AddAdminStatus(tx, iw))
  BY <1>1, RefusedInv
<1>2. CASE ~Refused(AddAdminStatus(tx, iw))
  <2>. DEFINE entry == [role |-> "INDEXER", wk |-> iw, balance |-> AdminBalance,
                        license |-> Len(licenses) + 1, staked |-> Stake]
  <2>1. /\ AddAdminStatus(tx, iw) = "SUCCESS" /\ Stored(tx, AddAdminStatus(tx, iw))
        /\ node' = [node EXCEPT ![r] = entry]
        /\ owner' = [owner EXCEPT ![iw] = r]
        /\ admin' = [addr |-> r, wk |-> iw]
        /\ UNCHANGED <<deployment, writers, indexers>>
    BY <1>2, Zenon DEF AddAdmin, Stored
  <2>2. ~HasAdmin /\ iw = Bootstrap
    BY <2>1 DEF AddAdminStatus
  <2>3. entry.role = "INDEXER" /\ entry.wk = Bootstrap /\ entry.staked = Stake
    BY <2>2
  <2>. HIDE DEF entry
  <2>4. node'[r] = entry /\ \A a \in Address \ {r} : node'[a] = node[a]
    BY <2>1 DEF Inv, TypeOK, LedgerTypeOK
  <2>5. Roster' /\ HasAdmin'
    BY <2>1, <2>2, <2>3, <2>4, LaunchInv
  <2>6. BatchOfWriter'
    BY <2>1, CountFrom DEF Stored, Inv, BatchOfWriter, Open
  <2>. QED
    BY <2>5, <2>6, AddAdminType, RosterInv DEF Inv
<1>. QED
  BY <1>1, <1>2

\* #handleApplyAdminRecoveryOperation moves the admin in the base as in its entries.
LEMMA AdminRecoveryInv ==
  ASSUME Inv, NEW tx \in Tx, NEW r \in Address, NEW iw \in Key, NEW v \in Address,
         AdminRecovery(tx, r, iw, v)
  PROVE  Inv'
<1>. DEFINE status == AdminRecoveryStatus(tx, r, iw, v)
<1>1. CASE Refused(status)
  BY <1>1, RefusedInv
<1>2. CASE ~Refused(status)
  <2>. DEFINE charged == Debit(node[r], Fee)
              entry == [charged EXCEPT !.wk = iw]
              paid == Credit(node[v], Share(75))
  <2>1. /\ status = "SUCCESS" /\ Stored(tx, status)
        /\ node' = [node EXCEPT ![r] = entry, ![v] = paid]
        /\ MoveIndexerKey(admin.wk, iw)
        /\ owner' = [owner EXCEPT ![iw] = r]
        /\ admin' = [addr |-> r, wk |-> iw]
    BY <1>2, Zenon DEF AdminRecovery, Stored
  <2>2. Cosigned(r, v) /\ owner[iw] = NoAddress /\ admin.addr = r
    BY <2>1 DEF AdminRecoveryStatus
  <2>3. HasAdmin /\ r # v /\ batch.from = node[v].wk /\ batch.from \in writers
    BY <2>2, CosignedHasAdmin
  <2>4. node \in [Address -> NodeEntry]
    BY DEF Inv, TypeOK, LedgerTypeOK
  <2>5. /\ entry.wk = iw /\ entry.staked = node[r].staked /\ entry.role = node[r].role
        /\ paid.wk = node[v].wk /\ paid.staked = node[v].staked /\ paid.role = node[v].role
    BY <2>4, BalanceStands DEF Debit, Credit, NodeEntry
  <2>. HIDE DEF entry, paid
  <2>6. /\ node'[r] = entry
        /\ OthersStand(r)
    BY <2>1, <2>3, <2>4, <2>5 DEF OthersStand, IsWriter, IsIndexer
  <2>7. Roster' /\ \A k \in writers : k # admin.wk => k \in writers'
    BY <2>1, <2>2, <2>3, <2>5, <2>6, RecoverInv
  <2>8. BatchOfWriter'
    <3>1. batch'.from = batch.from
      BY <2>1, CountFrom DEF Stored, Inv
    <3>2. batch.from # admin.wk
      BY <2>2, <2>3, KeyAssumption DEF Inv, AdminStaysInOffice, KeysBelongToNodes, TypeOK, LedgerTypeOK
    <3>. QED
      BY <2>3, <2>7, <3>1, <3>2 DEF BatchOfWriter, Open
  <2>9. HasAdmin'
    BY <2>1, AddressAssumption DEF HasAdmin
  <2>. QED
    BY <2>7, <2>8, <2>9, AdminRecoveryType, RosterInv DEF Inv
<1>. QED
  BY <1>1, <1>2

\* #handleApplyAppendWhitelistOperation gives a role that needs no stake and no key.
LEMMA AppendWhitelistInv ==
  ASSUME Inv, NEW tx \in Tx, NEW r \in Address, NEW to \in Address,
         AppendWhitelist(tx, r, to)
  PROVE  Inv'
<1>. DEFINE status == AppendWhitelistStatus(tx, r, to)
<1>1. CASE Refused(status)
  BY <1>1, RefusedInv
<1>2. CASE ~Refused(status)
  <2>. DEFINE license == IF NeedsLicense(to) THEN Len(licenses) + 1 ELSE node[to].license
              paid == Debit(node[admin.addr], WhitelistFee)
              entry == [node[to] EXCEPT !.role = "WHITELISTED", !.license = license]
  <2>1. /\ status = "SUCCESS" /\ Stored(tx, status)
        /\ node' = [[node EXCEPT ![admin.addr] = paid] EXCEPT ![to] = entry]
        /\ UNCHANGED <<admin, owner, writers, indexers>>
    BY <1>2, Zenon DEF AppendWhitelist, Stored
  <2>2. HasAdmin /\ ~IsWhitelisted(to)
    BY <2>1, Zenon DEF AppendWhitelistStatus, AdminStatus, AdminRequest
  <2>3. node \in [Address -> NodeEntry] /\ admin.addr \in Address
    BY <2>2 DEF Inv, TypeOK, LedgerTypeOK, HasAdmin
  <2>4. /\ entry.role = "WHITELISTED" /\ entry.wk = node[to].wk /\ entry.staked = node[to].staked
    BY <2>3 DEF NodeEntry
  <2>5. /\ paid.role = node[admin.addr].role /\ paid.wk = node[admin.addr].wk
        /\ paid.staked = node[admin.addr].staked
    BY <2>3, BalanceStands
  <2>. HIDE DEF entry, paid
  <2>6. SameStanding
    BY <2>1, <2>2, <2>3, <2>4, <2>5 DEF SameStanding, IsWriter, IsIndexer, IsWhitelisted
  <2>. QED
    BY <2>1, <2>2, <2>6, CountFrom, AppendWhitelistType, StandStillInv DEF Inv, Stored
<1>. QED
  BY <1>1, <1>2

\* The charge that is put last leaves the admin's standing as it was, and
\* takes effect for the target only if that is another node.
LEMMA ChargeAdminStands ==
  ASSUME Inv, HasAdmin, NEW changed \in [Address -> NodeEntry], ChargeAdmin(changed)
  PROVE  /\ \A a \in Address \ {admin.addr} : node'[a] = changed[a]
         /\ node'[admin.addr].role = node[admin.addr].role
         /\ node'[admin.addr].wk = node[admin.addr].wk
         /\ node'[admin.addr].staked = node[admin.addr].staked
<1>. DEFINE paid == Debit(node[admin.addr], Fee)
<1>1. admin.addr \in Address /\ node[admin.addr] \in NodeEntry
  BY DEF Inv, TypeOK, LedgerTypeOK, HasAdmin
<1>2. /\ paid.role = node[admin.addr].role /\ paid.wk = node[admin.addr].wk
      /\ paid.staked = node[admin.addr].staked
  BY <1>1, BalanceStands
<1>3. node' = [changed EXCEPT ![admin.addr] = paid]
  BY DEF ChargeAdmin
<1>. HIDE DEF paid
<1>. QED
  BY <1>1, <1>2, <1>3

\* #addIndexer keeps the invariant.
LEMMA AddIndexerInv ==
  ASSUME Inv, NEW tx \in Tx, NEW r \in Address, NEW to \in Address, AddIndexer(tx, r, to)
  PROVE  Inv'
<1>. DEFINE status == AddIndexerStatus(tx, r, to)
<1>1. CASE Refused(status)
  BY <1>1, RefusedInv
<1>2. CASE ~Refused(status)
  <2>. DEFINE entry == [node[to] EXCEPT !.role = "INDEXER"]
              changed == [node EXCEPT ![to].role = "INDEXER"]
  <2>1. /\ status = "SUCCESS" /\ Stored(tx, status)
        /\ ChargeAdmin(changed)
        /\ MoveIndexerKey(node[to].wk, node[to].wk)
        /\ UNCHANGED <<admin, owner>>
    BY <1>2, Zenon DEF AddIndexer, Stored
  <2>2. HasAdmin /\ IsWriter(to) /\ ~IsIndexer(to)
    BY <2>1, Zenon DEF AddIndexerStatus, AdminStatus, AdminRequest
  <2>3. node \in [Address -> NodeEntry] /\ node[to].wk \in writers
    BY <2>2 DEF Inv, TypeOK, LedgerTypeOK, WritersAreValidators
  <2>4. entry \in NodeEntry /\ changed = [node EXCEPT ![to] = entry]
    BY <2>3, RoleType DEF Role
  <2>5. entry.role = "INDEXER" /\ entry.wk = node[to].wk /\ entry.staked = node[to].staked
    BY <2>3 DEF NodeEntry
  <2>. HIDE DEF entry, changed
  <2>6. changed \in [Address -> NodeEntry]
    BY <2>3, <2>4
  <2>7. to # admin.addr
    BY <2>2 DEF Inv, AdminStaysInOffice, IsIndexer
  <2>8. /\ node'[to] = entry
        /\ \A a \in Address \ {to, admin.addr} : node'[a] = node[a]
        /\ node'[admin.addr].role = node[admin.addr].role
        /\ node'[admin.addr].wk = node[admin.addr].wk
        /\ node'[admin.addr].staked = node[admin.addr].staked
    BY <2>1, <2>2, <2>3, <2>4, <2>6, <2>7, ChargeAdminStands
  <2>9. OthersStand(to) /\ IsIndexer(to)' /\ IsWriter(to)'
    BY <2>5, <2>8 DEF OthersStand, IsWriter, IsIndexer
  <2>10. writers' = writers /\ indexers' = indexers \union {node[to].wk}
    BY <2>1, <2>3 DEF MoveIndexerKey
  <2>11. Roster'
    BY <2>1, <2>2, <2>5, <2>8, <2>9, <2>10, PromoteInv
  <2>12. TypeOK'
    BY <2>3, AddIndexerType DEF Inv, TypeOK, LedgerTypeOK
  <2>13. BatchOfWriter' /\ HasAdmin'
    BY <2>1, <2>2, <2>10, CountFrom DEF Stored, Inv, BatchOfWriter, Open, HasAdmin
  <2>. QED
    BY <2>11, <2>12, <2>13, RosterInv
<1>. QED
  BY <1>1, <1>2

\* #removeIndexer keeps the invariant, of the admin itself too.
LEMMA RemoveIndexerInv ==
  ASSUME Inv, NEW tx \in Tx, NEW r \in Address, NEW to \in Address,
         RemoveIndexer(tx, r, to)
  PROVE  Inv'
<1>. DEFINE status == RemoveIndexerStatus(tx, r, to)
<1>1. CASE Refused(status)
  BY <1>1, RefusedInv
<1>2. CASE ~Refused(status)
  <2>. DEFINE entry == [node[to] EXCEPT !.role = "WRITER"]
              changed == [node EXCEPT ![to].role = "WRITER"]
  <2>1. /\ status = "SUCCESS" /\ Stored(tx, status)
        /\ ChargeAdmin(changed)
        /\ DemoteIndexerKey(node[to].wk)
        /\ UNCHANGED <<admin, owner>>
    BY <1>2, Zenon DEF RemoveIndexer, Stored
  <2>2. HasAdmin /\ IsIndexer(to)
    BY <2>1, Zenon DEF RemoveIndexerStatus, AdminStatus, AdminRequest
  <2>3. node \in [Address -> NodeEntry] /\ IsWriter(to) /\ node[to].wk \in writers
    BY <2>2 DEF Inv, TypeOK, LedgerTypeOK, WritersAreValidators, IsWriter, IsIndexer
  <2>4. entry \in NodeEntry /\ changed = [node EXCEPT ![to] = entry]
    BY <2>3, RoleType DEF Role
  <2>5. entry.role = "WRITER" /\ entry.wk = node[to].wk /\ entry.staked = node[to].staked
    BY <2>3 DEF NodeEntry
  <2>. HIDE DEF entry, changed
  <2>6. changed \in [Address -> NodeEntry]
    BY <2>3, <2>4
  <2>7. /\ to # admin.addr => node'[to] = entry
        /\ \A a \in Address \ {to, admin.addr} : node'[a] = node[a]
        /\ node'[admin.addr].role = node[admin.addr].role
        /\ node'[admin.addr].wk = node[admin.addr].wk
        /\ node'[admin.addr].staked = node[admin.addr].staked
    BY <2>1, <2>2, <2>3, <2>4, <2>6, ChargeAdminStands
  <2>8. /\ OthersStand(to) /\ IsWriter(to)'
        /\ IsIndexer(to)' <=> to = admin.addr
        /\ node'[to].wk = node[to].wk /\ node'[to].staked = node[to].staked
    BY <2>2, <2>5, <2>7 DEF OthersStand, IsWriter, IsIndexer
  <2>9. writers' = writers /\ indexers' = indexers \ {node[to].wk}
    BY <2>1, <2>3 DEF DemoteIndexerKey
  <2>10. Roster'
    BY <2>1, <2>2, <2>3, <2>8, <2>9, PromoteInv
  <2>11. BatchOfWriter' /\ HasAdmin'
    BY <2>1, <2>2, <2>9, CountFrom DEF Stored, Inv, BatchOfWriter, Open, HasAdmin
  <2>. QED
    BY <2>10, <2>11, RemoveIndexerType, RosterInv DEF Inv
<1>. QED
  BY <1>1, <1>2

\* A ban takes the role, the stake and the base membership together.
LEMMA BanValidatorInv ==
  ASSUME Inv, NEW tx \in Tx, NEW r \in Address, NEW to \in Address,
         BanValidator(tx, r, to)
  PROVE  Inv'
<1>. DEFINE status == BanValidatorStatus(tx, r, to)
<1>1. CASE Refused(status)
  BY <1>1, RefusedInv
<1>2. CASE ~Refused(status)
  <2>. DEFINE banned == [node[to] EXCEPT !.role = "READER"]
              entry == IF IsWriter(to) THEN WithdrawStake(banned) ELSE banned
              changed == [node EXCEPT ![to] = entry]
  <2>1. /\ status = "SUCCESS" /\ Stored(tx, status)
        /\ ChargeAdmin(changed)
        /\ IF IsWriter(to) THEN RemoveWriterKey(node[to].wk)
                           ELSE UNCHANGED <<writers, indexers>>
        /\ UNCHANGED <<admin, owner>>
    BY <1>2, Zenon DEF BanValidator, Stored
  <2>2. /\ HasAdmin /\ ~IsIndexer(to) /\ admin.wk = batch.from
        /\ IsWriter(to) => CanWithdraw(node[to])
    BY <2>1, Zenon DEF BanValidatorStatus, AdminStatus, AdminRequest
  <2>3. /\ node \in [Address -> NodeEntry] /\ node[to] \in NodeEntry
        /\ IsWriter(to) => node[to].wk \in writers
    BY <2>2 DEF Inv, TypeOK, LedgerTypeOK, WritersAreValidators
  <2>4. /\ banned \in NodeEntry /\ banned.role = "READER" /\ banned.wk = node[to].wk
        /\ banned.balance = node[to].balance /\ banned.staked = node[to].staked
    <3>1. banned \in NodeEntry
      BY <2>3, RoleType DEF Role
    <3>. QED
      BY <2>3, <3>1 DEF NodeEntry
  <2>. HIDE DEF banned
  <2>5. /\ entry \in NodeEntry /\ entry.role = "READER" /\ entry.wk = node[to].wk
        /\ entry.staked = IF IsWriter(to) THEN 0 ELSE node[to].staked
    <3>1. CASE IsWriter(to)
      <4>1. CanWithdraw(banned)
        BY <2>2, <2>4, <3>1 DEF CanWithdraw
      <4>2. WithdrawStake(banned) \in NodeEntry
        BY <2>4, <4>1, WithdrawStakeType
      <4>. QED
        BY <2>4, <3>1, <4>2 DEF WithdrawStake, NodeEntry
    <3>2. CASE ~IsWriter(to)
      BY <2>4, <3>2
    <3>. QED
      BY <3>1, <3>2
  <2>. HIDE DEF entry
  <2>6. changed \in [Address -> NodeEntry]
    BY <2>3, <2>5
  <2>7. to # admin.addr
    BY <2>2 DEF Inv, AdminStaysInOffice, IsIndexer
  <2>8. /\ node'[to] = entry
        /\ \A a \in Address \ {to, admin.addr} : node'[a] = node[a]
        /\ node'[admin.addr].role = node[admin.addr].role
        /\ node'[admin.addr].wk = node[admin.addr].wk
        /\ node'[admin.addr].staked = node[admin.addr].staked
    BY <2>1, <2>2, <2>3, <2>6, <2>7, ChargeAdminStands
  <2>9. TypeOK' /\ batch'.from = batch.from
    BY <2>1, CountFrom, BanValidatorType DEF Stored, Inv
  <2>10. CASE IsWriter(to)
    <3>1. OthersStand(to)
      BY <2>8 DEF OthersStand, IsWriter, IsIndexer
    <3>2. ~IsWriter(to)' /\ ~IsIndexer(to)'
      BY <2>5, <2>8 DEF IsWriter, IsIndexer
    <3>3. Roster' /\ \A k \in writers : k # node[to].wk => k \in writers'
      BY <2>1, <2>2, <2>5, <2>7, <2>8, <2>10, <3>1, <3>2, LeaveInv
    <3>4. node[to].wk # admin.wk /\ admin.wk \in writers
      <4>1. node[admin.addr].wk = admin.wk /\ admin.wk \in writers /\ admin.addr \in Address
        BY <2>2 DEF Inv, AdminStaysInOffice, HasAdmin, TypeOK, LedgerTypeOK
      <4>2. admin.wk # ZeroKey /\ node[to].wk # ZeroKey
        BY <2>3, <2>10, <4>1, KeyAssumption DEF Inv, TypeOK, LedgerTypeOK
      <4>3. owner[node[to].wk] = to /\ owner[node[admin.addr].wk] = admin.addr
        BY <4>1, <4>2 DEF Inv, KeysBelongToNodes
      <4>. QED
        BY <2>7, <4>1, <4>3
    <3>5. BatchOfWriter' /\ HasAdmin'
      BY <2>1, <2>2, <2>9, <3>3, <3>4 DEF BatchOfWriter, HasAdmin
    <3>. QED
      BY <2>9, <3>3, <3>5, RosterInv
  <2>11. CASE ~IsWriter(to)
    <3>1. SameStanding
      BY <2>1, <2>5, <2>8, <2>11 DEF SameStanding, IsWriter, IsIndexer
    <3>. QED
      BY <2>2, <2>9, <3>1, StandStillInv
  <2>. QED
    BY <2>10, <2>11
<1>. QED
  BY <1>1, <1>2

\* #addWriter gives the role, the stake and the base membership together.
LEMMA AddWriterInv ==
  ASSUME Inv, NEW tx \in Tx, NEW r \in Address, NEW iw \in Key, NEW v \in Address,
         AddWriter(tx, r, iw, v)
  PROVE  Inv'
<1>. DEFINE status == AddWriterStatus(tx, r, iw, v)
<1>1. CASE Refused(status)
  BY <1>1, RefusedInv
<1>2. CASE ~Refused(status)
  <2>. DEFINE charged == Debit(node[r], Fee)
              staked == StakeBalance(charged)
              entry == [staked EXCEPT !.role = "WRITER", !.wk = iw]
              paid == Credit(node[v], Share(75))
  <2>1. /\ status = "SUCCESS" /\ Stored(tx, status)
        /\ node' = [node EXCEPT ![r] = entry, ![v] = paid]
        /\ writers' = writers \union {iw}
        /\ owner' = [owner EXCEPT ![iw] = IF owner[iw] = NoAddress THEN r ELSE owner[iw]]
        /\ UNCHANGED <<admin, indexers>>
    BY <1>2, Zenon DEF AddWriter, Stored
  <2>2. Cosigned(r, v) /\ MayBecomeWriter(r, iw)
    BY <2>1 DEF AddWriterStatus
  <2>3. HasAdmin /\ r # v /\ batch.from \in writers
    BY <2>2, CosignedHasAdmin
  <2>4. ~IsWriter(r) /\ owner[iw] \in {NoAddress, r}
    BY <2>2 DEF MayBecomeWriter
  <2>5. owner' = [owner EXCEPT ![iw] = r]
    BY <2>1, <2>4
  <2>6. node \in [Address -> NodeEntry]
    BY DEF Inv, TypeOK, LedgerTypeOK
  <2>7. /\ entry.role = "WRITER" /\ entry.wk = iw /\ entry.staked = Stake
        /\ paid.role = node[v].role /\ paid.wk = node[v].wk /\ paid.staked = node[v].staked
    BY <2>6, BalanceStands DEF StakeBalance, Debit, NodeEntry
  <2>. HIDE DEF entry, paid
  <2>8. /\ node'[r] = entry /\ IsWriter(r)' /\ ~IsIndexer(r)'
        /\ OthersStand(r)
    BY <2>1, <2>3, <2>6, <2>7 DEF OthersStand, IsWriter, IsIndexer
  <2>9. Roster'
    BY <2>1, <2>3, <2>4, <2>5, <2>7, <2>8, JoinInv
  <2>10. BatchOfWriter' /\ HasAdmin'
    BY <2>1, <2>3, CountFrom DEF Stored, Inv, BatchOfWriter, HasAdmin
  <2>. QED
    BY <2>9, <2>10, AddWriterType, RosterInv DEF Inv
<1>. QED
  BY <1>1, <1>2

\* #removeWriter takes the role, the stake and the base membership together.
LEMMA RemoveWriterInv ==
  ASSUME Inv, NEW tx \in Tx, NEW r \in Address, NEW iw \in Key, NEW v \in Address,
         RemoveWriter(tx, r, iw, v)
  PROVE  Inv'
<1>. DEFINE status == RemoveWriterStatus(tx, r, iw, v)
<1>1. CASE Refused(status)
  BY <1>1, RefusedInv
<1>2. CASE ~Refused(status)
  <2>. DEFINE charged == Debit(node[r], Fee)
              withdrawn == WithdrawStake(charged)
              entry == [withdrawn EXCEPT !.role = "WHITELISTED"]
              paid == Credit(node[v], Share(75))
  <2>1. /\ status = "SUCCESS" /\ Stored(tx, status)
        /\ node' = [node EXCEPT ![r] = entry, ![v] = paid]
        /\ RemoveWriterKey(node[r].wk)
        /\ UNCHANGED <<admin, owner>>
    BY <1>2, Zenon DEF RemoveWriter, Stored
  <2>2. Cosigned(r, v) /\ MayLeave(r, iw)
    BY <2>1 DEF RemoveWriterStatus
  <2>3. HasAdmin /\ r # v /\ batch.from = node[v].wk /\ batch.from \in writers
    BY <2>2, CosignedHasAdmin
  <2>4. /\ IsWriter(r) /\ r # admin.addr /\ node \in [Address -> NodeEntry]
        /\ node[r].wk = iw /\ owner[iw] = r
    BY <2>2, <2>3 DEF MayLeave, Inv, AdminStaysInOffice, IsIndexer, TypeOK, LedgerTypeOK
  <2>5. /\ entry.role = "WHITELISTED" /\ entry.wk = node[r].wk /\ entry.staked = 0
        /\ paid.role = node[v].role /\ paid.wk = node[v].wk /\ paid.staked = node[v].staked
    BY <2>4, BalanceStands DEF WithdrawStake, Debit, NodeEntry
  <2>. HIDE DEF entry, paid
  <2>6. /\ node'[r] = entry /\ ~IsWriter(r)' /\ ~IsIndexer(r)'
        /\ OthersStand(r)
    BY <2>1, <2>3, <2>4, <2>5 DEF OthersStand, IsWriter, IsIndexer
  <2>7. Roster' /\ \A k \in writers : k # node[r].wk => k \in writers'
    BY <2>1, <2>3, <2>4, <2>5, <2>6, LeaveInv
  <2>8. batch.from # node[r].wk
    BY <2>3, <2>4, KeyAssumption DEF Inv, KeysBelongToNodes
  <2>9. BatchOfWriter' /\ HasAdmin'
    BY <2>1, <2>3, <2>7, <2>8, CountFrom DEF Stored, Inv, BatchOfWriter, HasAdmin
  <2>. QED
    BY <2>7, <2>9, RemoveWriterType, RosterInv DEF Inv
<1>. QED
  BY <1>1, <1>2

\* #handleApplyBootstrapDeploymentOperation keeps the invariant.
LEMMA BootstrapDeploymentInv ==
  ASSUME Inv, NEW tx \in Tx, NEW r \in Address, NEW bs \in Subnet, NEW v \in Address,
         BootstrapDeployment(tx, r, bs, v)
  PROVE  Inv'
<1>. DEFINE status == BootstrapDeploymentStatus(tx, r, bs, v)
<1>1. CASE Refused(status)
  BY <1>1, RefusedInv
<1>2. CASE ~Refused(status)
  <2>. DEFINE entry == Debit(node[r], Fee)
              paid == Credit(node[v], Share(75))
  <2>1. /\ status = "SUCCESS" /\ Stored(tx, status)
        /\ node' = [node EXCEPT ![r] = entry, ![v] = paid]
        /\ UNCHANGED <<admin, owner, writers, indexers>>
    BY <1>2, Zenon DEF BootstrapDeployment, Stored
  <2>2. HasAdmin /\ r # v
    BY <2>1, CosignedHasAdmin DEF BootstrapDeploymentStatus
  <2>3. node \in [Address -> NodeEntry]
    BY DEF Inv, TypeOK, LedgerTypeOK
  <2>4. /\ entry.role = node[r].role /\ entry.wk = node[r].wk /\ entry.staked = node[r].staked
        /\ paid.role = node[v].role /\ paid.wk = node[v].wk /\ paid.staked = node[v].staked
    BY <2>3, BalanceStands
  <2>. HIDE DEF entry, paid
  <2>5. SameStanding
    BY <2>1, <2>2, <2>3, <2>4 DEF SameStanding, IsWriter, IsIndexer
  <2>. QED
    BY <2>1, <2>2, <2>5, CountFrom, BootstrapDeploymentType, StandStillInv DEF Stored, Inv
<1>. QED
  BY <1>1, <1>2

\* #handleApplyTxOperation keeps the invariant.
LEMMA TxOperationInv ==
  ASSUME Inv, NEW tx \in Tx, NEW r \in Address, NEW bs \in Subnet, NEW v \in Address,
         TxOperation(tx, r, bs, v)
  PROVE  Inv'
<1>. DEFINE status == TxStatus(tx, r, bs, v)
            creator == deployment[bs]
            entry == Debit(node[r], Fee)
            paid == Credit(node[v], Share(50))
            charged == [node EXCEPT ![r] = entry, ![v] = paid]
            share == CreatorShare(r, creator)
            shared == Credit(charged[creator], share)
<1>1. CASE Refused(status)
  BY <1>1, RefusedInv
<1>2. CASE ~Refused(status)
  <2>1. status = "SUCCESS" /\ Stored(tx, status)
    BY <1>2, Zenon DEF TxOperation, Stored
  <2>2. /\ Cosigned(r, v) /\ creator # NoAddress
        /\ ~(node[r].balance < Fee) /\ CanReceive(v, Share(50))
    BY <2>1 DEF TxStatus, CanPayTxFee
  <2>3. HasAdmin /\ r # v /\ node \in [Address -> NodeEntry] /\ creator \in Address
    BY <2>2, CosignedHasAdmin DEF Inv, TypeOK, LedgerTypeOK
  <2>4. /\ node' = [charged EXCEPT ![creator] = shared]
        /\ UNCHANGED <<admin, owner, writers, indexers>>
    BY <1>2, <2>3, Zenon DEF TxOperation, PayTxFee
  <2>5. /\ entry.role = node[r].role /\ entry.wk = node[r].wk /\ entry.staked = node[r].staked
        /\ paid.role = node[v].role /\ paid.wk = node[v].wk /\ paid.staked = node[v].staked
    BY <2>3, BalanceStands
  <2>10. charged \in [Address -> NodeEntry]
    <3>1. node[r].balance \in Nat /\ node[v].balance \in Nat
      BY <2>3, MoneyAssumption DEF NodeEntry
    <3>2. node[r].balance >= Fee /\ node[v].balance + Share(50) <= MaxBalance
      BY <2>2, <3>1, FeeType DEF CanReceive
    <3>. QED
      BY <2>3, <3>2, FeeType, PaymentType
  <2>. HIDE DEF entry, paid
  <2>6. \A a \in Address : /\ charged[a].role = node[a].role /\ charged[a].wk = node[a].wk
                           /\ charged[a].staked = node[a].staked
    BY <2>3, <2>5
  <2>7. /\ shared.role = charged[creator].role /\ shared.wk = charged[creator].wk
        /\ shared.staked = charged[creator].staked
    BY <2>3, <2>10, BalanceStands
  <2>8. DOMAIN charged = Address
    BY <2>3
  <2>. HIDE DEF charged, shared, creator
  <2>9. SameStanding
    BY <2>3, <2>4, <2>6, <2>7, <2>8 DEF SameStanding, IsWriter, IsIndexer
  <2>. QED
    BY <2>1, <2>3, <2>9, CountFrom, TxOperationType, StandStillInv DEF Stored, Inv
<1>. QED
  BY <1>1, <1>2

\* A recipient keeps key and stake; without an entry it becomes a reader.
LEMMA ReceiveStands ==
  ASSUME NEW e \in NodeEntry, NEW x
  PROVE  /\ Receive(e, x).wk = e.wk /\ Receive(e, x).staked = e.staked
         /\ e.role # "ABSENT" => Receive(e, x).role = e.role
         /\ e.role = "ABSENT" => Receive(e, x).role = "READER"
<1>. DEFINE open == [e EXCEPT !.role = "READER"]
<1>1. open \in NodeEntry /\ open.role = "READER" /\ open.wk = e.wk /\ open.staked = e.staked
  BY DEF NodeEntry, Role
<1>. HIDE DEF open
<1>2. /\ Credit(open, x).role = open.role /\ Credit(open, x).wk = open.wk
      /\ Credit(open, x).staked = open.staked
      /\ Credit(e, x).role = e.role /\ Credit(e, x).wk = e.wk
      /\ Credit(e, x).staked = e.staked
  BY <1>1, BalanceStands
<1>. QED
  BY <1>1, <1>2 DEF Receive, open

\* #transfer keeps the invariant: a new recipient is a reader.
LEMMA TransferInv ==
  ASSUME Inv, NEW tx \in Tx, NEW r \in Address, NEW to \in Address,
         NEW amount \in Amount, NEW v \in Address, Transfer(tx, r, to, amount, v)
  PROVE  Inv'
<1>. DEFINE status == TransferStatus(tx, r, to, amount, v)
            cost == Deducted(r, to, amount)
            reward == Share(75)
            entry == Debit(node[r], cost)
            paid == Credit(node[v], reward)
            charged == [node EXCEPT ![r] = entry, ![v] = paid]
            received == Receive(charged[to], amount)
<1>1. CASE Refused(status)
  BY <1>1, RefusedInv
<1>2. CASE Throw
  <2>1. TypeOK'
    BY TransferType DEF Inv
  <2>. QED
    BY <1>2, <2>1 DEF Throw, Inv, ledger, StakeMatchesRole, KeysBelongToNodes,
       WritersAreValidators, AdminStaysInOffice, IndexersAreRecorded, IndexersTakePart,
       BeforeLaunch, BatchOfWriter, Open, HasAdmin, IsWriter, IsIndexer
<1>3. CASE ~Refused(status) /\ ~Throw
  <2>1. status = "SUCCESS" /\ Stored(tx, status) /\ node' = Pay(r, to, amount, v)
        /\ UNCHANGED <<admin, owner, writers, indexers>>
    BY <1>3, Zenon DEF Transfer, Stored
  <2>2. /\ Cosigned(r, v) /\ ~(node[r].balance < cost)
        /\ CanReceive(v, reward + (IF to = v THEN amount ELSE 0))
    BY <2>1 DEF TransferStatus
  <2>3. HasAdmin /\ r # v /\ node \in [Address -> NodeEntry]
    BY <2>2, CosignedHasAdmin DEF Inv, TypeOK, LedgerTypeOK
  <2>4. node' = IF to = r THEN charged ELSE [charged EXCEPT ![to] = received]
    BY <2>1, <2>3, Zenon DEF Pay
  <2>5. /\ entry.role = node[r].role /\ entry.wk = node[r].wk /\ entry.staked = node[r].staked
        /\ paid.role = node[v].role /\ paid.wk = node[v].wk /\ paid.staked = node[v].staked
    BY <2>3, BalanceStands
  <2>6. charged \in [Address -> NodeEntry]
    <3>1. node[r].balance \in Nat /\ node[v].balance \in Nat
      BY <2>3, MoneyAssumption DEF NodeEntry
    <3>2. amount \in Nat /\ reward \in Nat /\ cost \in Nat
      BY MoneyAssumption, FeeType DEF Deducted
    <3>. HIDE DEF cost, reward
    <3>3. node[r].balance >= cost /\ node[v].balance + reward <= MaxBalance
      BY <2>2, <3>1, <3>2, MoneyAssumption DEF CanReceive
    <3>. QED
      BY <2>3, <3>2, <3>3, PaymentType
  <2>. HIDE DEF entry, paid
  <2>7. \A a \in Address : /\ charged[a].role = node[a].role /\ charged[a].wk = node[a].wk
                           /\ charged[a].staked = node[a].staked
    BY <2>3, <2>5
  <2>. HIDE DEF charged
  <2>8. /\ received.wk = charged[to].wk /\ received.staked = charged[to].staked
        /\ charged[to].role # "ABSENT" => received.role = charged[to].role
        /\ charged[to].role = "ABSENT" => received.role = "READER"
    BY <2>6, ReceiveStands
  <2>. HIDE DEF received
  <2>9. SameStanding
    BY <2>1, <2>4, <2>6, <2>7, <2>8 DEF SameStanding, IsWriter, IsIndexer
  <2>. QED
    BY <2>1, <2>3, <2>9, CountFrom, TransferType, StandStillInv DEF Stored, Inv
<1>. QED
  BY <1>1, <1>2, <1>3

\* A penalty takes a writer out, or does nothing at all.
LEMMA PenaltyInv ==
  ASSUME Inv, NEW k \in writers, NEW n \in Nat, ValidatorPenalty(k, n),
         TypeOK', ~Open'
  PROVE  Inv'
<1>1. CASE Punishable(k, n)
  <2>1. HasAdmin /\ admin.wk # k
    BY <1>1 DEF Punishable
  <2>2. PICK x \in Address : x = owner[k]
    BY <2>1 DEF Inv, WritersAreValidators, TypeOK, LedgerTypeOK
  <2>. DEFINE entry == Punished(node[x], n)
  <2>3. node[x].wk = k /\ IsWriter(x) /\ node \in [Address -> NodeEntry]
    BY <2>1, <2>2 DEF Inv, WritersAreValidators, TypeOK, LedgerTypeOK
  <2>4. x # admin.addr
    BY <2>1, <2>3 DEF Inv, AdminStaysInOffice
  <2>5. /\ node' = [node EXCEPT ![x] = entry]
        /\ RemoveWriterKey(node[x].wk)
        /\ UNCHANGED <<admin, owner>>
    BY <1>1, <2>3, <2>2 DEF ValidatorPenalty
  <2>6. entry.role = "WHITELISTED" /\ entry.wk = node[x].wk /\ entry.staked = 0
    BY <2>3 DEF Punished, NodeEntry
  <2>. HIDE DEF entry
  <2>7. /\ node'[x] = entry /\ ~IsWriter(x)' /\ ~IsIndexer(x)'
        /\ OthersStand(x)
    BY <2>3, <2>5, <2>6 DEF OthersStand, IsWriter, IsIndexer
  <2>8. Roster'
    BY <2>1, <2>3, <2>4, <2>5, <2>6, <2>7, LeaveInv
  <2>. QED
    BY <2>1, <2>5, <2>8, RosterInv DEF BatchOfWriter, HasAdmin
<1>2. CASE ~Punishable(k, n)
  BY <1>2 DEF ValidatorPenalty, Inv, ledger, StakeMatchesRole, KeysBelongToNodes,
     WritersAreValidators, AdminStaysInOffice, IndexersAreRecorded, IndexersTakePart,
     BeforeLaunch, BatchOfWriter, HasAdmin, IsWriter, IsIndexer
<1>. QED
  BY <1>1, <1>2

\* Variables that no part of the invariant but TypeOK mentions
LEMMA LedgerStandsInv ==
  ASSUME Inv, TypeOK', UNCHANGED ledger, BatchOfWriter'
  PROVE  Inv'
  BY DEF Inv, ledger, StakeMatchesRole, KeysBelongToNodes, WritersAreValidators,
     AdminStaysInOffice, IndexersAreRecorded, IndexersTakePart, BeforeLaunch, HasAdmin,
     IsWriter, IsIndexer

\* Starting, ending and rejecting a batch keep the invariant, with the penalty.
LEMMA BatchStepInv ==
  ASSUME Inv,
         \/ EndBatch
         \/ \E k \in Key : StartBatch(k) \/ OversizedBatch(k)
  PROVE  Inv'
<1>1. TypeOK'
  BY BatchStepType DEF Inv
<1>2. CASE EndBatch
  <2>1. batch.from \in writers /\ batch.invalid \in Nat /\ ~Open'
    BY <1>2, BatchAssumption DEF EndBatch, Open, Idle, Inv, BatchOfWriter, TypeOK, BatchTypeOK
  <2>2. CASE batch.invalid > 0
    <3>1. ValidatorPenalty(batch.from, batch.invalid)
      BY <1>2, <2>2 DEF EndBatch
    <3>. QED
      BY <1>1, <2>1, <3>1, PenaltyInv
  <2>3. CASE ~(batch.invalid > 0)
    BY <1>1, <1>2, <2>1, <2>3, LedgerStandsInv DEF EndBatch, BatchOfWriter
  <2>. QED
    BY <2>2, <2>3
<1>3. ASSUME NEW k \in Key, StartBatch(k)
      PROVE  Inv'
  <2>1. UNCHANGED ledger /\ batch'.from = k /\ k \in writers
    BY <1>3 DEF StartBatch, Idle
  <2>. QED
    BY <1>1, <2>1, LedgerStandsInv DEF BatchOfWriter, ledger
<1>4. ASSUME NEW k \in Key, OversizedBatch(k)
      PROVE  Inv'
  <2>1. k \in writers /\ ~Open' /\ ValidatorPenalty(k, MaxBatch) /\ MaxBatch \in Nat
    BY <1>4, BatchAssumption DEF OversizedBatch, Open
  <2>. QED
    BY <1>1, <2>1, PenaltyInv
<1>. QED
  BY <1>2, <1>3, <1>4

\* Every operation of the admin keeps the invariant.
LEMMA AdminOperationInv ==
  ASSUME Inv, NEW tx \in Tx, NEW r \in Address, AdminOperation(tx, r)
  PROVE  Inv'
<1>1. CASE DisableInitialization(tx, r)
  BY <1>1, DisableInitializationInv
<1>2. ASSUME NEW to \in Address, NEW amount \in Grant, InitializeBalance(tx, r, to, amount)
      PROVE  Inv'
  BY <1>2, InitializeBalanceInv
<1>3. ASSUME NEW iw \in Key, AddAdmin(tx, r, iw)
      PROVE  Inv'
  BY <1>3, AddAdminInv
<1>4. ASSUME NEW to \in Address,
             \/ AppendWhitelist(tx, r, to) \/ AddIndexer(tx, r, to)
             \/ RemoveIndexer(tx, r, to) \/ BanValidator(tx, r, to)
      PROVE  Inv'
  BY <1>4, AppendWhitelistInv, AddIndexerInv, RemoveIndexerInv, BanValidatorInv
<1>. QED
  BY <1>1, <1>2, <1>3, <1>4 DEF AdminOperation

\* Every operation a validator co-signs keeps the invariant.
LEMMA CosignedOperationInv ==
  ASSUME Inv, NEW tx \in Tx, NEW r \in Address, NEW v \in Address,
         CosignedOperation(tx, r, v)
  PROVE  Inv'
<1>1. ASSUME NEW iw \in Key,
             \/ AdminRecovery(tx, r, iw, v) \/ AddWriter(tx, r, iw, v)
             \/ RemoveWriter(tx, r, iw, v)
      PROVE  Inv'
  BY <1>1, AdminRecoveryInv, AddWriterInv, RemoveWriterInv
<1>2. ASSUME NEW bs \in Subnet,
             \/ BootstrapDeployment(tx, r, bs, v) \/ TxOperation(tx, r, bs, v)
      PROVE  Inv'
  BY <1>2, BootstrapDeploymentInv, TxOperationInv
<1>3. ASSUME NEW to \in Address, NEW amount \in Amount, Transfer(tx, r, to, amount, v)
      PROVE  Inv'
  BY <1>3, TransferInv
<1>. QED
  BY <1>1, <1>2, <1>3 DEF CosignedOperation

\* The invariant is inductive: every operation and every penalty preserves it.
LEMMA NextInv == Inv /\ [Next]_vars => Inv'
<1>. SUFFICES ASSUME Inv, [Next]_vars PROVE Inv'
  OBVIOUS
<1>1. CASE \/ EndBatch
           \/ \E k \in Key : StartBatch(k) \/ OversizedBatch(k)
  BY <1>1, BatchStepInv
<1>2. CASE MalformedOperation
  BY <1>2, RefusedInv DEF MalformedOperation
<1>3. ASSUME NEW tx \in Tx, NEW r \in Address, AdminOperation(tx, r)
      PROVE  Inv'
  BY <1>3, AdminOperationInv
<1>4. ASSUME NEW tx \in Tx, NEW r \in Address, NEW v \in Address, CosignedOperation(tx, r, v)
      PROVE  Inv'
  BY <1>4, CosignedOperationInv
<1>5. CASE UNCHANGED vars
  <2>1. UNCHANGED ledger /\ UNCHANGED batch /\ UNCHANGED halted
    BY <1>5 DEF vars
  <2>2. TypeOK'
    BY <2>1 DEF Inv, TypeOK, LedgerTypeOK, BatchTypeOK, ledger
  <2>. QED
    BY <2>1, <2>2, LedgerStandsInv DEF Inv, BatchOfWriter, Open, ledger
<1>. QED
  BY <1>1, <1>2, <1>3, <1>4, <1>5 DEF Next

\* Only the end of a batch and the start of the next change where it is from.
LEMMA StepFrom ==
  ASSUME Inv, [Next]_vars, Open, batch'.from # batch.from
  PROVE  EndBatch
<1>1. \A s : ~Refused(s)
  BY CountFrom DEF Refused, Inv
<1>2. \A tx, s : ~Stored(tx, s)
  BY CountFrom DEF Stored, Inv
<1>3. ~Throw /\ ~UNCHANGED vars
  BY DEF Throw, vars
<1>4. \A k : ~StartBatch(k) /\ ~OversizedBatch(k)
  BY DEF StartBatch, OversizedBatch
<1>5. \A tx, r : ~AdminOperation(tx, r)
  <2>. SUFFICES ASSUME NEW tx, NEW r PROVE ~AdminOperation(tx, r)
    OBVIOUS
  <2>1. ~DisableInitialization(tx, r)
    BY <1>1, <1>2, Zenon DEF DisableInitialization
  <2>2. \A to, amount : ~InitializeBalance(tx, r, to, amount)
    BY <1>1, <1>2, Zenon DEF InitializeBalance
  <2>3. \A iw : ~AddAdmin(tx, r, iw)
    BY <1>1, <1>2, Zenon DEF AddAdmin
  <2>4. \A to : ~AppendWhitelist(tx, r, to)
    BY <1>1, <1>2, Zenon DEF AppendWhitelist
  <2>5. \A to : ~AddIndexer(tx, r, to) /\ ~RemoveIndexer(tx, r, to)
    BY <1>1, <1>2, Zenon DEF AddIndexer, RemoveIndexer
  <2>6. \A to : ~BanValidator(tx, r, to)
    BY <1>1, <1>2, Zenon DEF BanValidator
  <2>. QED
    BY <2>1, <2>2, <2>3, <2>4, <2>5, <2>6, Zenon DEF AdminOperation
<1>6. \A tx, r, v : ~CosignedOperation(tx, r, v)
  <2>. SUFFICES ASSUME NEW tx, NEW r, NEW v PROVE ~CosignedOperation(tx, r, v)
    OBVIOUS
  <2>1. \A iw : ~AdminRecovery(tx, r, iw, v)
    BY <1>1, <1>2, Zenon DEF AdminRecovery
  <2>2. \A iw : ~AddWriter(tx, r, iw, v) /\ ~RemoveWriter(tx, r, iw, v)
    BY <1>1, <1>2, Zenon DEF AddWriter, RemoveWriter
  <2>3. \A bs : ~BootstrapDeployment(tx, r, bs, v) /\ ~TxOperation(tx, r, bs, v)
    BY <1>1, <1>2, Zenon DEF BootstrapDeployment, TxOperation
  <2>4. \A to, amount : ~Transfer(tx, r, to, amount, v)
    BY <1>1, <1>2, <1>3, Zenon DEF Transfer
  <2>. QED
    BY <2>1, <2>2, <2>3, <2>4, Zenon DEF CosignedOperation
<1>. QED
  BY <1>1, <1>3, <1>4, <1>5, <1>6 DEF Next, MalformedOperation

-----------------------------------------------------------------------------
(* Theorems *)

\* Types, roles, keys, stakes and the base's writers stay consistent through
\* every sequence of batches #apply may be given.
THEOREM Invariance == Spec => []Inv
<1>. QED
  BY InitInv, NextInv, PTL DEF Spec

\* Balances and stakes always fit in a balance and are never negative, and no
\* batch counts more failures than nodes.
THEOREM TypeCorrectness == Spec => []TypeOK
<1>1. Inv => TypeOK
  BY DEF Inv
<1>. QED
  BY <1>1, Invariance, PTL

\* A node has a stake of ten fees if it is a writer, and none if it is not.
THEOREM StakesMatchRoles == Spec => []StakeMatchesRole
<1>1. Inv => StakeMatchesRole
  BY DEF Inv
<1>. QED
  BY <1>1, Invariance, PTL

\* No two nodes share a writing key.
THEOREM KeyOwnership == Spec => []KeysBelongToNodes
<1>1. Inv => KeysBelongToNodes
  BY DEF Inv
<1>. QED
  BY <1>1, Invariance, PTL

\* Autobase applies exactly the batches of nodes that are writers, and every
\* key that takes part in consensus is a recorded indexer's.
THEOREM Membership == Spec => []MembershipMatchesRoles
<1>1. Inv => MembershipMatchesRoles
  BY DEF Inv, MembershipMatchesRoles
<1>. QED
  BY <1>1, Invariance, PTL

\* The admin keeps its role and its key.
THEOREM AdminTenure == Spec => []AdminStaysInOffice
<1>1. Inv => AdminStaysInOffice
  BY DEF Inv
<1>. QED
  BY <1>1, Invariance, PTL

\* A node with the role INDEXER has its key among the indexers of the base,
\* through promotions, demotions, bans, penalties and recoveries of anybody, but
\* for an admin that removed itself.
THEOREM IndexersInConsensus == Spec => []IndexersTakePart
<1>1. Inv => IndexersTakePart
  BY DEF Inv
<1>. QED
  BY <1>1, Invariance, PTL

\* A batch with invalid operations always costs its writer the role.
THEOREM PenaltyLands == Spec => PenaltyAlwaysLands
<1>. DEFINE Landed ==
       Open /\ batch.invalid > 0 /\ batch' = Idle /\ HasAdmin /\ batch.from # admin.wk
       => \E a \in Address :
            /\ owner[batch.from] = a
            /\ \/ ~CanReceive(a, LeftOfStake(node[a], batch.invalid))
               \/ /\ batch.from \notin writers'
                  /\ node[a].staked = Stake
                  /\ node'[a].staked = 0
                  /\ node'[a].role = "WHITELISTED"
<1>1. ASSUME Inv, [Next]_vars PROVE Landed
  <2>. SUFFICES ASSUME Open, batch.invalid > 0, batch' = Idle, HasAdmin, batch.from # admin.wk
                PROVE  \E a \in Address :
                         /\ owner[batch.from] = a
                         /\ \/ ~CanReceive(a, LeftOfStake(node[a], batch.invalid))
                            \/ /\ batch.from \notin writers'
                               /\ node[a].staked = Stake
                               /\ node'[a].staked = 0
                               /\ node'[a].role = "WHITELISTED"
    OBVIOUS
  <2>1. EndBatch
    <3>1. batch'.from # batch.from
      BY DEF Open, Idle
    <3>. QED
      BY <1>1, <3>1, StepFrom
  <2>2. PICK a \in Address : a = owner[batch.from]
    BY <1>1 DEF Inv, BatchOfWriter, WritersAreValidators, TypeOK, LedgerTypeOK
  <2>3. /\ node[a].wk = batch.from /\ IsWriter(a) /\ node[a].staked = Stake
        /\ node \in [Address -> NodeEntry] /\ owner[batch.from] # NoAddress
    BY <1>1, <2>2 DEF Inv, BatchOfWriter, WritersAreValidators, StakeMatchesRole,
       TypeOK, LedgerTypeOK
  <2>4. CASE CanReceive(a, LeftOfStake(node[a], batch.invalid))
    <3>1. Punishable(batch.from, batch.invalid)
      BY <2>2, <2>3, <2>4 DEF Punishable, Exists, IsWriter
    <3>2. /\ RemoveWriterKey(batch.from)
          /\ node' = [node EXCEPT ![a] = Punished(node[a], batch.invalid)]
      BY <2>1, <2>2, <3>1 DEF EndBatch, ValidatorPenalty
    <3>3. /\ Punished(node[a], batch.invalid).staked = 0
          /\ Punished(node[a], batch.invalid).role = "WHITELISTED"
      BY <2>3 DEF Punished, NodeEntry
    <3>. QED
      BY <2>2, <2>3, <3>2, <3>3 DEF RemoveWriterKey
  <2>. QED
    BY <2>2, <2>4
<1>2. Inv /\ [Next]_vars => [Landed]_vars
  BY <1>1
<1>. QED
  BY <1>2, Invariance, PTL DEF Spec, PenaltyAlwaysLands
=============================================================================
