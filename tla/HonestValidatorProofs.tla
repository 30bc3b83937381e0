------------------------ MODULE HonestValidatorProofs ------------------------
(***************************************************************************)
(* Theorems about HonestValidator, for every set of addresses, keys,       *)
(* hashes, subnetworks and amounts and any number of accepted operations.  *)
(***************************************************************************)
EXTENDS Requester, LedgerProofs

-----------------------------------------------------------------------------
(* Nothing is forgotten *)

\* No step deletes a node entry or takes a subnetwork away from its deployer,
\* and only a node with an entry deploys one.
Grows ==
  /\ \A a \in Address : Exists(a) => Exists(a)'
  /\ \A s \in Subnet : /\ deployment[s] # NoAddress => deployment'[s] = deployment[s]
                       /\ deployment'[s] = deployment[s] \/ Exists(deployment'[s])

\* A payment only changes balances: the entries that exist remain.
LEMMA BalanceGrows ==
  ASSUME TypeOK,
         node' \in [Address -> NodeEntry],
         \A a \in Address : node'[a].role = node[a].role,
         deployment' = deployment
  PROVE  Grows
  BY DEF Grows, Exists

\* A refused node, and every other step that leaves the ledger alone
LEMMA StillGrows ==
  ASSUME UNCHANGED ledger
  PROVE  Grows
  BY DEF Grows, Exists, ledger

\* The admin's operations on balances and the launch
LEMMA LaunchGrows ==
  ASSUME Inv, NEW tx, NEW r \in Address,
         \/ DisableInitialization(tx, r)
         \/ \E to \in Address, amount \in Grant : InitializeBalance(tx, r, to, amount)
         \/ \E iw \in Key : AddAdmin(tx, r, iw)
  PROVE  Grows
<1>1. CASE DisableInitialization(tx, r)
  BY <1>1, StillGrows DEF DisableInitialization, Refused, Grows, Exists
<1>2. ASSUME NEW to \in Address, NEW amount \in Grant, InitializeBalance(tx, r, to, amount)
      PROVE  Grows
  <2>1. CASE Refused(InitializeBalanceStatus(tx, r))
    BY <2>1, StillGrows DEF Refused
  <2>2. CASE ~Refused(InitializeBalanceStatus(tx, r))
    <3>1. /\ node' = [node EXCEPT ![to] =
               IF Exists(to) THEN [node[to] EXCEPT !.balance = amount]
               ELSE [NoEntry EXCEPT !.role = "READER", !.balance = amount]]
          /\ deployment' = deployment
      BY <1>2, <2>2, Zenon DEF InitializeBalance
    <3>. QED
      BY <3>1 DEF Grows, Exists, Inv, TypeOK, LedgerTypeOK, NodeEntry, NoEntry
  <2>. QED
    BY <2>1, <2>2
<1>3. ASSUME NEW iw \in Key, AddAdmin(tx, r, iw)
      PROVE  Grows
  <2>1. CASE Refused(AddAdminStatus(tx, iw))
    BY <2>1, StillGrows DEF Refused
  <2>2. CASE ~Refused(AddAdminStatus(tx, iw))
    <3>1. \E e : e.role = "INDEXER" /\ node' = [node EXCEPT ![r] = e]
      <4>1. node' = [node EXCEPT ![r] =
              [role |-> "INDEXER", wk |-> iw, balance |-> AdminBalance,
               license |-> Len(licenses) + 1, staked |-> Stake]]
        BY <1>3, <2>2, Zenon DEF AddAdmin
      <4>. QED
        BY <4>1
    <3>2. deployment' = deployment
      BY <1>3, <2>2, Zenon DEF AddAdmin
    <3>. QED
      BY <3>1, <3>2 DEF Grows, Exists, Inv, TypeOK, LedgerTypeOK
  <2>. QED
    BY <2>1, <2>2
<1>. QED
  BY <1>1, <1>2, <1>3

\* A charged admin and a changed target both still have an entry.
LEMMA ChargeGrows ==
  ASSUME TypeOK, HasAdmin, NEW to \in Address, NEW e, e.role # "ABSENT",
         ChargeAdmin([node EXCEPT ![to] = e]), deployment' = deployment
  PROVE  Grows
<1>1. admin.addr \in Address /\ node \in [Address -> NodeEntry]
  BY DEF TypeOK, LedgerTypeOK, HasAdmin
<1>2. Debit(node[admin.addr], Fee).role = node[admin.addr].role
  BY <1>1, BalanceStands
<1>. QED
  BY <1>1, <1>2 DEF ChargeAdmin, Grows, Exists

\* Changing the role of an entry to another one
LEMMA RoleOfEntry ==
  ASSUME TypeOK, NEW to \in Address, NEW role \in Role
  PROVE  /\ [node EXCEPT ![to].role = role] = [node EXCEPT ![to] = [node[to] EXCEPT !.role = role]]
         /\ [node[to] EXCEPT !.role = role].role = role
  BY DEF TypeOK, LedgerTypeOK, NodeEntry

\* The admin's operations on roles
LEMMA RolesGrow ==
  ASSUME Inv, NEW tx, NEW r \in Address, NEW to \in Address,
         \/ AppendWhitelist(tx, r, to) \/ AddIndexer(tx, r, to)
         \/ RemoveIndexer(tx, r, to) \/ BanValidator(tx, r, to)
  PROVE  Grows
<1>0. TypeOK /\ node \in [Address -> NodeEntry]
  BY DEF Inv, TypeOK, LedgerTypeOK
<1>1. CASE \E status : Refused(status)
  BY <1>1, StillGrows DEF Refused
<1>2. CASE AppendWhitelist(tx, r, to) /\ \A status : ~Refused(status)
  <2>. DEFINE charged == [node EXCEPT ![admin.addr] = Debit(@, WhitelistFee)]
              entry == [node[to] EXCEPT !.role = "WHITELISTED",
                          !.license = IF NeedsLicense(to) THEN Len(licenses) + 1 ELSE @]
  <2>1. /\ Stored(tx, AppendWhitelistStatus(tx, r, to))
        /\ node' = [charged EXCEPT ![to] = entry]
        /\ deployment' = deployment
    BY <1>2, Zenon DEF AppendWhitelist
  <2>2. admin.addr \in Address
    BY <1>0, <2>1 DEF Stored, AppendWhitelistStatus, AdminStatus, AdminRequest
  <2>3. entry.role = "WHITELISTED"
    BY <1>0 DEF NodeEntry
  <2>4. Debit(node[admin.addr], WhitelistFee).role = node[admin.addr].role
    BY <1>0, <2>2, BalanceStands
  <2>. HIDE DEF entry
  <2>. QED
    BY <1>0, <2>1, <2>2, <2>3, <2>4 DEF Grows, Exists
<1>3. CASE AddIndexer(tx, r, to) /\ \A status : ~Refused(status)
  <2>1. /\ Stored(tx, AddIndexerStatus(tx, r, to))
        /\ ChargeAdmin([node EXCEPT ![to].role = "INDEXER"])
        /\ deployment' = deployment
    BY <1>3, Zenon DEF AddIndexer
  <2>2. HasAdmin
    BY <2>1 DEF Stored, AddIndexerStatus, AdminStatus, AdminRequest
  <2>. QED
    BY <1>0, <2>1, <2>2, RoleOfEntry, ChargeGrows DEF Role
<1>4. CASE RemoveIndexer(tx, r, to) /\ \A status : ~Refused(status)
  <2>1. /\ Stored(tx, RemoveIndexerStatus(tx, r, to))
        /\ ChargeAdmin([node EXCEPT ![to].role = "WRITER"])
        /\ deployment' = deployment
    BY <1>4, Zenon DEF RemoveIndexer
  <2>2. HasAdmin
    BY <2>1 DEF Stored, RemoveIndexerStatus, AdminStatus, AdminRequest
  <2>. QED
    BY <1>0, <2>1, <2>2, RoleOfEntry, ChargeGrows DEF Role
<1>5. CASE BanValidator(tx, r, to) /\ \A status : ~Refused(status)
  <2>. DEFINE banned == [node[to] EXCEPT !.role = "READER"]
              entry == IF IsWriter(to) THEN WithdrawStake(banned) ELSE banned
  <2>1. /\ Stored(tx, BanValidatorStatus(tx, r, to))
        /\ ChargeAdmin([node EXCEPT ![to] = entry])
        /\ deployment' = deployment
    BY <1>5, Zenon DEF BanValidator
  <2>2. HasAdmin
    BY <2>1 DEF Stored, BanValidatorStatus, AdminStatus, AdminRequest
  <2>3. banned \in NodeEntry /\ banned.role = "READER"
    BY <1>0 DEF NodeEntry, Role
  <2>. HIDE DEF banned
  <2>4. entry.role = "READER"
    BY <2>3 DEF WithdrawStake, NodeEntry
  <2>. HIDE DEF entry
  <2>. QED
    BY <1>0, <2>1, <2>2, <2>4, ChargeGrows
<1>. QED
  BY <1>1, <1>2, <1>3, <1>4, <1>5

\* Joining, leaving and recovering
LEMMA RoleAccessGrows ==
  ASSUME Inv, NEW tx, NEW r \in Address, NEW iw \in Key, NEW v \in Address,
         \/ AdminRecovery(tx, r, iw, v) \/ AddWriter(tx, r, iw, v)
         \/ RemoveWriter(tx, r, iw, v)
  PROVE  Grows
<1>0. node \in [Address -> NodeEntry] /\ node[r] \in NodeEntry /\ node[v] \in NodeEntry
  BY DEF Inv, TypeOK, LedgerTypeOK
<1>1. CASE \E status : Refused(status)
  BY <1>1, StillGrows DEF Refused
<1>2. /\ Credit(node[v], Share(75)).role = node[v].role
      /\ Debit(node[r], Fee).role = node[r].role
  BY <1>0, BalanceStands
<1>3. CASE AdminRecovery(tx, r, iw, v) /\ \A status : ~Refused(status)
  <2>. DEFINE entry == [Debit(node[r], Fee) EXCEPT !.wk = iw]
  <2>1. /\ node' = [node EXCEPT ![r] = entry, ![v] = Credit(@, Share(75))]
        /\ deployment' = deployment
        /\ Stored(tx, AdminRecoveryStatus(tx, r, iw, v))
    BY <1>3, Zenon DEF AdminRecovery
  <2>2. r # v
    BY <2>1 DEF Stored, AdminRecoveryStatus, Cosigned
  <2>3. entry.role = node[r].role
    BY <1>0 DEF Debit, NodeEntry
  <2>. HIDE DEF entry
  <2>. QED
    BY <1>0, <1>2, <2>1, <2>2, <2>3 DEF Grows, Exists
<1>4. CASE AddWriter(tx, r, iw, v) /\ \A status : ~Refused(status)
  <2>. DEFINE entry == [StakeBalance(Debit(node[r], Fee)) EXCEPT !.role = "WRITER", !.wk = iw]
  <2>1. /\ node' = [node EXCEPT ![r] = entry, ![v] = Credit(@, Share(75))]
        /\ deployment' = deployment
        /\ Stored(tx, AddWriterStatus(tx, r, iw, v))
    BY <1>4, Zenon DEF AddWriter
  <2>2. r # v
    BY <2>1 DEF Stored, AddWriterStatus, Cosigned
  <2>3. entry.role = "WRITER"
    BY <1>0 DEF StakeBalance, Debit, NodeEntry
  <2>. HIDE DEF entry
  <2>. QED
    BY <1>0, <1>2, <2>1, <2>2, <2>3 DEF Grows, Exists
<1>5. CASE RemoveWriter(tx, r, iw, v) /\ \A status : ~Refused(status)
  <2>. DEFINE entry == [WithdrawStake(Debit(node[r], Fee)) EXCEPT !.role = "WHITELISTED"]
  <2>1. /\ node' = [node EXCEPT ![r] = entry, ![v] = Credit(@, Share(75))]
        /\ deployment' = deployment
        /\ Stored(tx, RemoveWriterStatus(tx, r, iw, v))
    BY <1>5, Zenon DEF RemoveWriter
  <2>2. r # v
    BY <2>1 DEF Stored, RemoveWriterStatus, Cosigned
  <2>3. entry.role = "WHITELISTED"
    BY <1>0 DEF WithdrawStake, Debit, NodeEntry
  <2>. HIDE DEF entry
  <2>. QED
    BY <1>0, <1>2, <2>1, <2>2, <2>3 DEF Grows, Exists
<1>. QED
  BY <1>1, <1>3, <1>4, <1>5

\* Deployments and transactions: only a deployment writes a deployment entry,
\* and only where there is none.
LEMMA SubnetGrows ==
  ASSUME Inv, NEW tx, NEW r \in Address, NEW bs \in Subnet, NEW v \in Address,
         \/ BootstrapDeployment(tx, r, bs, v) \/ TxOperation(tx, r, bs, v)
  PROVE  Grows
<1>0. /\ node \in [Address -> NodeEntry]
      /\ deployment \in [Subnet -> Address \union {NoAddress}]
  BY DEF Inv, TypeOK, LedgerTypeOK
<1>1. CASE \E status : Refused(status)
  BY <1>1, StillGrows DEF Refused
<1>2. \A e \in NodeEntry : \A x : Credit(e, x).role = e.role /\ Debit(e, x).role = e.role
  BY BalanceStands
<1>3. CASE BootstrapDeployment(tx, r, bs, v) /\ \A status : ~Refused(status)
  <2>1. /\ node' = [node EXCEPT ![r] = Debit(@, Fee), ![v] = Credit(@, Share(75))]
        /\ deployment' = [deployment EXCEPT ![bs] = r]
        /\ Stored(tx, BootstrapDeploymentStatus(tx, r, bs, v))
    BY <1>3, Zenon DEF BootstrapDeployment
  <2>2. r # v /\ deployment[bs] = NoAddress /\ Exists(r)
    BY <2>1 DEF Stored, BootstrapDeploymentStatus, Cosigned
  <2>. QED
    BY <1>0, <1>2, <2>1, <2>2 DEF Grows, Exists
<1>4. CASE TxOperation(tx, r, bs, v) /\ \A status : ~Refused(status)
  <2>1. /\ node' = PayTxFee(r, v, deployment[bs])
        /\ deployment' = deployment
        /\ Stored(tx, TxStatus(tx, r, bs, v))
    BY <1>4, Zenon DEF TxOperation
  <2>2. r # v /\ deployment[bs] # NoAddress
    BY <2>1 DEF Stored, TxStatus, Cosigned
  <2>. DEFINE creator == deployment[bs]
              charged == [node EXCEPT ![r] = Debit(@, Fee), ![v] = Credit(@, Share(50))]
  <2>3. creator \in Address
    BY <1>0, <2>2
  <2>4. node' = [charged EXCEPT ![creator] = Credit(@, CreatorShare(r, creator))]
    BY <2>1 DEF PayTxFee
  <2>. QED
    BY <1>0, <1>2, <2>1, <2>2, <2>3, <2>4 DEF Grows, Exists
<1>. QED
  BY <1>1, <1>3, <1>4

\* A transfer makes an entry for a recipient that has none.
LEMMA TransferGrows ==
  ASSUME Inv, NEW tx, NEW r \in Address, NEW to \in Address, NEW amount,
         NEW v \in Address, Transfer(tx, r, to, amount, v)
  PROVE  Grows
<1>0. node \in [Address -> NodeEntry]
  BY DEF Inv, TypeOK, LedgerTypeOK
<1>1. CASE Throw \/ \E status : Refused(status)
  BY <1>1, StillGrows DEF Refused, Throw
<1>2. \A e \in NodeEntry : \A x : /\ Credit(e, x).role = e.role
                                     /\ Debit(e, x).role = e.role
  BY BalanceStands
<1>3. CASE ~Throw /\ \A status : ~Refused(status)
  <2>. DEFINE charged == [node EXCEPT ![r] = Debit(@, Deducted(r, to, amount)),
                                      ![v] = Credit(@, Share(75))]
  <2>1. /\ node' = Pay(r, to, amount, v)
        /\ deployment' = deployment
        /\ Stored(tx, TransferStatus(tx, r, to, amount, v))
    BY <1>3, Zenon DEF Transfer
  <2>2. r # v
    BY <2>1 DEF Stored, TransferStatus, Cosigned
  <2>3. node' = IF to = r THEN charged ELSE [charged EXCEPT ![to] = Receive(@, amount)]
    BY <2>1 DEF Pay
  <2>4. \A a \in Address : charged[a].role = node[a].role
    BY <1>0, <1>2, <2>2
  <2>5. \A e \in NodeEntry : \A x : e.role # "ABSENT" =>
          /\ Receive(e, amount).role # "ABSENT"
          /\ Receive(Credit(e, x), amount).role # "ABSENT"
    BY DEF Receive, Credit, NodeEntry
  <2>6. charged[to] = IF to = v THEN Credit(node[v], Share(75)) ELSE
                      IF to = r THEN Debit(node[r], Deducted(r, to, amount)) ELSE node[to]
    BY <1>0, <2>2
  <2>7. DOMAIN charged = Address
    BY <1>0
  <2>. HIDE DEF charged
  <2>8. to # r /\ node[to].role # "ABSENT" => Receive(charged[to], amount).role # "ABSENT"
    BY <1>0, <2>5, <2>6
  <2>. QED
    BY <1>0, <2>1, <2>3, <2>4, <2>7, <2>8 DEF Grows, Exists
<1>. QED
  BY <1>1, <1>3

\* The penalty changes an entry that exists.
LEMMA PenaltyGrows ==
  ASSUME Inv, NEW k \in Key, NEW n, ValidatorPenalty(k, n)
  PROVE  Grows
<1>1. CASE Punishable(k, n)
  <2>1. node' = [node EXCEPT ![owner[k]] = Punished(@, n)] /\ deployment' = deployment
    BY <1>1 DEF ValidatorPenalty
  <2>2. owner[k] \in Address /\ node \in [Address -> NodeEntry]
    BY <1>1 DEF Punishable, Inv, TypeOK, LedgerTypeOK
  <2>3. Punished(node[owner[k]], n).role = "WHITELISTED"
    BY <2>2 DEF Punished, NodeEntry
  <2>. QED
    BY <2>1, <2>2, <2>3 DEF Grows, Exists
<1>2. CASE ~Punishable(k, n)
  BY <1>2, StillGrows DEF ValidatorPenalty
<1>. QED
  BY <1>1, <1>2

\* Entries and deployments are for good.
LEMMA NextGrows == Inv /\ [Next]_vars => Grows
<1>. SUFFICES ASSUME Inv, [Next]_vars PROVE Grows
  OBVIOUS
<1>1. CASE EndBatch
  <2>1. batch.from \in Key
    BY <1>1 DEF EndBatch, Open, Inv, TypeOK, BatchTypeOK
  <2>. QED
    BY <1>1, <2>1, PenaltyGrows, StillGrows DEF EndBatch
<1>2. ASSUME NEW k \in Key, StartBatch(k) \/ OversizedBatch(k)
      PROVE  Grows
  BY <1>2, PenaltyGrows, StillGrows DEF StartBatch, OversizedBatch
<1>3. CASE MalformedOperation \/ UNCHANGED vars
  BY <1>3, StillGrows DEF MalformedOperation, Refused, vars
<1>4. ASSUME NEW tx \in Tx, NEW r \in Address, AdminOperation(tx, r)
      PROVE  Grows
  BY <1>4, LaunchGrows, RolesGrow, Zenon DEF AdminOperation
<1>5. ASSUME NEW tx \in Tx, NEW r \in Address, NEW v \in Address, CosignedOperation(tx, r, v)
      PROVE  Grows
  BY <1>5, RoleAccessGrows, SubnetGrows, TransferGrows, Zenon DEF CosignedOperation
<1>. QED
  BY <1>1, <1>2, <1>3, <1>4, <1>5 DEF Next

\* No operation and no penalty ever deletes a node entry, changes who deployed
\* a subnetwork, or takes a deployment from an address without an entry.
THEOREM NothingIsDeleted == Spec => [][Grows]_vars
  BY NextGrows, Invariance, PTL DEF Spec

-----------------------------------------------------------------------------
(* The invariant of the honest validator *)

AcceptedType == accepted \subseteq [op: Operation, txv: SUBSET Key]

\* What the prechecks saw and nothing can undo: the requester of a payment has
\* an entry, the subnetwork is deployed, and the sum of a transfer fits.
AcceptedStands ==
  \A x \in accepted :
    /\ x.op.r # Honest
    /\ x.op.type \in Payment => Exists(x.op.r)
    /\ x.op.type = "tx" => deployment[x.op.bs] # NoAddress
    /\ x.op.type = "transfer" => Deducted(x.op.r, x.op.to, x.op.amount) <= MaxBalance

\* The signed view shows no deployment that is not there.
SignedBehind ==
  \A s \in Subnet : signed.deployment[s] # NoAddress => deployment[s] # NoAddress

DeployersExist == \A s \in Subnet : deployment[s] # NoAddress => Exists(deployment[s])

HInv ==
  /\ Inv
  /\ AcceptedType
  /\ AcceptedStands
  /\ SignedBehind
  /\ DeployersExist

\* An operation's fields, by type
LEMMA OperationFields ==
  ASSUME NEW op \in Operation
  PROVE  /\ op.tx \in Tx /\ op.r \in Address
         /\ op.type = "transfer" => op.to \in Address /\ op.amount \in Amount
         /\ op.type \in {"bootstrapDeployment", "tx"} => op.bs \in Subnet
         /\ op.type \in {"addWriter", "removeWriter", "adminRecovery"} => op.iw \in Key
  BY DEF Operation, Transferring, OnSubnet, RoleAccess

\* Every step of the honest validator is a step of the ledger or none.
LEMMA HonestStep ==
  ASSUME AcceptedType, [HonestNext]_hvars
  PROVE  [Next]_vars
<1>1. CASE Sign \/ UNCHANGED hvars
  BY <1>1 DEF Sign, hvars
<1>2. ASSUME NEW op \in Operation, Accept(op) PROVE [Next]_vars
  BY <1>2 DEF Accept
<1>3. ASSUME NEW x \in accepted, Include(x) PROVE [Next]_vars
  <2>1. x.op \in Operation
    BY DEF AcceptedType
  <2>2. CASE Refused("FAILURE")
    BY <2>2 DEF Next, MalformedOperation
  <2>3. CASE Perform(x.op)
    <3>1. CosignedOperation(x.op.tx, x.op.r, Honest)
      BY <2>1, <2>3, OperationFields, Zenon DEF Perform, CosignedOperation
    <3>. QED
      BY <2>1, <3>1, OperationFields, HonestAssumption DEF Next
  <2>. QED
    BY <1>3, <2>2, <2>3 DEF Include
<1>4. CASE OthersStep
  BY <1>4, Zenon DEF OthersStep, Next
<1>. QED
  BY <1>1, <1>2, <1>3, <1>4 DEF HonestNext

\* At the start nothing is accepted and nothing deployed.
LEMMA HonestInitInv == HonestInit => HInv
  BY InitInv DEF HonestInit, HInv, AcceptedType, AcceptedStands, SignedBehind,
     DeployersExist, Init, View

\* What was true of the ledger stays true of it as it grows.
LEMMA GrowingStands ==
  ASSUME HInv, Grows, AcceptedType', accepted' \subseteq accepted, signed' = signed
  PROVE  AcceptedStands' /\ SignedBehind'
<1>1. \A x \in accepted : x.op \in Operation
  BY DEF HInv, AcceptedType
<1>2. \A x \in accepted : /\ x.op.r \in Address
                          /\ x.op.type = "tx" => x.op.bs \in Subnet
  BY <1>1, OperationFields
<1>3. AcceptedStands'
  BY <1>2 DEF HInv, AcceptedStands, Grows, Deducted
<1>. QED
  BY <1>3 DEF HInv, SignedBehind, Grows

\* What the prechecks let through stands.
LEMMA AcceptStands ==
  ASSUME HInv, NEW op \in Operation, Accept(op)
  PROVE  AcceptedType' /\ AcceptedStands' /\ SignedBehind'
<1>1. UNCHANGED <<ledger, signed>> /\ Passes(signed, op)
  BY DEF Accept, vars
<1>2. [op |-> op, txv |-> indexers] \in [op: Operation, txv: SUBSET Key]
  BY DEF HInv, Inv, TypeOK, LedgerTypeOK
<1>3. AcceptedType'
  BY <1>2 DEF Accept, HInv, AcceptedType
<1>4. /\ op.r # Honest /\ op.r \in Address
      /\ op.type \in Payment => Exists(op.r)
      /\ op.type = "tx" => deployment[op.bs] # NoAddress
      /\ op.type = "transfer" => Deducted(op.r, op.to, op.amount) <= MaxBalance
  <2>1. op.r \in Address /\ node[op.r] \in NodeEntry
    BY OperationFields DEF HInv, Inv, TypeOK, LedgerTypeOK
  <2>2. CASE op.type = "transfer"
    <3>0. op.to \in Address /\ op.amount \in Amount
      BY <2>2, OperationFields
    <3>1. op.amount \in Nat
      <4>1. \A x \in Amount : x \in Nat
        BY MoneyAssumption
      <4>. QED
        BY <3>0, <4>1
    <3>2. Deducted(op.r, op.to, op.amount) \in Int /\ node[op.r].balance \in 0 .. MaxBalance
      BY <2>1, <3>1, MoneyAssumption DEF Deducted, NodeEntry
    <3>3. PassesTransfer(op) /\ op.r # Honest
      BY <1>1, <2>2 DEF Passes
    <3>. QED
      BY <2>1, <2>2, <3>2, <3>3, MoneyAssumption DEF PassesTransfer
  <2>3. CASE op.type \in {"bootstrapDeployment", "tx"}
    <3>1. PassesOnSubnet(signed, op) /\ op.r # Honest
      BY <1>1, <2>3 DEF Passes
    <3>2. op.bs \in Subnet
      BY <2>3, OperationFields
    <3>. QED
      BY <2>1, <2>3, <3>1, <3>2 DEF PassesOnSubnet, RequesterHas, Exists, HInv, SignedBehind
  <2>4. CASE op.type \in {"addWriter", "removeWriter", "adminRecovery"}
    BY <1>1, <2>1, <2>4 DEF Passes, Payment
  <2>. QED
    BY <2>2, <2>3, <2>4 DEF Operation, Transferring, OnSubnet, RoleAccess
<1>5. AcceptedStands'
  BY <1>1, <1>4 DEF Accept, HInv, AcceptedStands, Exists, ledger, Deducted
<1>. QED
  BY <1>1, <1>3, <1>5 DEF HInv, SignedBehind, ledger

\* The invariant is kept by every step of the validator, the view and others.
LEMMA HonestNextInv == HInv /\ [HonestNext]_hvars => HInv'
<1>. SUFFICES ASSUME HInv, [HonestNext]_hvars PROVE HInv'
  OBVIOUS
<1>1. [Next]_vars
  BY HonestStep DEF HInv
<1>2. Inv' /\ Grows
  BY <1>1, NextInv, NextGrows DEF HInv
<1>3. DeployersExist'
  <2>. SUFFICES ASSUME NEW s \in Subnet, deployment'[s] # NoAddress
                PROVE  node'[deployment'[s]].role # "ABSENT"
    BY DEF DeployersExist, Exists
  <2>1. deployment'[s] \in Address
    <3>1. deployment' \in [Subnet -> Address \union {NoAddress}]
      BY <1>2 DEF Inv, TypeOK, LedgerTypeOK
    <3>. QED
      BY <3>1
  <2>2. Exists(deployment'[s])
    BY <1>2 DEF Grows, HInv, DeployersExist
  <2>. QED
    BY <1>2, <2>1, <2>2 DEF Grows, Exists
<1>4. CASE Sign
  BY <1>2, <1>3, <1>4 DEF Sign, HInv, AcceptedType, AcceptedStands, SignedBehind,
     View, vars, ledger, Exists, Deducted
<1>5. ASSUME NEW op \in Operation, Accept(op) PROVE HInv'
  BY <1>2, <1>3, <1>5, AcceptStands DEF HInv
<1>6. CASE OthersStep \/ UNCHANGED hvars \/ \E x \in accepted : Include(x)
  <2>1. accepted' \subseteq accepted /\ signed' = signed
    BY <1>6 DEF OthersStep, hvars, Include
  <2>2. AcceptedType'
    BY <2>1 DEF HInv, AcceptedType
  <2>. QED
    BY <1>2, <1>3, <2>1, <2>2, GrowingStands DEF HInv
<1>. QED
  BY <1>4, <1>5, <1>6 DEF HonestNext

-----------------------------------------------------------------------------
(* What becomes of the honest validator's operations *)

\* A batch of the honest validator is one of a writer at its current key.
LEMMA HonestIsValid ==
  ASSUME Inv, HonestBatch
  PROVE  IsValidatorValid(Honest) /\ HasAdmin
<1>1. batch.from \in writers /\ batch.from \in Key /\ owner[batch.from] = Honest
  BY DEF HonestBatch, Inv, BatchOfWriter, TypeOK, LedgerTypeOK
<1>2. HasAdmin
  BY <1>1, HonestAssumption, AddressAssumption DEF Inv, BeforeLaunch
<1>. QED
  BY <1>1, <1>2 DEF Inv, WritersAreValidators, IsValidatorValid

\* With room for a whole fee and the amount there is room for every share.
LEMMA RoomForShares ==
  ASSUME TypeOK, NEW op \in Operation, ~NoRoom(op), NEW a \in Address
  PROVE  /\ node[a].balance \in Nat
         /\ CanReceive(a, Share(75)) /\ CanReceive(a, Share(50)) /\ CanReceive(a, Share(25))
         /\ CanReceive(a, Share(50) + Share(25))
         /\ op.type = "transfer" => /\ CanReceive(a, op.amount)
                                   /\ CanReceive(a, Share(75) + op.amount)
<1>1. node[a].balance \in Nat /\ Fee \in Nat /\ MaxBalance \in Nat
  BY MoneyAssumption DEF TypeOK, LedgerTypeOK, NodeEntry
<1>2. /\ Share(75) \in 0 .. Fee /\ Share(50) \in 0 .. Fee /\ Share(25) \in 0 .. Fee
      /\ Share(50) + Share(25) <= Fee
  BY <1>1 DEF Share
<1>3. CASE op.type = "transfer"
  <2>1. op.amount \in Nat
    <3>1. op.amount \in Amount
      BY <1>3, OperationFields
    <3>2. \A x \in Amount : x \in Nat
      BY MoneyAssumption
    <3>. QED
      BY <3>1, <3>2
  <2>2. node[a].balance + (Fee + op.amount) <= MaxBalance
    BY <1>3 DEF NoRoom, MostPaid, CanReceive
  <2>. QED
    BY <1>1, <1>2, <2>1, <2>2 DEF CanReceive
<1>4. CASE op.type # "transfer"
  <2>1. MostPaid(op) \in Nat /\ MostPaid(op) >= Fee
    BY <1>1, <1>4 DEF MostPaid, Stake
  <2>2. node[a].balance + MostPaid(op) <= MaxBalance
    BY DEF NoRoom, CanReceive
  <2>. QED
    BY <1>1, <1>2, <1>4, <2>1, <2>2 DEF CanReceive
<1>. QED
  BY <1>3, <1>4

\* A transfer that stands is not a failure of the validator.
LEMMA TransferStands ==
  ASSUME Inv, HonestBatch, NEW op \in Operation, op.type = "transfer", ~NoRoom(op),
         op.r # Honest, Exists(op.r), Deducted(op.r, op.to, op.amount) <= MaxBalance
  PROVE  TransferStatus(op.tx, op.r, op.to, op.amount, Honest) # "FAILURE"
<1>1. Cosigned(op.r, Honest)
  BY HonestIsValid DEF Cosigned
<1>2. /\ op.to \in Address
      /\ Deducted(op.r, op.to, op.amount) \in Int
  <2>1. op.to \in Address /\ op.amount \in Amount
    BY OperationFields
  <2>2. \A x \in Amount : x \in Nat
    BY MoneyAssumption
  <2>3. op.amount \in Nat /\ Fee \in Nat
    BY <2>1, <2>2, FeeType
  <2>. QED
    BY <2>1, <2>3 DEF Deducted
<1>3. \A a \in Address : /\ CanReceive(a, op.amount) /\ CanReceive(a, Share(75))
                         /\ CanReceive(a, Share(75) + op.amount)
  BY RoomForShares DEF Inv
<1>4. CanReceive(Honest, Share(75) + (IF op.to = Honest THEN op.amount ELSE 0))
  <2>1. Share(75) + 0 = Share(75)
    BY FeeType
  <2>. QED
    BY <1>3, <2>1, HonestAssumption
<1>5. ~(Deducted(op.r, op.to, op.amount) > MaxBalance)
  BY <1>2, MoneyAssumption
<1>. QED
  BY <1>1, <1>2, <1>3, <1>4, <1>5, Zenon DEF TransferStatus

\* Nor is a deployment, or a transaction on a deployed subnetwork.
LEMMA OnSubnetStands ==
  ASSUME Inv, DeployersExist, HonestBatch, NEW op \in Operation, ~NoRoom(op),
         op.r # Honest, Exists(op.r)
  PROVE  /\ op.type = "bootstrapDeployment" =>
              BootstrapDeploymentStatus(op.tx, op.r, op.bs, Honest) # "FAILURE"
         /\ op.type = "tx" /\ deployment[op.bs] # NoAddress =>
              TxStatus(op.tx, op.r, op.bs, Honest) # "FAILURE"
<1>1. Cosigned(op.r, Honest)
  BY HonestIsValid DEF Cosigned
<1>2. \A a \in Address : /\ CanReceive(a, Share(75)) /\ CanReceive(a, Share(50))
                         /\ CanReceive(a, Share(25)) /\ CanReceive(a, Share(50) + Share(25))
  BY RoomForShares DEF Inv
<1>3. ASSUME op.type = "tx", deployment[op.bs] # NoAddress
      PROVE  CanPayTxFee(op.r, Honest, deployment[op.bs])
  <2>1. op.bs \in Subnet
    BY <1>3, OperationFields
  <2>2. deployment[op.bs] \in Address /\ Exists(deployment[op.bs])
    BY <1>3, <2>1 DEF DeployersExist, Inv, TypeOK, LedgerTypeOK
  <2>. QED
    BY <1>2, <2>2, HonestAssumption DEF CanPayTxFee
<1>4. CanReceive(Honest, Share(75))
  BY <1>2, HonestAssumption
<1>. QED
  BY <1>1, <1>3, <1>4, Zenon DEF BootstrapDeploymentStatus, TxStatus

\* An operation on a subnetwork or a transfer that passes now succeeds now.
LEMMA PaymentSucceeds ==
  ASSUME HInv, HonestBatch, NEW op \in Operation, op.type \in Payment,
         Passes(View, op), ~NoRoom(op)
  PROVE  Outcome(op) = "SUCCESS"
<1>1. Cosigned(op.r, Honest) /\ op.tx \notin applied /\ op.r \in Address
  BY HonestIsValid, OperationFields DEF Cosigned, Passes, HInv
<1>2. /\ node[op.r].balance \in 0 .. MaxBalance /\ Fee \in Nat /\ MaxBalance \in Nat
      /\ \A a \in Address : /\ CanReceive(a, Share(75)) /\ CanReceive(a, Share(50))
                            /\ CanReceive(a, Share(25))
                            /\ CanReceive(a, Share(50) + Share(25))
  BY <1>1, RoomForShares, MoneyAssumption DEF HInv, Inv, TypeOK, LedgerTypeOK, NodeEntry
<1>3. CASE op.type = "transfer"
  <2>1. PassesTransfer(op)
    BY <1>3 DEF Passes
  <2>2. op.amount \in Nat
    <3>1. op.amount \in Amount
      BY <1>3, OperationFields
    <3>2. \A x \in Amount : x \in Nat
      BY MoneyAssumption
    <3>. QED
      BY <3>1, <3>2
  <2>3. /\ Deducted(op.r, op.to, op.amount) \in Nat
        /\ Deducted(op.r, op.to, op.amount) <= node[op.r].balance
    BY <1>2, <2>1, <2>2 DEF PassesTransfer, Deducted
  <2>4. /\ ~(Deducted(op.r, op.to, op.amount) > MaxBalance)
        /\ ~(node[op.r].balance < Deducted(op.r, op.to, op.amount))
    BY <1>2, <2>3
  <2>5. \A a \in Address : CanReceive(a, op.amount) /\ CanReceive(a, Share(75) + op.amount)
    BY <1>3, RoomForShares DEF HInv, Inv
  <2>6. op.to \in Address /\ Share(75) + 0 = Share(75)
    BY <1>3, OperationFields, FeeType
  <2>7. CanReceive(Honest, Share(75) + (IF op.to = Honest THEN op.amount ELSE 0))
    BY <1>2, <2>5, <2>6, HonestAssumption
  <2>8. Exists(op.r)
    BY <2>1 DEF PassesTransfer
  <2>9. TransferStatus(op.tx, op.r, op.to, op.amount, Honest) = "SUCCESS"
    BY <1>1, <2>4, <2>5, <2>6, <2>7, <2>8, HonestAssumption, Zenon DEF TransferStatus
  <2>. QED
    BY <1>3, <2>9 DEF Outcome
<1>4. CASE op.type \in {"bootstrapDeployment", "tx"}
  <2>1. op.bs \in Subnet /\ PassesOnSubnet(View, op)
    BY <1>4, OperationFields DEF Passes
  <2>2. Exists(op.r) /\ ~(node[op.r].balance < Fee)
    BY <1>1, <1>2, <2>1 DEF PassesOnSubnet, RequesterHas, View, Exists
  <2>3. CASE op.type = "tx"
    <3>1. deployment[op.bs] # NoAddress
      BY <2>1, <2>3 DEF PassesOnSubnet, View
    <3>2. deployment[op.bs] \in Address /\ Exists(deployment[op.bs])
      BY <2>1, <3>1 DEF HInv, DeployersExist, Inv, TypeOK, LedgerTypeOK
    <3>3. CanPayTxFee(op.r, Honest, deployment[op.bs])
      BY <1>2, <3>2, HonestAssumption DEF CanPayTxFee
    <3>4. TxStatus(op.tx, op.r, op.bs, Honest) = "SUCCESS"
      BY <1>1, <2>2, <3>1, <3>3, Zenon DEF TxStatus
    <3>. QED
      BY <2>3, <3>4 DEF Outcome
  <2>4. CASE op.type = "bootstrapDeployment"
    <3>1. deployment[op.bs] = NoAddress
      BY <2>1, <2>4 DEF PassesOnSubnet
    <3>2. CanReceive(Honest, Share(75))
      BY <1>2, HonestAssumption
    <3>3. BootstrapDeploymentStatus(op.tx, op.r, op.bs, Honest) = "SUCCESS"
      BY <1>1, <2>2, <3>1, <3>2, Zenon DEF BootstrapDeploymentStatus
    <3>. QED
      BY <2>4, <3>3 DEF Outcome
  <2>. QED
    BY <1>4, <2>3, <2>4
<1>. QED
  BY <1>3, <1>4 DEF Payment

\* So does a join; a removal of the own key; and a recovery to a new key by an
\* admin who still is an indexer.
LEMMA RoleAccessSucceeds ==
  ASSUME HInv, HonestBatch, NEW op \in Operation,
         op.type \in {"addWriter", "removeWriter", "adminRecovery"},
         Passes(View, op), ~NoRoom(op), ~Unchecked(op)
  PROVE  Outcome(op) = "SUCCESS"
<1>1. /\ Cosigned(op.r, Honest) /\ op.tx \notin applied
      /\ op.r \in Address /\ op.iw \in Key /\ HasAdmin
      /\ PassesRoleAccess(View, op)
  BY HonestIsValid, OperationFields DEF Cosigned, Passes, HInv
<1>2. /\ node[op.r] \in NodeEntry /\ node[op.r].balance \in Nat
      /\ Fee \in Nat \ {0} /\ MaxBalance \in Nat
      /\ CanReceive(Honest, Share(75))
  BY <1>1, RoomForShares, MoneyAssumption, HonestAssumption
     DEF HInv, Inv, TypeOK, LedgerTypeOK, NodeEntry
<1>3. CASE op.type = "addWriter"
  <2>1. /\ node[op.r].balance >= 11 * Fee /\ node[op.r].role = "WHITELISTED"
        /\ owner[op.iw] # NoAddress => node[op.r].wk = op.iw /\ owner[op.iw] = op.r
    BY <1>1, <1>3 DEF PassesRoleAccess, RequesterHas, JoinPrice, KeyIsUsable, View
  <2>2. MayBecomeWriter(op.r, op.iw) /\ ~(node[op.r].balance < Fee)
    BY <1>2, <2>1 DEF MayBecomeWriter, Exists, IsWhitelisted, IsWriter
  <2>3. CanStake(Debit(node[op.r], Fee))
    BY <1>2, <2>1 DEF CanStake, Debit, Stake, NodeEntry
  <2>4. AddWriterStatus(op.tx, op.r, op.iw, Honest) = "SUCCESS"
    BY <1>1, <1>2, <2>2, <2>3, Zenon DEF AddWriterStatus
  <2>. QED
    BY <1>3, <2>4 DEF Outcome
<1>4. CASE op.type = "removeWriter"
  <2>1. /\ node[op.r].balance >= Fee /\ node[op.r].role = "WRITER"
        /\ node[op.r].wk = op.iw
    BY <1>1, <1>4 DEF PassesRoleAccess, RequesterHas, View, Unchecked
  <2>2. owner[op.iw] = op.r /\ node[op.r].staked = Stake
    BY <1>1, <2>1, KeyAssumption DEF HInv, Inv, KeysBelongToNodes, StakeMatchesRole, IsWriter
  <2>3. MayLeave(op.r, op.iw) /\ ~(node[op.r].balance < Fee)
    BY <1>2, <2>1, <2>2 DEF MayLeave, IsWriter, IsIndexer
  <2>4. node[op.r].balance + Stake <= MaxBalance
    BY <1>1, <1>4 DEF NoRoom, MostPaid, CanReceive
  <2>5. CanWithdraw(Debit(node[op.r], Fee))
    <3>1. /\ Debit(node[op.r], Fee).balance = node[op.r].balance - Fee
          /\ Debit(node[op.r], Fee).staked = Stake
      BY <1>2, <2>2 DEF Debit, NodeEntry
    <3>. QED
      BY <1>2, <2>4, <3>1, StakeType DEF CanWithdraw
  <2>6. RemoveWriterStatus(op.tx, op.r, op.iw, Honest) = "SUCCESS"
    BY <1>1, <1>2, <2>3, <2>5, Zenon DEF RemoveWriterStatus
  <2>. QED
    BY <1>4, <2>6 DEF Outcome
<1>5. CASE op.type = "adminRecovery"
  <2>1. /\ admin.addr = op.r /\ ~(node[op.r].balance < Fee)
        /\ owner[op.iw] = NoAddress /\ admin.wk \in indexers
    BY <1>1, <1>2, <1>5 DEF PassesRoleAccess, RequesterHas, View, Unchecked
  <2>2. op.iw \notin indexers
    BY <1>1, <2>1 DEF HInv, Inv, IndexersAreRecorded
  <2>3. AdminRecoveryStatus(op.tx, op.r, op.iw, Honest) = "SUCCESS"
    BY <1>1, <1>2, <2>1, <2>2, Zenon DEF AdminRecoveryStatus
  <2>. QED
    BY <1>5, <2>3 DEF Outcome
<1>. QED
  BY <1>3, <1>4, <1>5

\* A payment that waited is not counted as a failure when its turn comes.
LEMMA IncludedPayment ==
  ASSUME HInv, NEW x \in accepted, Include(x), x.op.type \in Payment,
         x.txv = indexers, ~NoRoom(x.op)
  PROVE  batch'.invalid = batch.invalid
<1>1. x.op \in Operation /\ x.op.r # Honest /\ Exists(x.op.r) /\ HonestBatch /\ Perform(x.op)
  BY DEF HInv, AcceptedType, AcceptedStands, Include
<1>2. batch \in [from: Key \union {ZeroKey}, size: 0 .. MaxBatch, invalid: 0 .. MaxBatch]
  BY DEF HInv, Inv, TypeOK, BatchTypeOK
<1>3. \A s : s # "FAILURE" /\ Refused(s) => batch'.invalid = batch.invalid
  BY <1>2 DEF Refused, Count
<1>4. \A tx, s : Stored(tx, s) => batch'.invalid = batch.invalid
  BY <1>2 DEF Stored, Count
<1>5. Throw => batch'.invalid = batch.invalid
  BY DEF Throw
<1>6. CASE x.op.type = "transfer"
  <2>1. TransferStatus(x.op.tx, x.op.r, x.op.to, x.op.amount, Honest) # "FAILURE"
    BY <1>1, <1>6, TransferStands DEF HInv, AcceptedStands
  <2>2. Transfer(x.op.tx, x.op.r, x.op.to, x.op.amount, Honest)
    BY <1>1, <1>6 DEF Perform
  <2>. QED
    BY <1>3, <1>4, <1>5, <2>1, <2>2, Zenon DEF Transfer
<1>7. CASE x.op.type = "bootstrapDeployment"
  <2>1. BootstrapDeploymentStatus(x.op.tx, x.op.r, x.op.bs, Honest) # "FAILURE"
    BY <1>1, <1>7, OnSubnetStands DEF HInv
  <2>2. BootstrapDeployment(x.op.tx, x.op.r, x.op.bs, Honest)
    BY <1>1, <1>7 DEF Perform
  <2>. QED
    BY <1>3, <1>4, <2>1, <2>2, Zenon DEF BootstrapDeployment
<1>8. CASE x.op.type = "tx"
  <2>1. TxStatus(x.op.tx, x.op.r, x.op.bs, Honest) # "FAILURE"
    BY <1>1, <1>8, OnSubnetStands DEF HInv, AcceptedStands
  <2>2. TxOperation(x.op.tx, x.op.r, x.op.bs, Honest)
    BY <1>1, <1>8 DEF Perform
  <2>. QED
    BY <1>3, <1>4, <2>1, <2>2, Zenon DEF TxOperation
<1>. QED
  BY <1>6, <1>7, <1>8 DEF Payment

-----------------------------------------------------------------------------
(* Theorems *)

\* The invariant of the ledger and of the accepted operations holds whatever
\* the others do.
THEOREM HonestInvariance == HonestSpec => []HInv
<1>. QED
  BY HonestInitInv, HonestNextInv, PTL DEF HonestSpec

\* The ledger an honest validator takes part in is the ledger: all that is
\* proved of Ledger holds of it.
THEOREM HonestLedger == HonestSpec => Spec
<1>1. HonestInit => Init
  BY DEF HonestInit
<1>2. HInv /\ [HonestNext]_hvars => [Next]_vars
  BY HonestStep DEF HInv
<1>. QED
  BY <1>1, <1>2, HonestInvariance, PTL DEF HonestSpec, Spec

\* The prechecks ask for no less than the handlers of #apply.
THEOREM PrechecksSuffice == HonestSpec => []PrecheckedSucceeds
<1>1. HInv => PrecheckedSucceeds
  <2>. SUFFICES ASSUME HInv, HonestBatch, NEW op \in Operation, Passes(View, op),
                       ~Unchecked(op), ~NoRoom(op)
                PROVE  Outcome(op) = "SUCCESS"
    BY DEF PrecheckedSucceeds
  <2>1. \/ op.type \in Payment
        \/ op.type \in {"addWriter", "removeWriter", "adminRecovery"}
    BY DEF Operation, Transferring, OnSubnet, RoleAccess, Payment
  <2>. QED
    BY <2>1, PaymentSucceeds, RoleAccessSucceeds
<1>. QED
  BY <1>1, HonestInvariance, PTL

\* An honest validator is never punished for a payment, however late it is
\* applied, unless the indexers changed or money ran out of room.
THEOREM PaymentsAreSafe == HonestSpec => PaymentsOutliveTheWait
<1>. DEFINE Safe ==
       \A x \in accepted \ accepted' :
         /\ x.op.type \in Payment
         /\ batch'.invalid > batch.invalid
         => x.txv # indexers \/ NoRoom(x.op)
<1>1. ASSUME HInv, [HonestNext]_hvars PROVE Safe
  <2>. SUFFICES ASSUME NEW x \in accepted \ accepted', x.op.type \in Payment,
                       x.txv = indexers, ~NoRoom(x.op)
                PROVE  ~(batch'.invalid > batch.invalid)
    OBVIOUS
  <2>1. Include(x)
    BY <1>1 DEF HonestNext, Sign, Accept, Include, OthersStep, hvars
  <2>2. batch'.invalid = batch.invalid /\ batch.invalid \in Nat
    <3>1. batch.invalid \in Nat
      BY <1>1, BatchAssumption DEF HInv, Inv, TypeOK, BatchTypeOK
    <3>. QED
      BY <1>1, <2>1, <3>1, IncludedPayment
  <2>. QED
    BY <2>2
<1>2. HInv /\ [HonestNext]_hvars => [Safe]_hvars
  BY <1>1
<1>. QED
  BY <1>2, HonestInvariance, PTL DEF HonestSpec, PaymentsOutliveTheWait

\* A copy of an operation in the ledger is not counted as a failure, whatever
\* its requester has become.
LEMMA IncludedCopy ==
  ASSUME HInv, NEW x \in accepted, Include(x), x.op.tx \in applied,
         x.op.type # "adminRecovery", x.txv = indexers
  PROVE  batch'.invalid = batch.invalid
<1>1. x.op \in Operation /\ x.op.r # Honest /\ HonestBatch /\ Perform(x.op)
  BY DEF HInv, AcceptedType, AcceptedStands, Include
<1>2. Cosigned(x.op.r, Honest)
  BY <1>1, HonestIsValid DEF HInv, Cosigned
<1>3. batch \in [from: Key \union {ZeroKey}, size: 0 .. MaxBatch, invalid: 0 .. MaxBatch]
  BY DEF HInv, Inv, TypeOK, BatchTypeOK
<1>4. \A s : s # "FAILURE" /\ Refused(s) => batch'.invalid = batch.invalid
  BY <1>3 DEF Refused, Count
<1>5. \A tx, s : Stored(tx, s) => batch'.invalid = batch.invalid
  BY <1>3 DEF Stored, Count
<1>6. Throw => batch'.invalid = batch.invalid
  BY DEF Throw
<1>7. CASE x.op.type = "transfer"
  <2>1. TransferStatus(x.op.tx, x.op.r, x.op.to, x.op.amount, Honest) = "IGNORE"
    BY <1>2 DEF TransferStatus
  <2>. QED
    BY <1>1, <1>4, <1>5, <1>6, <1>7, <2>1, Zenon DEF Perform, Transfer
<1>8. CASE x.op.type = "bootstrapDeployment"
  <2>1. BootstrapDeploymentStatus(x.op.tx, x.op.r, x.op.bs, Honest) = "IGNORE"
    BY <1>2 DEF BootstrapDeploymentStatus
  <2>. QED
    BY <1>1, <1>4, <1>5, <1>8, <2>1, Zenon DEF Perform, BootstrapDeployment
<1>9. CASE x.op.type = "tx"
  <2>1. TxStatus(x.op.tx, x.op.r, x.op.bs, Honest) = "IGNORE"
    BY <1>2 DEF TxStatus
  <2>. QED
    BY <1>1, <1>4, <1>5, <1>9, <2>1, Zenon DEF Perform, TxOperation
<1>10. CASE x.op.type = "addWriter"
  <2>1. AddWriterStatus(x.op.tx, x.op.r, x.op.iw, Honest) = "IGNORE"
    BY <1>2 DEF AddWriterStatus
  <2>. QED
    BY <1>1, <1>4, <1>5, <1>10, <2>1, Zenon DEF Perform, AddWriter
<1>11. CASE x.op.type = "removeWriter"
  <2>1. RemoveWriterStatus(x.op.tx, x.op.r, x.op.iw, Honest) = "IGNORE"
    BY <1>2 DEF RemoveWriterStatus
  <2>. QED
    BY <1>1, <1>4, <1>5, <1>11, <2>1, Zenon DEF Perform, RemoveWriter
<1>. QED
  BY <1>1, <1>7, <1>8, <1>9, <1>10, <1>11
    DEF Operation, Transferring, OnSubnet, RoleAccess

\* A retry that another validator was faster with never costs the honest one.
THEOREM CopiesAreSafe == HonestSpec => CopiesAreIgnored
<1>. DEFINE Safe ==
       \A x \in accepted \ accepted' :
         /\ x.op.tx \in applied /\ x.op.type # "adminRecovery"
         /\ batch'.invalid > batch.invalid
         => x.txv # indexers
<1>1. ASSUME HInv, [HonestNext]_hvars PROVE Safe
  <2>. SUFFICES ASSUME NEW x \in accepted \ accepted', x.op.tx \in applied,
                       x.op.type # "adminRecovery", x.txv = indexers
                PROVE  ~(batch'.invalid > batch.invalid)
    OBVIOUS
  <2>1. Include(x)
    BY <1>1 DEF HonestNext, Sign, Accept, Include, OthersStep, hvars
  <2>2. batch.invalid \in Nat
    BY <1>1, BatchAssumption DEF HInv, Inv, TypeOK, BatchTypeOK
  <2>. QED
    BY <1>1, <2>1, <2>2, IncludedCopy
<1>2. HInv /\ [HonestNext]_hvars => [Safe]_hvars
  BY <1>1
<1>. QED
  BY <1>2, HonestInvariance, PTL DEF HonestSpec, CopiesAreIgnored

\* What the commands of a wallet let through its validator does not refuse.
THEOREM CommandsSuffice == HonestSpec => []CommandsPassPrechecks
<1>1. HInv => CommandsPassPrechecks
  <2>. SUFFICES ASSUME HInv, NEW op \in Operation, MayRequest(View, op), ~LeftToValidator(op),
                       op.r # Honest, op.tx \notin applied
                PROVE  Passes(View, op)
    BY DEF CommandsPassPrechecks
  <2>1. View.node = node /\ View.admin = admin /\ View.deployment = deployment
    BY DEF View
  <2>2. CASE op.type = "transfer"
    BY <2>1, <2>2 DEF MayRequest, MayTransfer, LeftToValidator, Passes, PassesTransfer, Exists
  <2>3. CASE op.type = "bootstrapDeployment"
    BY <2>1, <2>3 DEF MayRequest, MayDeploy, Passes, PassesOnSubnet, RequesterHas
  <2>4. CASE op.type = "tx"
    BY <2>4 DEF MayRequest, Passes
  <2>5. CASE op.type = "addWriter"
    BY <2>1, <2>5 DEF MayRequest, MayJoin, LeftToValidator, Passes, PassesRoleAccess,
                      RequesterHas
  <2>6. CASE op.type = "removeWriter"
    BY <2>1, <2>6 DEF MayRequest, MayResign, Passes, PassesRoleAccess, RequesterHas
  <2>7. CASE op.type = "adminRecovery"
    <3>1. admin.addr = op.r /\ HasAdmin
      BY <2>1, <2>7, OperationFields, AddressAssumption DEF MayRequest, MayRecover, HasAdmin
    <3>2. node[op.r].role # "ABSENT"
      BY <3>1 DEF HInv, Inv, AdminStaysInOffice
    <3>3. node[op.r].balance >= Fee
      <4>1. node[op.r].balance \in Nat /\ Fee \in Nat
        BY OperationFields, MoneyAssumption
          DEF HInv, Inv, TypeOK, LedgerTypeOK, NodeEntry
      <4>. QED
        BY <2>7, <4>1 DEF LeftToValidator
    <3>. QED
      BY <2>1, <2>7, <3>2, <3>3 DEF MayRequest, MayRecover, Passes, PassesRoleAccess, RequesterHas
  <2>. QED
    BY <2>2, <2>3, <2>4, <2>5, <2>6, <2>7 DEF Operation, Transferring, OnSubnet, RoleAccess
<1>. QED
  BY <1>1, HonestInvariance, PTL
-----------------------------------------------------------------------------
(* The messages of the accepted operations *)

\* What is hashed is hashed field by field.
LEMMA SameHash ==
  ASSUME NEW type, NEW fields, NEW body, NEW other,
         \A i \in DOMAIN fields : body[fields[i]] = other[fields[i]]
  PROVE  CreateMessage(type, fields, body) = CreateMessage(type, fields, other)
  BY DEF CreateMessage

\* The builder, the prechecks and #apply list the same fields, and none of the
\* validator's is among them.
LEMMA RequestFields ==
  ASSUME NEW p \in {"rao", "txo", "bdo", "tro"}
  PROVE  /\ Built[p] = Prechecked[p] /\ Built[p] = Applied[p]
         /\ \A i \in DOMAIN Built[p] : Built[p][i] \in Own[p] \union {"txv", "in"}
         /\ Own[p] \intersect ({"tx", "is", "txv", "in"} \union Completion) = {}
         /\ "mbs" \in Own[p] <=> p = "txo"
         /\ NeedsValidator(p) /\ p # "bio"
<1>1. CASE p = "rao"
  BY <1>1 DEF Built, Prechecked, Applied, Own, NeedsValidator, Completion
<1>2. CASE p = "txo"
  BY <1>2 DEF Built, Prechecked, Applied, Own, NeedsValidator, Completion
<1>3. CASE p = "bdo"
  BY <1>3 DEF Built, Prechecked, Applied, Own, NeedsValidator, Completion
<1>4. CASE p = "tro"
  BY <1>4 DEF Built, Prechecked, Applied, Own, NeedsValidator, Completion
<1>. QED
  BY <1>1, <1>2, <1>3, <1>4

\* A record whose fields are replaced is the record of the new ones.
LEMMA Replaced ==
  ASSUME NEW m, NEW t, NEW w, NEW n, NEW b, NEW nulls, NEW body,
         m \in [type : {t}, address : {w}, nulls : {n}, body : {b}]
  PROVE  [m EXCEPT !.body = body, !.nulls = nulls]
           = [type |-> t, address |-> w, nulls |-> nulls, body |-> body]
<1>. DEFINE e == [m EXCEPT !.body = body, !.nulls = nulls]
<1>1. e \in [type : {t}, address : {w}, nulls : {nulls}, body : {body}]
  OBVIOUS
<1>. HIDE DEF e
<1>2. e = [type |-> t, address |-> w, nulls |-> nulls, body |-> body]
  BY <1>1
<1>. QED
  BY <1>2 DEF e

\* A message as the builder makes it, with the hash tx
MessageOf(type, wallet, tx, body) ==
  /\ body = [f \in Fields(Payload(type)) |-> body[f]]
  /\ body["tx"] = tx /\ body["is"] = Signature(wallet, tx)
  /\ tx = CreateMessage(type, Built[Payload(type)], body)
  /\ Payload(type) = "txo" => body["mbs"] = MsbBootstrap

\* What the builder makes for a requester has the fields, hash and signature of
\* its type.
LEMMA RequestBuilt ==
  ASSUME NEW wallet, NEW type, Payload(type) \in {"rao", "txo", "bdo", "tro"},
         NEW given, Payload(type) = "txo" => given["mbs"] = MsbBootstrap,
         NEW txv, NEW nonce
  PROVE  \E tx, body :
           /\ RequesterMessage(wallet, type, given, txv, nonce)
                = [type |-> type, address |-> wallet, nulls |-> {}, body |-> body]
           /\ MessageOf(type, wallet, tx, body)
           /\ body["txv"] = txv /\ body["in"] = nonce
<1>. DEFINE p == Payload(type)
            content == Own[p] \union {"txv", "in"}
            signed0 == [f \in content |->
                          CASE f = "txv" -> txv [] f = "in" -> nonce [] OTHER -> given[f]]
            tx == CreateMessage(type, Built[p], signed0)
            body == [f \in Fields(p) |-> CASE f = "tx" -> tx
                                           [] f = "is" -> Signature(wallet, tx)
                                           [] OTHER -> signed0[f]]
<1>1. RequesterMessage(wallet, type, given, txv, nonce)
        = [type |-> type, address |-> wallet, nulls |-> {}, body |-> body]
  BY DEF RequesterMessage
<1>2. p \in {"rao", "txo", "bdo", "tro"} /\ (p = "txo" => given["mbs"] = MsbBootstrap)
  OBVIOUS
<1>. HIDE DEF p
<1>3. /\ signed0["txv"] = txv /\ signed0["in"] = nonce
      /\ p = "txo" => signed0["mbs"] = MsbBootstrap
  BY <1>2, RequestFields
<1>. HIDE DEF signed0
<1>. HIDE DEF tx
<1>4. /\ DOMAIN body = Fields(p)
      /\ body["tx"] = tx /\ body["is"] = Signature(wallet, tx)
      /\ \A f \in content : body[f] = signed0[f]
  BY <1>2, RequestFields DEF Fields
<1>. HIDE DEF body
<1>5. tx = CreateMessage(type, Built[p], body)
  BY <1>2, <1>4, RequestFields, SameHash DEF tx
<1>6. p = "txo" => body["mbs"] = MsbBootstrap
  BY <1>2, <1>3, <1>4, RequestFields
<1>7. MessageOf(type, wallet, tx, body)
  <2>1. body = [f \in Fields(p) |-> body[f]]
    BY DEF body
  <2>. QED
    BY <1>4, <1>5, <1>6, <2>1 DEF MessageOf, p
<1>8. body["txv"] = txv /\ body["in"] = nonce
  BY <1>3, <1>4
<1>. QED
  BY <1>1, <1>7, <1>8

\* On the way to the validator the message loses nothing and gains nothing,
\* whichever protocol it takes.
LEMMA RequestArrives ==
  ASSUME NEW type, Payload(type) \in {"rao", "txo", "bdo", "tro"},
         NEW wallet, NEW tx, NEW body, MessageOf(type, wallet, tx, body),
         NEW m, m = [type |-> type, address |-> wallet, nulls |-> {}, body |-> body]
  PROVE  /\ Normalized(m) = m
         /\ Decoded(m) = [m EXCEPT !.nulls = Completion]
         /\ Received(m) = {m}
<1>. DEFINE p == Payload(type)
<1>1. /\ NeedsValidator(p) /\ Fields(p) \intersect Completion = {}
      /\ DOMAIN body = Fields(p)
  BY RequestFields DEF Fields, MessageOf, Completion
<1>2. [f \in Fields(p) |-> body[f]] = body
  BY <1>1 DEF MessageOf
<1>3. Normalized(m) = m
  <2>1. m.type = type /\ m.body = body /\ m.nulls = {}
    OBVIOUS
  <2>2. [f \in Fields(Payload(m.type)) |-> m.body[f]] = body
    BY <1>2, <2>1
  <2>3. [m EXCEPT !.body = body, !.nulls = {}] = m
    <3>1. m \in [type : {type}, address : {wallet}, nulls : {{}}, body : {body}]
      OBVIOUS
    <3>. QED
      BY <3>1, Replaced
  <2>. QED
    BY <2>2, <2>3, Zenon DEF Normalized
<1>4. Decoded(m) = [m EXCEPT !.nulls = Completion]
  BY <1>1 DEF Decoded
<1>5. Sanitized(Decoded(m)) = m
  BY <1>4 DEF Sanitized
<1>. QED
  BY <1>3, <1>4, <1>5 DEF Received

\* It passes the prechecks, and once another validator has completed it, it is
\* well formed and signed while its txv is the current one, and its sender
\* knows it again.
LEMMA BuiltIsAccepted ==
  ASSUME NEW type, Payload(type) \in {"rao", "txo", "bdo", "tro"},
         NEW wallet, NEW tx, NEW body, MessageOf(type, wallet, tx, body),
         NEW m, m = [type |-> type, address |-> wallet, nulls |-> {}, body |-> body],
         NEW v, v # wallet, NEW nonce, nonce # body["in"], NEW current
  PROVE  /\ PrecheckVerifies(m, body["txv"])
         /\ Verifies(Decoded(Completed(v, m, nonce)), current) <=> body["txv"] = current
         /\ AnswerMatches(m, Completed(v, m, nonce))
<1>. DEFINE p == Payload(type)
            vs == Signature(v, ValidatorMessage(type, tx, nonce))
            all == [f \in Fields(p) \union Completion |->
                      CASE f = "va" -> v [] f = "vn" -> nonce [] f = "vs" -> vs
                        [] OTHER -> body[f]]
            c == [type |-> type, address |-> wallet, nulls |-> {}, body |-> all]
            hashed == [f \in DOMAIN all |-> IF f = "mbs" THEN MsbBootstrap ELSE all[f]]
<1>1. /\ NeedsValidator(p) /\ p # "bio" /\ Fields(p) \intersect Completion = {}
      /\ DOMAIN body = Fields(p)
      /\ {"tx", "txv", "in", "is"} \subseteq Fields(p) /\ Own[p] \subseteq Fields(p)
      /\ "mbs" \in Fields(p) <=> p = "txo"
  BY RequestFields DEF Fields, MessageOf, Completion
<1>2. /\ body["tx"] = tx /\ body["is"] = Signature(wallet, tx)
      /\ tx = CreateMessage(type, Built[p], body)
      /\ p = "txo" => body["mbs"] = MsbBootstrap
  BY DEF MessageOf
<1>3. PrecheckVerifies(m, body["txv"])
  <2>1. SchemaValid(m)
    BY <1>1 DEF SchemaValid
  <2>. QED
    BY <1>2, <2>1, RequestFields DEF PrecheckVerifies
<1>4. Completed(v, m, nonce) = c
  BY <1>2 DEF Completed
<1>. HIDE DEF vs
<1>5. /\ DOMAIN all = Fields(p) \union Completion
      /\ all["va"] = v /\ all["vn"] = nonce /\ all["vs"] = vs
      /\ \A f \in Fields(p) : all[f] = body[f]
  BY <1>1 DEF Completion
<1>. HIDE DEF all
<1>6. Decoded(c) = c
  BY <1>1, <1>5 DEF Decoded
<1>7. SchemaValid(c)
  BY <1>1, <1>5 DEF SchemaValid
<1>8. CosignatureVerifies(c)
  BY <1>1, <1>2, <1>5 DEF CosignatureVerifies, Signature, vs
<1>9. tx = CreateMessage(type, Applied[p], hashed)
  <2>1. \A f \in Fields(p) : hashed[f] = body[f]
    BY <1>1, <1>2, <1>5
  <2>. HIDE DEF hashed
  <2>2. \A i \in DOMAIN Built[p] : Built[p][i] \in Fields(p)
    BY <1>1, RequestFields
  <2>. QED
    BY <1>2, <2>1, <2>2, RequestFields, SameHash
<1>10. Verifies(c, current) <=> body["txv"] = current
  BY <1>1, <1>2, <1>5, <1>7, <1>8, <1>9 DEF Verifies
<1>11. AnswerMatches(m, c)
  <2>1. [f \in DOMAIN all \ Completion |-> all[f]] = body
    <3>1. DOMAIN all \ Completion = Fields(p)
      BY <1>1, <1>5
    <3>2. body = [f \in Fields(p) |-> body[f]]
      BY <1>1 DEF MessageOf
    <3>. QED
      BY <1>5, <3>1, <3>2
  <2>2. DOMAIN all \intersect Completion = Completion
    BY <1>5
  <2>3. Stripped(c) = [m EXCEPT !.nulls = Completion]
    <3>1. c.body = all /\ c.nulls = {}
      OBVIOUS
    <3>2. Stripped(c) = [c EXCEPT !.body = body, !.nulls = {} \union Completion]
      BY <2>1, <2>2, <3>1, Zenon DEF Stripped
    <3>3. {} \union Completion = Completion
      OBVIOUS
    <3>4. c \in [type : {type}, address : {wallet}, nulls : {{}}, body : {all}]
      OBVIOUS
    <3>5. Stripped(c) = [type |-> type, address |-> wallet, nulls |-> Completion,
                         body |-> body]
      BY <3>2, <3>3, <3>4, Replaced
    <3>. QED
      BY <3>5
  <2>4. Decoded(m) = [m EXCEPT !.nulls = Completion]
    BY RequestArrives
  <2>. QED
    BY <1>5, <1>6, <1>7, <2>3, <2>4 DEF AnswerMatches, Completion
<1>. QED
  BY <1>3, <1>4, <1>6, <1>10, <1>11

\* Whatever happened to the ledger since, an accepted operation is one whose
\* message verifies everywhere: at the prechecks, in #apply while its txv
\* stands, and with the sender who looks for it in a proof of publication.
THEOREM AcceptedMessagesVerify == HonestSpec => []AcceptedVerify
<1>1. ASSUME HInv PROVE AcceptedVerify
  <2>. SUFFICES ASSUME NEW x \in accepted, NEW r, r \in Received(Request(x))
                PROVE  LET complete == Completed(Honest, r, <<x.op.tx, "validator">>) IN
                       /\ PrecheckVerifies(r, x.txv)
                       /\ Verifies(Decoded(complete), indexers) <=> x.txv = indexers
                       /\ AnswerMatches(Normalized(Request(x)), complete)
    BY DEF AcceptedVerify
  <2>. DEFINE op == x.op
  <2>1. op \in Operation /\ op.r # Honest /\ op.tx # <<op.tx, "validator">>
    <3>1. op \in Operation /\ op.r # Honest
      BY <1>1 DEF HInv, AcceptedType, AcceptedStands
    <3>. QED
      BY <3>1, OperationFields, NonceAssumption
  <2>2. op.type \in {"transfer", "bootstrapDeployment", "tx", "addWriter", "removeWriter",
                     "adminRecovery"}
    BY <2>1 DEF Operation, Transferring, OnSubnet, RoleAccess
  <2>3. PICK given, nonce :
          /\ given = Given(op) /\ nonce = <<op.tx, "validator">>
          /\ Payload(op.type) \in {"rao", "txo", "bdo", "tro"}
          /\ Payload(op.type) = "txo" => given["mbs"] = MsbBootstrap
    <3>1. /\ Payload(op.type) \in {"rao", "txo", "bdo", "tro"}
          /\ Payload(op.type) = "txo" => op.type = "tx"
      BY <2>2 DEF Payload, IsCoreAdmin, IsAdminControl, IsRoleAccess
    <3>2. op.type = "tx" => Given(op)["mbs"] = MsbBootstrap
      BY DEF Given
    <3>. QED
      BY <3>1, <3>2
  <2>4. Request(x) = RequesterMessage(op.r, op.type, given, x.txv, op.tx)
    BY <2>3 DEF Request
  <2>. HIDE DEF op
  <2>5. PICK tx, body, m :
          /\ m = Request(x)
          /\ m = [type |-> op.type, address |-> op.r, nulls |-> {}, body |-> body]
          /\ MessageOf(op.type, op.r, tx, body)
          /\ body["txv"] = x.txv /\ body["in"] = op.tx
    BY <2>3, <2>4, RequestBuilt
  <2>6. r = m /\ Normalized(m) = m
    BY <2>3, <2>5, RequestArrives
  <2>7. /\ PrecheckVerifies(m, x.txv)
        /\ Verifies(Decoded(Completed(Honest, m, nonce)), indexers) <=> x.txv = indexers
        /\ AnswerMatches(m, Completed(Honest, m, nonce))
    BY <2>1, <2>3, <2>5, BuiltIsAccepted
  <2>. QED
    BY <2>3, <2>5, <2>6, <2>7 DEF op
<1>. QED
  BY HonestInvariance, <1>1, PTL
=============================================================================
