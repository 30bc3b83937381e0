--------------------------- MODULE HonestValidator ---------------------------
(***************************************************************************)
(* One validator that only appends what its prechecks let through, over    *)
(* the ledger of Ledger that everybody else writes to as they like: the    *)
(* validators of src/src/core/network/protocols/shared/validators, run     *)
(* when a request arrives, and the handlers of #apply, run when the        *)
(* operation's turn comes.                                                 *)
(*                                                                         *)
(* In between the operation waits in the queue, in the validator's own log *)
(* and for Autobase to put it in order; all of that is `accepted'.  Most   *)
(* prechecks read the signed view, a past state of the ledger.  It is      *)
(* kept as `signed', and a step of Sign brings it up to date.              *)
(*                                                                         *)
(* A hash determines its operation, so no two accepted operations share    *)
(* one; other writers may apply a copy, or anything else, under any hash.  *)
(* Schema, address and signature checks are abstracted as in Ledger.       *)
(***************************************************************************)
EXTENDS Ledger

CONSTANTS
  Honest,      \* the address of the validator
  MaxAccepted  \* bound on the operations on their way at once

ASSUME HonestAssumption == Honest \in Address

VARIABLES
  accepted,  \* operations on their way, with the txv they carry
  signed     \* what the signed view shows

hvars == <<vars, accepted, signed>>

-----------------------------------------------------------------------------
(* Operations *)

Transferring == [type: {"transfer"}, tx: Tx, r: Address, to: Address, amount: Amount]
OnSubnet == [type: {"bootstrapDeployment", "tx"}, tx: Tx, r: Address, bs: Subnet]
RoleAccess == [type: {"addWriter", "removeWriter", "adminRecovery"},
               tx: Tx, r: Address, iw: Key]

Operation == Transferring \union OnSubnet \union RoleAccess

\* What the reads of the prechecks reach
View == [node |-> node, admin |-> admin, deployment |-> deployment]

-----------------------------------------------------------------------------
(* Prechecks over the present state and the signed view s *)

\* validateRequesterBalance, validateRequesterBalanceForAddWriterOperation:
\* called for the unsigned and for the signed entry
RequesterHas(s, r, amount) ==
  \A e \in {node[r], s.node[r]} : e.role # "ABSENT" /\ e.balance >= amount

BuggyJoinPrice == Fee

\* this.fee * 11n: the fee and the stake
JoinPrice == 11 * Fee

\* validateWriterKey: the registry is read unsigned, the entry signed.
KeyIsUsable(s, r, iw) == owner[iw] # NoAddress => s.node[r].wk = iw /\ owner[iw] = r

\* isRequesterAllowedToChangeRole and the checks before it.  The key of a
\* removal and the indexers of a recovery are not looked at.
PassesRoleAccess(s, op) ==
  CASE op.type = "addWriter" ->
         /\ RequesterHas(s, op.r, JoinPrice)
         /\ KeyIsUsable(s, op.r, op.iw)
         /\ s.node[op.r].role = "WHITELISTED"
    [] op.type = "removeWriter" ->
         /\ RequesterHas(s, op.r, Fee)
         /\ s.node[op.r].role = "WRITER"
    [] op.type = "adminRecovery" ->
         /\ RequesterHas(s, op.r, Fee)
         /\ s.admin.addr = op.r /\ s.admin.wk # op.iw

\* validateBootstrapRegistration reads unsigned, the check that a subnetwork
\* has been deployed reads signed.
PassesOnSubnet(s, op) ==
  /\ RequesterHas(s, op.r, Fee)
  /\ IF op.type = "tx" THEN s.deployment[op.bs] # NoAddress
                       ELSE deployment[op.bs] = NoAddress

\* #validateStateBalances reads unsigned.
PassesTransfer(op) ==
  /\ Exists(op.r)
  /\ node[op.r].balance >= Deducted(op.r, op.to, op.amount)
  /\ op.to # op.r => CanReceive(op.to, op.amount)

\* validateNoSelfValidation, validateTransactionUniqueness, then the rest
Passes(s, op) ==
  /\ op.r # Honest
  /\ op.tx \notin applied
  /\ CASE op.type = "transfer" -> PassesTransfer(op)
       [] op.type \in {"bootstrapDeployment", "tx"} -> PassesOnSubnet(s, op)
       [] OTHER -> PassesRoleAccess(s, op)

-----------------------------------------------------------------------------
(* Steps *)

HonestInit == Init /\ accepted = {} /\ signed = View

\* The indexers sign what has been applied so far.
Sign ==
  /\ ~Open
  /\ signed' = View
  /\ UNCHANGED <<vars, accepted>>

\* A request passes the prechecks; validateTransactionValidity has compared
\* its txv with the hash of the current indexers, whose keys come in Autobase's
\* order; a set stands for that list.  Only an active writer that is no indexer
\* validates (allowedToValidate).
Accept(op) ==
  /\ ~halted /\ ~Open
  /\ node[Honest].role = "WRITER" /\ node[Honest].wk \in writers
  /\ Cardinality(accepted) < MaxAccepted
  /\ \A x \in accepted : x.op.tx # op.tx
  /\ Passes(signed, op)
  /\ accepted' = accepted \union {[op |-> op, txv |-> indexers]}
  /\ UNCHANGED <<vars, signed>>

\* The batch being applied is the honest validator's.
HonestBatch == Open /\ owner[batch.from] = Honest

\* The handler of the operation
Perform(op) ==
  \/ op.type = "transfer" /\ Transfer(op.tx, op.r, op.to, op.amount, Honest)
  \/ op.type = "bootstrapDeployment" /\ BootstrapDeployment(op.tx, op.r, op.bs, Honest)
  \/ op.type = "tx" /\ TxOperation(op.tx, op.r, op.bs, Honest)
  \/ op.type = "addWriter" /\ AddWriter(op.tx, op.r, op.iw, Honest)
  \/ op.type = "removeWriter" /\ RemoveWriter(op.tx, op.r, op.iw, Honest)
  \/ op.type = "adminRecovery" /\ AdminRecovery(op.tx, op.r, op.iw, Honest)

\* A node of the honest validator's batch.  Every handler compares the txv
\* before anything that could let the operation pass or be ignored.
Include(x) ==
  /\ HonestBatch
  /\ IF x.txv = indexers THEN Perform(x.op) ELSE Refused("FAILURE")
  /\ accepted' = accepted \ {x}
  /\ UNCHANGED signed

\* The ledger's other steps.  A batch is never empty.
OthersStep ==
  /\ \/ \E k \in Key : /\ owner[k] = Honest => accepted # {}
                       /\ StartBatch(k)
     \/ \E k \in Key : owner[k] # Honest /\ OversizedBatch(k)
     \/ EndBatch
     \/ /\ ~HonestBatch
        /\ \/ MalformedOperation
           \/ \E tx \in Tx, r \in Address : AdminOperation(tx, r)
           \/ \E tx \in Tx, r \in Address, v \in Address : CosignedOperation(tx, r, v)
  /\ UNCHANGED <<accepted, signed>>

HonestNext ==
  \/ Sign
  \/ \E op \in Operation : Accept(op)
  \/ \E x \in accepted : Include(x)
  \/ OthersStep

HonestSpec == HonestInit /\ [][HonestNext]_hvars

-----------------------------------------------------------------------------
(* What an honest validator may count on *)

\* The most that an operation adds to a balance
MostPaid(op) == CASE op.type = "transfer" -> Fee + op.amount
                  [] op.type = "removeWriter" -> Stake
                  [] OTHER -> Fee

\* A balance is so close to the limit that what is paid may not fit.
NoRoom(op) == \E a \in Address : ~CanReceive(a, MostPaid(op))

\* What the prechecks of the two rarer operations leave out: whether the key
\* of a removal is the requester's, whether the key of a recovery is new, and
\* whether the admin's old key still takes part in consensus.
Unchecked(op) ==
  \/ op.type = "removeWriter" /\ op.iw # node[op.r].wk
  \/ op.type = "adminRecovery" /\ (owner[op.iw] # NoAddress \/ admin.wk \notin indexers)

Outcome(op) ==
  CASE op.type = "transfer" -> TransferStatus(op.tx, op.r, op.to, op.amount, Honest)
    [] op.type = "bootstrapDeployment" -> BootstrapDeploymentStatus(op.tx, op.r, op.bs, Honest)
    [] op.type = "tx" -> TxStatus(op.tx, op.r, op.bs, Honest)
    [] op.type = "addWriter" -> AddWriterStatus(op.tx, op.r, op.iw, Honest)
    [] op.type = "removeWriter" -> RemoveWriterStatus(op.tx, op.r, op.iw, Honest)
    [] op.type = "adminRecovery" -> AdminRecoveryStatus(op.tx, op.r, op.iw, Honest)

\* The prechecks ask for no less than the handlers: an operation that would
\* pass them over the very state it is applied to succeeds, in the batch of
\* the validator whatever its own history of bans, leaves and new keys.
PrecheckedSucceeds ==
  HonestBatch /\ NextNode =>
    \A op \in Operation :
      Passes(View, op) /\ ~Unchecked(op) /\ ~NoRoom(op) => Outcome(op) = "SUCCESS"

Payment == {"transfer", "bootstrapDeployment", "tx"}

\* However long a payment waits, and whatever others do to its requester, its
\* subnetwork or its hash meanwhile, it does not count against the validator:
\* at worst it is ignored.  Only another set of indexers makes it fail.
PaymentsOutliveTheWait ==
  [][\A x \in accepted \ accepted' :
       /\ x.op.type \in Payment
       /\ batch'.invalid > batch.invalid
       => x.txv # indexers \/ NoRoom(x.op)]_hvars

\* An operation that reached the ledger by another way while this copy waited
\* does not count against the validator, whatever has become of its requester
\* and the key it named: the sender may ask several validators.  Only another
\* set of indexers makes the copy fail.  An admin recovery is no exception to
\* the prechecks but one to this.
CopiesAreIgnored ==
  [][\A x \in accepted \ accepted' :
       /\ x.op.tx \in applied /\ x.op.type # "adminRecovery"
       /\ batch'.invalid > batch.invalid
       => x.txv # indexers]_hvars
=============================================================================
