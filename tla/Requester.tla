------------------------------ MODULE Requester ------------------------------
(***************************************************************************)
(* The commands of src/src/index.js that do not append to the ledger but   *)
(* ask a validator to: what each checks before it builds its message, over *)
(* the validator of HonestValidator.  The wallet is the operation's        *)
(* requester; the key of a role operation is the machine's own, except     *)
(* that a removal names the key of the entry.  The message that is built,  *)
(* sent, prechecked, co-signed and applied is that of Messages; the        *)
(* opaque hash of Ledger stands for the nonce that makes it unique.        *)
(***************************************************************************)
EXTENDS HonestValidator, Messages

\* A validator draws its nonce for itself: it is none of the requesters'.
ASSUME NonceAssumption == \A tx \in Tx : tx # <<tx, "validator">>

-----------------------------------------------------------------------------
(* What a command checks.  All of it is read from the signed view s, except *)
(* whether the machine's key is writable: Autobase is asked.                *)

\* requestWriterRole with toAdd: #isAllowedToRequestRole, isWritable and the price
MayJoin(s, r, iw) ==
  /\ s.node[r].role = "WHITELISTED"
  /\ ~(s.admin.addr = r /\ s.admin.wk = iw)
  /\ iw \notin writers
  /\ s.node[r].balance >= JoinPrice

\* requestWriterRole without it
MayResign(s, r, iw) ==
  /\ s.node[r].role = "WRITER" /\ iw = s.node[r].wk
  /\ s.node[r].balance >= Fee

\* handleAdminRecovery
MayRecover(s, r, iw) == s.admin.addr = r /\ s.admin.wk # iw

\* deployBootstrap
MayDeploy(s, r, bs) ==
  /\ s.admin.addr # NoAddress
  /\ s.deployment[bs] = NoAddress
  /\ s.node[r].role # "ABSENT" /\ s.node[r].balance >= Fee

BuggyMayTransfer(s, r, to, amount) ==
  s.node[r].role # "ABSENT" /\ s.node[r].balance >= Fee

\* prepareTransferOperation
MayTransfer(s, r, to, amount) ==
  s.node[r].role # "ABSENT" /\ s.node[r].balance >= Deducted(r, to, amount)

\* A transaction of a subnetwork comes from one of its peers, which has the
\* validator's own prechecks run first (broadcastTransaction).
MayRequest(s, op) ==
  CASE op.type = "addWriter" -> MayJoin(s, op.r, op.iw)
    [] op.type = "removeWriter" -> MayResign(s, op.r, op.iw)
    [] op.type = "adminRecovery" -> MayRecover(s, op.r, op.iw)
    [] op.type = "bootstrapDeployment" -> MayDeploy(s, op.r, op.bs)
    [] op.type = "transfer" -> MayTransfer(s, op.r, op.to, op.amount)
    [] op.type = "tx" -> PassesOnSubnet(s, op)

-----------------------------------------------------------------------------
(* What a requester may count on *)

\* What the commands leave to the validator: whether the machine's key may be
\* registered for the wallet, whether the admin can pay for its recovery, and
\* whether the recipient has room for the amount.
LeftToValidator(op) ==
  \/ op.type = "addWriter" /\ ~KeyIsUsable(View, op.r, op.iw)
  \/ op.type = "adminRecovery" /\ node[op.r].balance < Fee
  \/ op.type = "transfer" /\ op.to # op.r /\ ~CanReceive(op.to, op.amount)

\* A command that goes through is not refused by a validator that has seen the
\* same ledger, whatever roles, keys and balances the requester went through.
CommandsPassPrechecks ==
  ~Open =>
    \A op \in Operation :
      /\ MayRequest(View, op) /\ ~LeftToValidator(op)
      /\ op.r # Honest /\ op.tx \notin applied
      => Passes(View, op)

-----------------------------------------------------------------------------
(* The message behind an accepted operation *)

\* What the wallet gives the builder.  The content of a subnetwork's
\* transaction and the channel of its deployment are as unique as the hash.
Given(op) ==
  CASE op.type = "transfer" -> [to |-> op.to, am |-> op.amount]
    [] op.type = "bootstrapDeployment" -> [bs |-> op.bs, ic |-> op.tx]
    [] op.type = "tx" ->
         [iw |-> op.tx, ch |-> op.tx, bs |-> op.bs, mbs |-> MsbBootstrap]
    [] OTHER -> [iw |-> op.iw]

Request(x) == RequesterMessage(x.op.r, x.op.type, Given(x.op), x.txv, x.op.tx)

\* What a validator sees of it: decoded from the current protocol's bytes, or
\* from the JSON of the legacy one
Received(request) == {Sanitized(Decoded(Normalized(request))), Normalized(request)}

\* The message an operation was accepted as passes the prechecks; co-signed by
\* this validator it is one that #apply takes for well formed and signed, as
\* long as the indexers are those its txv names; and its sender recognises it
\* in the proof of publication.  This is what Ledger and HonestValidator take
\* for granted of an operation.
AcceptedVerify ==
  \A x \in accepted : \A m \in Received(Request(x)) :
    LET complete == Completed(Honest, m, <<x.op.tx, "validator">>) IN
    /\ PrecheckVerifies(m, x.txv)
    /\ Verifies(Decoded(complete), indexers) <=> x.txv = indexers
    /\ AnswerMatches(Normalized(Request(x)), complete)
=============================================================================
