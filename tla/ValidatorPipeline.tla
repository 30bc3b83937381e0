--------------------------- MODULE ValidatorPipeline ---------------------------
(***************************************************************************)
(* How a validator handles the transactions broadcast to it: the request   *)
(* handlers (V1BroadcastTransactionOperationHandler and the legacy         *)
(* handlers), the registry of pending commits (TransactionCommitService),  *)
(* the queue and its worker (TransactionPoolService on a Scheduler), and   *)
(* State.appendWithProofOfPublication.                                     *)
(*                                                                         *)
(* Everything runs on one event loop: an action is what runs between two   *)
(* awaits.  Any number of handlers are suspended at once, the worker is    *)
(* suspended in an append, timers fire in between, and the state view that *)
(* the prechecks read moves on by itself.                                  *)
(*                                                                         *)
(* A definition named Buggy... is the one after it with a plausible bug;   *)
(* no action uses it.                                                      *)
(***************************************************************************)
EXTENDS Integers, Sequences, FiniteSets

CONSTANTS
  Request,     \* broadcast messages, each received once
  Legacy,      \* those that come over the legacy channel
  Tx,          \* transaction hashes
  TxOf,        \* the transaction a message carries
  NoRequest,
  PoolSize,    \* config.txPoolSize
  BufferSize,  \* TRANSACTION_COMMIT_SERVICE_BUFFER_SIZE
  BatchSize    \* BATCH_SIZE

ASSUME RequestAssumption ==
  /\ Legacy \subseteq Request
  /\ TxOf \in [Request -> Tx]
  /\ NoRequest \notin Request
ASSUME SizeAssumption ==
  {PoolSize, BufferSize, BatchSize} \subseteq Nat \ {0}

VARIABLES
  stage,        \* how far the handler of a message got
  answer,       \* the result code of its response
  pending,      \* #pendingCommits: the message that waits for a transaction
  pool,         \* #txPool
  queued,       \* #queuedTxHashes
  batch,        \* what the worker took from the pool
  worker,       \* where #processTransactions is
  log,          \* the blocks of the node's own core
  stored,       \* hashes found in the view
  mayValidate,  \* allowedToValidate or isAdminAllowedToValidate
  service       \* the life of the pool service

handlers == <<stage, answer, pending>>
queue == <<pool, queued>>
environment == <<stored, mayValidate>>
vars == <<handlers, queue, batch, worker, log, environment, service>>

Elements(s) == {s[i] : i \in DOMAIN s}

\* NODE_HAS_NO_WRITE_ACCESS and so on; REFUSED stands for the codes of all the
\* checks that depend on nothing modelled here, ACCEPTED for the silence of a
\* legacy handler that has queued the transaction.
Code == {"none", "OK", "PROOF_UNAVAILABLE", "UNEXPECTED_ERROR", "TIMEOUT",
         "ALREADY_PENDING", "ALREADY_EXISTS", "OVERLOADED", "NO_WRITE_ACCESS",
         "REFUSED", "ACCEPTED"}

TypeOK ==
  /\ stage \in [Request -> {"new", "authorized", "validated", "waiting", "answered"}]
  /\ answer \in [Request -> Code]
  /\ pending \in [Tx -> Request \union {NoRequest}]
  /\ pool \in Seq(Tx)
  /\ queued \in SUBSET Tx
  /\ batch \in Seq(Tx) /\ Len(batch) <= BatchSize
  /\ worker \in {"resting", "permitted", "appending", "appended"}
  /\ log \in Seq(Tx)
  /\ stored \in SUBSET Tx
  /\ mayValidate \in BOOLEAN
  /\ service \in {"running", "stopping", "stopped", "closed"}

Init ==
  /\ stage = [r \in Request |-> "new"]
  /\ answer = [r \in Request |-> "none"]
  /\ pending = [t \in Tx |-> NoRequest]
  /\ pool = <<>> /\ queued = {}
  /\ batch = <<>> /\ worker = "resting" /\ log = <<>>
  /\ stored = {}
  /\ mayValidate \in BOOLEAN
  /\ service = "running"

-----------------------------------------------------------------------------
(* Responses and pending commits *)

Waiting(t) == pending[t] # NoRequest

\* The response that ends the handling of a message
Respond(r, code) ==
  /\ stage' = [stage EXCEPT ![r] = "answered"]
  /\ answer' = [answer EXCEPT ![r] = code]

BuggyConclude(outcome) ==
  LET concluded == {pending[t] : t \in DOMAIN outcome} IN
  /\ answer' = [r \in Request |-> IF r \in concluded THEN outcome[TxOf[r]] ELSE answer[r]]
  /\ stage' = [r \in Request |-> IF r \in concluded THEN "answered" ELSE stage[r]]
  /\ UNCHANGED pending

\* resolvePendingCommit or rejectPendingCommit for each transaction of
\* outcome: whoever waits for it is answered, and a transaction nobody waits
\* for any more is passed over.
Conclude(outcome) ==
  LET concluded == {pending[t] : t \in DOMAIN outcome} IN
  /\ answer' = [r \in Request |-> IF r \in concluded THEN outcome[TxOf[r]] ELSE answer[r]]
  /\ stage' = [r \in Request |-> IF r \in concluded THEN "answered" ELSE stage[r]]
  /\ pending' = [t \in Tx |-> IF t \in DOMAIN outcome THEN NoRequest ELSE pending[t]]

BuggyTimeout(t) ==
  /\ Waiting(t)
  /\ pending' = [pending EXCEPT ![t] = NoRequest]
  /\ UNCHANGED <<stage, answer, queue, batch, worker, log, environment, service>>

\* The timer of registerPendingCommit
Timeout(t) ==
  /\ Waiting(t)
  /\ Conclude([u \in {t} |-> "TIMEOUT"])
  /\ UNCHANGED <<queue, batch, worker, log, environment, service>>

-----------------------------------------------------------------------------
(* Request handlers *)

\* Rate limit, request validation and write capability
Authorize(r) ==
  /\ stage[r] = "new"
  /\ \/ Respond(r, "REFUSED")
     \/ ~mayValidate /\ Respond(r, "NO_WRITE_ACCESS")
     \/ mayValidate /\ stage' = [stage EXCEPT ![r] = "authorized"] /\ UNCHANGED answer
  /\ UNCHANGED <<pending, queue, batch, worker, log, environment, service>>

BuggyHasRoom == TRUE

\* validateEnqueue
HasRoom == Len(pool) < PoolSize

\* The pool's availability and the prechecks of the partial transaction, among
\* them that the view does not hold it yet
Validate(r) ==
  /\ stage[r] = "authorized"
  /\ \/ ~HasRoom /\ Respond(r, "OVERLOADED")
     \/ HasRoom /\ TxOf[r] \in stored /\ Respond(r, "ALREADY_EXISTS")
     \/ HasRoom /\ Respond(r, "REFUSED")
     \/ /\ HasRoom /\ TxOf[r] \notin stored
        /\ stage' = [stage EXCEPT ![r] = "validated"]
        /\ UNCHANGED answer
  /\ UNCHANGED <<pending, queue, batch, worker, log, environment, service>>

Enqueue(t) ==
  /\ pool' = Append(pool, t)
  /\ queued' = queued \union {t}

BuggyCanEnqueue(t) == HasRoom

\* addTransaction also turns down what is queued already.
CanEnqueue(t) == HasRoom /\ t \notin queued

\* Why dispatchTransaction turns a transaction down: the registration is tried
\* first, then the queue; a commit that cannot be queued is rejected again.
DispatchRefusal(t) ==
  IF Cardinality({u \in Tx : Waiting(u)}) >= BufferSize THEN "OVERLOADED"
  ELSE IF Waiting(t) THEN "ALREADY_PENDING"
  ELSE IF ~HasRoom THEN "OVERLOADED"
  ELSE IF t \in queued THEN "ALREADY_PENDING"
  ELSE "none"

BuggyDispatch(r) ==
  /\ stage[r] = "validated" /\ r \notin Legacy
  /\ \/ /\ DispatchRefusal(TxOf[r]) # "none"
        /\ Respond(r, DispatchRefusal(TxOf[r]))
        /\ pending' = [pending EXCEPT ![TxOf[r]] = IF Waiting(TxOf[r]) THEN @ ELSE r]
        /\ UNCHANGED queue
     \/ /\ DispatchRefusal(TxOf[r]) = "none"
        /\ pending' = [pending EXCEPT ![TxOf[r]] = r]
        /\ Enqueue(TxOf[r])
        /\ stage' = [stage EXCEPT ![r] = "waiting"]
        /\ UNCHANGED answer
  /\ UNCHANGED <<batch, worker, log, environment, service>>

\* dispatchTransaction after the complete operation was built: nothing comes
\* between the registration and the queue.
Dispatch(r) ==
  /\ stage[r] = "validated" /\ r \notin Legacy
  /\ \/ /\ DispatchRefusal(TxOf[r]) # "none"
        /\ Respond(r, DispatchRefusal(TxOf[r]))
        /\ UNCHANGED <<pending, queue>>
     \/ /\ DispatchRefusal(TxOf[r]) = "none"
        /\ pending' = [pending EXCEPT ![TxOf[r]] = r]
        /\ Enqueue(TxOf[r])
        /\ stage' = [stage EXCEPT ![r] = "waiting"]
        /\ UNCHANGED answer
  /\ UNCHANGED <<batch, worker, log, environment, service>>

\* A legacy handler queues the transaction and does not wait for it.
DispatchLegacy(r) ==
  /\ stage[r] = "validated" /\ r \in Legacy
  /\ \/ ~CanEnqueue(TxOf[r]) /\ Respond(r, "REFUSED") /\ UNCHANGED queue
     \/ CanEnqueue(TxOf[r]) /\ Respond(r, "ACCEPTED") /\ Enqueue(TxOf[r])
  /\ UNCHANGED <<pending, batch, worker, log, environment, service>>

-----------------------------------------------------------------------------
(* The worker *)

BuggyWake ==
  /\ service = "running" /\ worker = "resting" /\ mayValidate
  /\ Len(pool) > BatchSize
  /\ worker' = "permitted"
  /\ UNCHANGED <<handlers, queue, batch, log, environment, service>>

\* The scheduler starts a run, and the run finds that it may validate.
Wake ==
  /\ service = "running" /\ worker = "resting" /\ mayValidate
  /\ worker' = "permitted"
  /\ UNCHANGED <<handlers, queue, batch, log, environment, service>>

\* #prepareBatch takes the head of the queue.
Taken(n) == SubSeq(pool, 1, n)

BuggyUnawaitedDrain ==
  LET n == IF Len(pool) < BatchSize THEN Len(pool) ELSE BatchSize IN
  /\ worker = "permitted"
  /\ worker' = IF n = 0 THEN "resting" ELSE "appended"
  /\ batch' = Taken(n)
  /\ pool' = SubSeq(pool, n + 1, Len(pool))
  /\ queued' = queued \ Elements(Taken(n))
  /\ UNCHANGED <<handlers, log, environment, service>>

Drain ==
  LET n == IF Len(pool) < BatchSize THEN Len(pool) ELSE BatchSize IN
  /\ worker = "permitted"
  /\ worker' = IF n = 0 THEN "resting" ELSE "appending"
  /\ batch' = Taken(n)
  /\ pool' = SubSeq(pool, n + 1, Len(pool))
  /\ queued' = queued \ Elements(Taken(n))
  /\ UNCHANGED <<handlers, log, environment, service>>

\* base.append inside appendWithProofOfPublication
AppendBatch ==
  /\ worker = "appending"
  /\ log' = log \o batch
  /\ worker' = "appended"
  /\ UNCHANGED <<handlers, queue, batch, environment, service>>

\* One receipt per transaction, with a proof or without
Settle ==
  /\ worker = "appended"
  /\ \E proven \in SUBSET Elements(batch) :
       Conclude([t \in Elements(batch) |->
                   IF t \in proven THEN "OK" ELSE "PROOF_UNAVAILABLE"])
  /\ batch' = <<>> /\ worker' = "resting"
  /\ UNCHANGED <<queue, log, environment, service>>

BuggyFail ==
  /\ worker \in {"appending", "appended"}
  /\ batch' = <<>> /\ worker' = "resting"
  /\ UNCHANGED <<handlers, queue, log, environment, service>>

\* appendWithProofOfPublication throws, before the append took place or after
\* it; the batch is not queued again.
Fail ==
  /\ worker \in {"appending", "appended"}
  /\ Conclude([t \in Elements(batch) |-> "UNEXPECTED_ERROR"])
  /\ batch' = <<>> /\ worker' = "resting"
  /\ UNCHANGED <<queue, log, environment, service>>

-----------------------------------------------------------------------------
(* Shutdown: Network._close *)

\* stopPool lets a run in progress finish before it clears the queue.
StopPool ==
  /\ service = "running"
  /\ service' = "stopping"
  /\ UNCHANGED <<handlers, queue, batch, worker, log, environment>>

ClearPool ==
  /\ service = "stopping" /\ worker = "resting"
  /\ pool' = <<>> /\ queued' = {}
  /\ service' = "stopped"
  /\ UNCHANGED <<handlers, batch, worker, log, environment>>

\* TransactionCommitService.close, seconds later
CloseCommits ==
  /\ service = "stopped"
  /\ Conclude([t \in Tx |-> "UNEXPECTED_ERROR"])
  /\ service' = "closed"
  /\ UNCHANGED <<queue, batch, worker, log, environment>>

-----------------------------------------------------------------------------
(* The view moves on: this validator's batches and those of others are     *)
(* applied, and with them its own role changes.                            *)

Store(t) ==
  /\ stored' = stored \union {t}
  /\ UNCHANGED <<handlers, queue, batch, worker, log, mayValidate, service>>

ChangeCapability ==
  /\ mayValidate' = ~mayValidate
  /\ UNCHANGED <<handlers, queue, batch, worker, log, stored, service>>

Handle(r) == Authorize(r) \/ Validate(r) \/ Dispatch(r) \/ DispatchLegacy(r)

Work == Wake \/ Drain \/ AppendBatch \/ Settle \/ Fail

Shutdown == StopPool \/ ClearPool \/ CloseCommits

Next ==
  \/ \E r \in Request : Handle(r)
  \/ Work
  \/ \E t \in Tx : Timeout(t) \/ Store(t)
  \/ Shutdown
  \/ ChangeCapability

\* Handlers get on with their awaits, timers fire, and the scheduler calls the
\* worker again; an append, a shutdown or a change of the view need not happen.
Fairness ==
  /\ \A r \in Request : WF_vars(Handle(r))
  /\ \A t \in Tx : WF_vars(Timeout(t))
  /\ WF_vars(Wake) /\ WF_vars(Drain)
  /\ WF_vars(Settle \/ Fail)

Spec == Init /\ [][Next]_vars /\ Fairness
=============================================================================
