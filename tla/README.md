# Main Settlement Bus: verification development

TLA+ models of the Main Settlement Bus (MSB), the TLC configurations that check
them on small instances, and proofs of the ledger's main invariants for every
instance. Paths below are relative to the repository's top directory; each
definition that models code is listed with its lines in `PROJECT.json`
(`map`), and each hazard with the properties that watch it (`hazards`).

Contents: 1 the system, 2 the models and the code, 3 the runs, 4 fairness,
5 the proofs, 6 what the models found, 7 assumptions and limits, 8 plan.

## 1. The system

MSB is a ledger that independent nodes replicate. A *requester* signs an
operation and broadcasts it to a *validator*; the validator checks it,
co-signs it, queues it, and appends it to its own Autobase core; Autobase
linearizes the cores of all writers and every node applies the same sequence
of batches to its view with one function, `#apply`. An *admin* (a single node)
whitelists, bans, promotes and removes others; its commands append to its own
core, from whitelist and balance files among others. A validator whose batch
contains operations that fail loses its role and stake.

| Component | State it keeps | Operations | Interacts with |
|---|---|---|---|
| Replicated state machine: `State.js` `#apply`, `utils/*Entry.js`, `balance.js` | node entries, admin and initialization entry, key registry, writers index, licences, deployments, applied hashes; Autobase's writers and indexers | 13 operation handlers, batch loop, penalty | Autobase (`addWriter`, `removeWriter`, batches in), everything that reads the view |
| Request prechecks: `protocols/shared/validators` | none; read the view, signed and unsigned | one validator per kind of operation | called by request handlers before an operation is queued |
| Validator pipeline: request handlers of both protocols, `TransactionCommitService`, `TransactionPoolService`, `Scheduler` | pending commits with timers, queue and its hash set, worker, own log | authorize, validate, dispatch, drain, append, receipts, timeouts, shutdown | prechecks, `State.appendWithProofOfPublication` |
| Broadcast: `MessageOrchestrator`, `PendingRequestService`, `connectionPolicies`, `V1Protocol`, `LegacyProtocol` | requests waiting for an answer, messages sent per validator | `send` with retries, rejection, timeouts, quota | connection pool, remote validators |
| Connection pool: `Network`, `ConnectionManager`, `ValidatorHealthCheckService`, `ProtocolSession` | pending connections, pool, probes, health check timers | attempt, open, probe, add, check, remove, close, shutdown | Hyperswarm events, observer, health check requests |
| Validator observer: `ValidatorObserverService` | caches of writers, current cycle of candidates | scan of the writers, removal of stale connections, cycle of attempts | base's system list, key registry, pool |
| Rate limiter: `TransactionRateLimiterService` | counters per peer | count, disconnect, clean up | connections |
| State reads: getters of `State.js` | none | reads, `waitForUnsigned` | all |
| Message directors and builders: `ApplyStateMessageBuilder`, `ApplyStateMessageDirector` | none | build, hash and sign the thirteen operations, partial and complete | wallet, `createMessage`, commands and request handlers |
| Codecs, schemas, normalizers: `applyOperations.cjs`, `check.js`, `normalizers.js`, `BroadcastTransactionPayloadUtils`, the response check | none | encode, decode, check, compare | between all of the above and `#apply` |
| Main object and command line: `index.js`, `cli/`, `fileUtils`, `migrationUtils` | migration files, own log; what each started command has read and built | the admin's commands, migrations, requests to validators, queries | signed and unsigned view, `State.append`, `Broadcast` |
| RPC, configuration, scripts | none | queries and broadcasts for other programs; constants | main object |

### What is hard in each, and what makes it correct

* **State machine.** Deterministic and sequential, but a long sequence of
  legal operations, in any order, moves five records that must keep together:
  the node entry (role, key, stake), the key registry, the admin entry, and
  Autobase's writers and indexers. A later operation of a batch reads what an
  earlier one wrote, and the penalty at the end of the batch reads all of it.
  Payer, validator, recipient and deployer may coincide in any combination, each
  with its own branch. Correct: role, stake, key and membership agree; keys are
  never shared; the admin is never locked out; bans hold; penalties land;
  money is only ever burnt as the fee table says.
* **Prechecks.** They look at one state, the handlers at a later one, and
  most reads go to a signed view that lags besides. Correct: an honest
  validator is not penalised for what it checked, or it is known exactly when.
* **Pipeline.** Any number of handlers are suspended in awaits between the
  check for room and the enqueue; timer, receipt, append error and shutdown race
  to answer one request; two protocols share the queue but only one registers
  commits. Correct: each message is answered once, truthfully, eventually; the
  queue keeps its bound and its hash set; it drains.
* **Broadcast.** Retries after timeouts whose answer may still come, validators
  that leave and rejoin the pool during a send, a recursion that after a legacy
  exception goes on twice. Correct: success is only reported of what some
  validator appended; attempts and quotas are bounded; every send returns.
* **Pool and observer.** The observer counts free places once and then attempts
  with delays; READY handlers await a probe and add afterwards; close events,
  health checks and removals come in between. Correct: the limit holds, a
  session is probed once at a time, who should be checked is, a connected peer
  is not left out while there is room, and shutdown leaves no timer behind.
* **Scan.** Keys are listed in byte order, removed ones included, and one
  address may have several. Correct: current writers, and only they, are offered.
* **The admin's machine.** A command reads a view that lags, writes a file, builds
  all of its messages and then appends them one by one with pauses, while other
  writers' batches come in between. A crash may come between any two of
  these, a file may be cut short, and the command line takes the next line
  before the command of the last one has ended. Correct: no row is sent twice, no
  balance of a node is overwritten, and a message fails for a cause only, since each
  failure counts against the admin's batch.
* **Messages.** The builder, the prechecks and each handler of `#apply` list the hashed
  fields of an operation for themselves. A partial message has no validator's
  fields, a decoded one has them null, and hashes, schemas and the comparison of
  an answer with its request must each treat the two alike. Correct: what
  one of them makes, the next accepts, up to the handlers and back to the sender.

## 2. The models and the code

| Module | Models | Built on |
|---|---|---|
| `Ledger` | `#apply` with all handlers, the penalty, the calls to Autobase | |
| `LedgerProperties` | invariants and action properties of `Ledger` | `Ledger` |
| `Supply` | abstract: what may happen to the money in circulation | |
| `LedgerSupply` | total of `Ledger` over finitely many addresses, refinement of `Supply` | `Ledger`, `Supply` |
| `LedgerProofs` | theorems about `Ledger`: roles, keys, stakes, membership, penalties | `LedgerProperties` |
| `LedgerEntryProofs` | theorems about `Ledger`: licences, indexes, ownership, bans | `LedgerProofs` |
| `WriterScan` | `#scanAutobaseWriters` and its properties | `Ledger` |
| `LedgerFoldProofs` | theorems about what is computed over the whole ledger: the refinement of `Supply`, the scan | `LedgerSupply`, `WriterScan`, `LedgerProofs` |
| `HonestValidator` | prechecks, waiting operations, the ledger they meet | `Ledger` |
| `Messages` | building, coding, checking, completing and comparing messages | |
| `Requester` | the commands that ask a validator, and the messages behind what it accepted | `HonestValidator`, `Messages` |
| `HonestValidatorProofs` | theorems about `HonestValidator` and `Requester` | `Requester`, `LedgerProofs` |
| `AdminNode` | the admin's commands, its migration files and its log | `Ledger`, `Messages` |
| `AdminNodeProofs` | theorems about `AdminNode` | `AdminNode`, `LedgerEntryProofs` |
| `ValidatorPipeline`, `ValidatorPipelineProperties` | a validator's request handling | |
| `ValidatorPipelineProofs` | theorems about `ValidatorPipeline` | `ValidatorPipelineProperties` |
| `ValidatorPool`, `ValidatorPoolProperties` | connections to validators | |
| `ValidatorPoolProofs` | theorems about `ValidatorPool` | `ValidatorPoolProperties` |
| `Broadcast`, `BroadcastProperties` | sending operations | |
| `BroadcastProofs` | theorems about `Broadcast` | `BroadcastProperties` |
| `MC...` | constants and initial states for TLC | the above |

An operator named `Buggy...` is the definition after it with a plausible bug. No
action uses it. `PROJECT.json` (`mutants`) names, for every property of every
passing run, one of them that makes TLC find the property violated when it takes
the place of the original.

### Ledger

One call of `#apply` takes a batch: `StartBatch(k)`, then one action per node
(one of the thirteen handlers or `MalformedOperation`), then `EndBatch`, which
flushes and applies the penalty. `OversizedBatch` is the early exit for more
than `BATCH_SIZE` nodes. Nothing interleaves within a batch.

| Variable | Code |
|---|---|
| `admin`, `initialization` | entries `admin`, `init` |
| `node` | node entries by address: role (with `ABSENT` for no entry), writing key, balance, licence, staked balance |
| `owner` | registry `wka/`: who first registered a key |
| `writersIndex` | `wri/` and `wrl`; `licenses` is `li/` and `lc` |
| `deployment`, `applied` | `deployment/` and the hashes of operations that succeeded |
| `writers`, `indexers` | the membership of Autobase |
| `batch` | the batch being applied: its writer, nodes so far, invalid ones |
| `halted` | `#apply` has thrown |

Each handler is a pair: `XStatus` is the outcome (`SUCCESS`, `FAILURE`, which
counts towards the penalty, or `IGNORE`, which does not) with the checks in the
order in which they decide between `FAILURE` and `IGNORE`; `X` is the action,
`Refused(XStatus)` or all the puts of the handler.

### HonestValidator

Adds to `Ledger` the operations a validator that runs its prechecks has
`accepted` but that have not been applied (its queue, its own log and the wait
for linearization together), and the `signed` view. `Accept` is the precheck,
with unsigned reads from the state and signed reads from `signed`; `Sign` brings
the signed view up to date; `Include` is a node of the validator's batch;
`OthersStep` is any step of anybody else. `Accept` keeps the operation's `txv`
(the hash of the indexers), which every handler compares first. Operations may
share a hash with one that others append: a copy that was sent elsewhere.

### Requester

`MayJoin`, `MayResign`, `MayRecover`, `MayDeploy`, `MayTransfer` are what the commands
of `index.js` check before they build a message, each with conditions of its own
over the signed view; a subnetwork's transaction comes with the validator's own
prechecks (`broadcastTransaction`). The module adds no step: what a command lets
through is compared with the prechecks in every state, and what a validator
has accepted is followed as a message of `Messages`.

### Messages

A message is a type, an address, a body (a function from field names to values)
and the set of fields that are present and null. `Built`, `Prechecked` and `Applied`
are the three listings of hashed fields, translated from the three places; a hash
is the tuple that is hashed, a signature the pair of signer and hash.
`RequesterMessage` is the builder; `Normalized`, `Decoded`, `Sanitized` are what the
normalizers, the protobuf codec and the payload utilities do to it; `SchemaValid` and
`PrecheckVerifies` are the validator's checks; `Completed` adds the validator's fields;
`Verifies` is what every handler of `#apply` checks before it looks at the ledger;
`AnswerMatches` is the sender's check of the proof of publication.

### AdminNode

| Variable | Code |
|---|---|
| `files` | the numbered files of the two migration directories |
| `command` | what a started command of `index.js` holds between two awaits: rows checked and a number chosen, or messages still to append |
| `log`, `played` | the machine's own core, and how much of it has been applied |
| `signed` | the view at the signed length |

A migration is `Check` (all checks, `getNextMigrationNumber`), `Record` (the file is
written, the messages built with the `txv` of this moment) and one `Send` per row; a
command with a single message is `Order` and `Send`. `AppendThrows` is an append after
the machine lost its membership. `Crash` ends all commands and may leave part of a file
that was being written. `Play` is the handler of the next message of the log, in a
batch of the machine's key; `OthersStep` is everybody else, and the admin from another
machine. `Line` is the set of command lines that may run at once: one, if the
operator waits for each command to end, more if not, as `interactive.js` permits.

### WriterScan

The scan goes through the keys in order and keeps a map of addresses: `FoundWithin[n]`
is the map after the first `n` keys, `Found` the one it returns. `Listed` are the keys
that were ever added to the base. `Dropped` are those whose connection `#enforceNoStaleConnections` ends. Both are read off a state of
`Ledger`, and their properties are checked in every state of its run.

### ValidatorPipeline

One event loop: an action is what runs between two awaits. `Authorize`,
`Validate`, `Dispatch` are the three stretches of a current-protocol handler,
`DispatchLegacy` the end of a legacy one, which waits for nothing. `Wake`,
`Drain`, `AppendBatch`, `Settle`, `Fail` are the worker from the scheduler's
call to the receipts; `Timeout` is a commit's timer; `StopPool`, `ClearPool`,
`CloseCommits` are the order of `Network._close`. `Store` and `ChangeCapability`
move the view that the prechecks read.

### ValidatorPool

`Observe` begins a cycle, `Skip` and `Attempt` work it off; `Open`, `Close`,
`Receive` are what the swarm does; `Probed` is the end of a READY handler's
await with everything after it; `Check` and `Tested` are the two halves of a
health check; `Timeout` is the timer of a pending connection; `Dismiss` removes a
validator at the orchestrator's or the ledger events' request; `StopObserver`
and `Shutdown` are the steps of `_close`.

### Broadcast

A call of `send` is a step: `Pick` or `GiveUp`, then `Transmit`, then `Answer`,
`Reject` (a timeout, a lost connection, a full registry) for the current
protocol, or `Appear`, `Miss`, `Throw` for a legacy validator. The calls of
`send` to itself replace the current call, except after a legacy exception,
where the outer one waits (`rescues`) and `Return` resumes it. The pool and its
connections appear as far as `send` depends on them.

## 3. The runs

| Run | Module | Question |
|---|---|---|
| `ledger_roles` | `MCLedgerRoles` | do roles, keys, stakes, licences, membership and the scan agree through every order of operations? |
| `ledger_money` | `MCLedgerMoney` | does every operation pay out what it takes in, less the documented burn? when can `#apply` throw? |
| `honest_validator` | `MCHonestValidator` | what may a validator count on that runs its prechecks, and what a requester that uses the commands? |
| `admin_node` | `MCAdminNode` | do the admin's migrations and commands do what they mean, once, through crashes and a lagging view? |
| `validator_pipeline` | `MCValidatorPipeline` | is every message answered once, truthfully and eventually, and does the queue drain? |
| `validator_queue` | `MCValidatorPipeline` | does the queue keep its limit and its hash set when several handlers passed its check together? |
| `validator_pool` | `ValidatorPoolProperties` | limit, probes, checks and shutdown of the pool |
| `broadcast` | `MCBroadcast` | truth, bounds and end of `send` |
| `ledger_indexer_role`, `validator_pool_dead`, `writer_scan_rejoin`, `admin_overlap` | | one disagreement each, section 6 |

### Bounds

* **`ledger_roles`**: three addresses (admin, a whitelisted node, a funded
  reader) and three keys, the admin's in the middle of the order, so that a node
  can move to a smaller and to a larger key; four successful operations and two
  nodes per batch (`MaxBatch`), so that a batch may mix a success and a failure,
  be all failures, or be oversized. It starts past the launch, in a state that
  four operations reach (given in the module), since whitelist, join, leave or
  ban, and rejoin is the longest chain the properties turn on. Balances are ample
  so that no order is cut off for want of money; the admin can pay only a few
  operations, so that `AdminCanPay` is met both ways. `HashesInOrder` uses the
  hashes in order, which loses nothing: a hash is only compared for equality.
  Requests for which the code itself uses a fixed hash (the launch) are not in
  question, as the run starts behind them.
* **`ledger_money`**: from the first batch on, with five operations, and amounts
  chosen so that sums pass `MaxBalance`: a grant of 90 next to a transfer of 80
  with a limit of 130. `Fee = 4` makes the shares 3, 2 and 1, all different, so a
  lost or doubled share shows. The limit stands for 2^128 - 1; all that matters
  of it is that some sums fit and some do not. Stops where `#apply` has thrown,
  hence no deadlock check.
* **`honest_validator`**: one operation waits while two others succeed, one of
  which may be its copy, a deployment of its subnetwork, a ban of its
  requester or of the validator, or a transfer that empties the requester's
  balance. It starts with and without a third node that already is a writer
  and with and without a deployment, to leave the two operations for what
  interferes. Nothing is looked at beyond the second success (`OneSuccess`). The two
  hashes are symmetric: no property orders them. `PrecheckedSucceeds` and
  `CommandsPassPrechecks` quantify over every operation in every state, so
  they do not depend on what is waiting.
* **`admin_node`**: the admin at the bootstrap key, a validator, and two addresses
  without an entry, which are symmetric. The incoming file holds one of the two or
  both, so that lists overlap and a command has a second row left when something
  comes in between. Two messages in the log (its positions are their hashes), one
  more operation by others, two files in each directory, batches of one, one command
  line. It starts at the launch, for the admin's creation, and at an established
  network, for the rest. Two messages are what `RowsRunOnce` is about; a row that was
  whitelisted, joined and is then to be initialized takes a message, an operation
  of others and a message. `InUse` leaves out what follows once the admin works
  from another machine and no command is left here: nothing is appended any more.
  **`admin_overlap`** is the same with two command lines.
* **`validator_pipeline`**: three messages, of which two carry one transaction
  and one of these is legacy: enough for a legacy copy to meet a registered commit
  and for a second request after a timeout. One place among the pending commits,
  two in the queue and batches of one make each limit bite.
  **`validator_queue`** has four messages for three transactions, one legacy, and two
  places of each: more handlers than places find the queue free.
* **`validator_pool`**: two peers for one place, with both attempts allowed at
  once (`MaxConnecting`): what a peer suffers, it suffers from one other peer or
  from its own earlier connections. It stops after the shutdown, so deadlock is
  not checked.
* **`broadcast`**: two operations, one from the validator that could be
  picked, a current and a legacy validator, one retry, a quota of two and one
  place in the registry of requests, so that rescues nest, the quota is
  reached by two concurrent sends, and the registry fills.

All counters of these systems are bounded by the constants above or by
the code itself; `Tx`, and in `ledger_money` the grants, are what ends the ledger's
runs.

### What the properties say

`ledger_roles`: `StakeMatchesRole`, `KeysBelongToNodes`, `MembershipMatchesRoles`,
`AdminStaysInOffice`, `IndexesMatchEntries` relate the records that separate puts of
different handlers write; `KeyOwnershipIsPermanent`, `OnlyAdminLiftsBan`,
`PenaltyAlwaysLands` restrict steps. `PenaltyAlwaysLands` is the one that ties all of it
together: the penalty has a row of early returns of which its comment says that in
theory they should not occur, and that is only true because the others hold.
`ScanIsFaithful` says what the scan does get right.

`ledger_money`: `ImplementsSupply` (every step of the ledger is a step of `Supply`
or changes no money) and `HaltsOnlyOnInflation`.

`honest_validator`: `PrecheckedSucceeds` compares the prechecks with the
handlers at one state; `PaymentsOutliveTheWait` says that transfers, deployments
and transactions stay harmless while they wait. The latter is not said of the
role operations because it is false of them: a join whose requester was banned,
joined through another validator, or spent its balance meanwhile is a `FAILURE`
that counts against the validator that checked it honestly; so does every
operation that waits across a change of the indexers. `Unchecked` names what the
prechecks do not look at even at one state: the key of a leave, and whether the
new key of an admin recovery is free and the old one still an indexer's.
`CopiesAreIgnored` is about a sender that asks several validators: whatever has
happened since, the copy that comes late is not held against whoever took it. It
is not said of an admin recovery, because it is false of it (section 6).
`CommandsPassPrechecks` says the same of commands and prechecks as
`PrecheckedSucceeds` of prechecks and handlers; `LeftToValidator` names what the
commands leave out. `AcceptedVerify` follows the message of each accepted operation
through every check to the answer, for both protocols, and says that the change
of the indexers is the one thing that can make it malformed.

`admin_node`: `RowsRunOnce` (through any number of crashes and repetitions),
`MigrationKeepsOffNodes` (no order of the two migrations overwrites the balance of a
node), `RowsFailForCause` and `OrdersSucceed` (a message of the admin only fails
for the reasons named), `LogVerifies` (the log's messages are what `#apply` takes
for well formed, and stop being so exactly when the indexers change).

`validator_pipeline`: `CommitsAreAwaited`, `AwaitedIsOnItsWay`, `ReceiptsAreHonest`,
`AnswersAreFinal` and, under fairness, `EveryRequestIsAnswered`, `PoolDrains`;
`validator_queue`: `PoolIsConsistent`.

`validator_pool`: `PoolWithinLimit`, `OneProbeAtATime`, `SupportedIsChecked`,
`ShutdownIsQuiet`, `TestsEndWithTheirLink` and, under fairness, `StrayChecksStop`,
`OpenPeersJoin`.

`broadcast`: `SuccessIsReal`, `QuotaIsKept`, `AttemptsAreBounded`,
`AnswersAreFinal` and, under fairness, `EverySendReturns`.

## 4. Fairness

The ledger is driven by what others append, and the admin's machine by its
operator: no fairness, only safety.

* **Pipeline**: weak fairness of each handler's next stretch (an await of local
  work ends), of each timer, of the scheduler's call of the worker and of what the
  worker does after an append returned or threw. None for the append itself,
  for shutdown, nor for changes of the view. `PoolDrains` states what it needs besides:
  that the node is allowed to validate from some point on and appends return.
* **Pool**: weak fairness of the observer's work on a cycle, of timers, and of
  the end of a probe and of a health check, which the request's own timeout
  enforces; strong fairness of `Pick(p)`, a new cycle that includes `p`: a cycle
  begins again and again and is a random shuffle of the candidates, so
  nobody is left out for ever. None for connections opening or closing, for
  messages, nor for the shutdown. `OpenPeersJoin` needs as many concurrent
  attempts as peers, as in its run: with fewer, which attempts are made is up to
  the shuffle in a way this fairness does not speak of.
* **Broadcast**: weak fairness of a send's own steps, timers included. None for
  validators: they need not answer, append, connect or close.

## 5. The proofs

Every invariant and every action property of every passing run is a theorem, for all
values of the constants that the named assumptions allow. What is left to TLC is
liveness (end of this section).

`LedgerProofs` proves for all sets of addresses, keys, hashes, subnetworks and
amounts, any fee, limit and batch size, from the named assumptions of `Ledger`
(the bootstrap key is a key, the sentinels are none, amounts fit the limit, ten
fees fit the limit, a batch has at least one node):

| Theorem | States |
|---|---|
| `Invariance` | the inductive invariant `Inv` |
| `TypeCorrectness` | balances stay within the limit, a batch within its counts |
| `StakesMatchRoles`, `KeyOwnership`, `Membership`, `AdminTenure` | `StakeMatchesRole`, `KeysBelongToNodes`, `MembershipMatchesRoles`, `AdminStaysInOffice` |
| `IndexersInConsensus` | `IndexersTakePart`: the role INDEXER, but for the admin's, comes with a place among the indexers of the base |
| `PenaltyLands` | `PenaltyAlwaysLands`, an action property |

*The argument.* None of the invariants is inductive by itself. A demotion
finds its node through the registry, so membership needs key ownership; the
promotion of an indexer is well typed only because an indexer to be is a writer
with a registered key, so typing needs membership; the admin's key must be a
writer's for a recovery to move it. `Inv` is their conjunction with four more facts:
`indexers \subseteq writers`; `IndexersTakePart`, the converse of what
`MembershipMatchesRoles` says of indexers, which only the admin may be an exception to
(finding 1 of section 6) and on which the scan rests; `BeforeLaunch`, since all of the above are said of a
network with an admin and the step to it must find nothing registered; and
`BatchOfWriter`, that no operation of a batch removes the key the batch comes
from. The last is why the penalty finds its target: it is what the handlers'
check that requester and validator differ achieves.

The proof first shows typing handler by handler (`...Type` lemmas), then
abstracts each handler to one of a few changes of standing, each of which
preserves `Inv`: nobody's standing changes (`SameStandingInv`), somebody joins
(`JoinInv`), leaves (`LeaveInv`), is promoted (`PromoteInv`), the admin recovers
(`RecoverInv`), the network is launched (`LaunchInv`). Each handler's own lemma
(`...Inv`) only has to show which of these it is. `PenaltyLands` combines `Inv` with
`StepFrom`, which says which steps can end a batch.

`LedgerEntryProofs` adds the records that lead to the entries, under the same
assumptions:

| Theorem | States |
|---|---|
| `Indexes` | `IndexesMatchEntries` |
| `KeyPermanence` | `KeyOwnershipIsPermanent`, an action property |
| `BansLast` | `OnlyAdminLiftsBan`, an action property |

*The argument.* `EntryInv` is `IndexesMatchEntries` and `Blank`: an address without an
entry has no licence and no key. Without `Blank` the first is not inductive: a balance
initialization and a transfer to an unknown address make its entry afresh, and
had it had a licence, the list of licences would lead to an entry that has lost it.
The two action properties are parts of one statement about a step, `Careful`, proved
with the invariant: most handlers are a `QuietStep` (no licence issued, no writer made,
no key changed), the others issue a licence (`LicenseIssued`), index a writer
(`WriterIndexed`), or move a key to one nobody had. The handlers that look nodes up
through the registry, and the penalty, need `Inv` besides. `AdmitsOnly`, shown along the
way, says that nobody is whitelisted or licensed but the address of a whitelisting.

`LedgerFoldProofs` proves what is computed over all entries or keys:

| Theorem | States | Assumes besides |
|---|---|---|
| `LedgerImplementsSupply` | `ImplementsSupply`, the refinement of `Supply` | `FinitenessAssumption`: finitely many addresses |
| `HaltsOnInflation` | `HaltsOnlyOnInflation` | the same |
| `ScanFindsValidators` | `ScanIsFaithful` | `KeyOrderAssumption`: the keys are in one finite order |

*The argument.* For money, the lemmas on sums say what the total of a function over a
finite set becomes when it changes at one or two of its elements (`ChangeTotal`,
`ChangeTwoTotal`). What each handler does to the total, its `...Flows` lemma, is then
arithmetic on at most three entries: an amount paid, a share that is not, a stake moved.
`MoneyInv` adds to `Inv` that the balance initialization opens with the admin, since
the phases of `Supply` are its values. `TotalAtLeast` gives `HaltsOnlyOnInflation`: what two
addresses hold is at most the total, so a payment that does not fit a balance shows that
the total does not either.

For the scan, the invariant over the keys passed so far is twofold: whoever is in the
map has an added key that still writes and is no indexer's but the admin's
(`FoundHaveKeys`), and whoever's only key was passed is in it (`SoleKeyIsFound`). The
first gives a current writer by `MembershipMatchesRoles`; that it is not an indexer
needs `IndexersTakePart`.

Both need an induction, over subsets and over the keys. The library's induction theorems
take an operator as a parameter, which the provers used here cannot instantiate;
`InductionOnSubsets` and `InductionOnKeys` take a set in its place and follow from the
minimal element of a well-founded order (`WFMin`). The recursive definitions are shown to
satisfy their equations by constructing, with the same induction, a function that does.

`HonestValidatorProofs` proves on top of it, for any number of waiting operations:

| Theorem | States |
|---|---|
| `HonestInvariance` | the inductive invariant `HInv` |
| `HonestLedger` | `HonestSpec` implies `Spec` of `Ledger`, so every theorem above holds of it |
| `NothingIsDeleted` | no entry and no deployment is ever deleted or handed on (`Grows`) |
| `PrechecksSuffice` | `PrecheckedSucceeds` |
| `CommandsSuffice` | `CommandsPassPrechecks` |
| `PaymentsAreSafe` | `PaymentsOutliveTheWait` |
| `CopiesAreSafe` | `CopiesAreIgnored` |
| `AcceptedMessagesVerify` | `AcceptedVerify` |

*The argument.* A payment can only fail on what can be taken away, and the handlers
answer a missing balance or a used hash with `IGNORE`. What is left is the
existence of entries and deployments, and they are never deleted: `Grows`, shown
for every handler, is the reason that `AcceptedStands`, what the prechecks have
established of each waiting operation, survives every step of anybody.
`SignedBehind` relates the lagging view, `DeployersExist` the deployer who gets a
share. The same holds a copy harmless: each handler looks for the hash among the
applied ones before anything that a later step could have changed, provided that
the entries it reads first are still there.

`AcceptedMessagesVerify` follows a message of any type, with any fields. Its hash is a
tuple of some of its fields in an order that three places list for themselves; `SameHash` says
that two bodies which agree on what is hashed have one hash, and `RequestFields` that no
listing leaves out, adds or reads a field that coding or completion changes.
`NonceAssumption`, that an operation's nonce is not the one its validator adds, keeps
the two signatures apart.

`AdminNodeProofs` proves, for any lists, number of files, crashes and messages:

| Theorem | States | Command lines |
|---|---|---|
| `MachineKeepsLedger` | `AdminNodeSpec` implies `Spec` of `Ledger` | any number |
| `OrdersGoThrough` | `OrdersSucceed` | any number |
| `LogAlwaysVerifies` | `LogVerifies` | any number |
| `MigrationsRunOnce` | `RowsRunOnce` | one |
| `MigrationsSpareNodes` | `MigrationKeepsOffNodes`, an action property | one |
| `RowsFailOnlyForCause` | `RowsFailForCause`, an action property | one |

*The argument.* There are three layers. `NodeInv` holds of any number of command lines: the
ledger's `Inv` and `EntryInv`, the types of log and commands, and `FilesInv`, that the files are
numbered without gaps and the number a command holds is at most one more. So
writing a file never leaves a gap, even when two commands chose one number.

`RowsInv` needs one command line, and `admin_overlap` shows that it does. What was sent
is recorded in a file, and a command that waits has either rows in no file and a number
no file has, or rows in a file that were not sent (`Stands`). The number matters because
writing a file under a number in use would forget what was sent. A crash that cuts a
file short is harmless since nothing of it has been sent yet.

`MigrationInv` is why a row that passed its check still fits when its message is applied.
Between the two lie awaits, the log, and steps of everybody, and each part excludes one way
to lose it. `SignedInv`: the lagging view may be behind in everything, but the admin it shows is the
admin. `HashesInv`: nobody else uses the hash of a message that is not applied yet.
`CommandsInv` and `MessagesInv`: nobody but this machine can whitelist, as long as the
admin works from it (`AdmitsOnly`, and a key once given up is never the admin's again); and
of this machine's own messages, a whitelisting comes after every initialization that is still to
be applied, never before. The last takes both the one command line and the order of the log: a
whitelisting that is ahead of an initialization would let its address join in time for the
initialization to overwrite a node's balance.

`ValidatorPipelineProofs` proves, for any messages and transactions, any assignment of the
former to the latter, and any limits of queue, registry and batch:

| Theorem | States |
|---|---|
| `TypeCorrect` | the pipeline is well typed |
| `CommitsAwaited` | `CommitsAreAwaited` |
| `AwaitedOnItsWay` | `AwaitedIsOnItsWay` |
| `PoolConsistent` | `PoolIsConsistent` |
| `ReceiptsHonest` | `ReceiptsAreHonest` |
| `AnswersFinal` | `AnswersAreFinal`, an action property |

*The argument.* `PipelineInv` has a part for each owner of state. `HandlersInv`: commits are
registered under the transaction of their own message, and only what was answered has an
answer. `QueueInv`: the queue has no transaction twice, which is why the hash set, from which
each that leaves is deleted once, stays the set of its elements. `WorkerInv`: a batch exists only
during an append, and after it is in the log, so that a receipt tells the truth. Each step then
disturbs one or two parts; `ConcludeStep` serves receipts, failures, timers and shutdown
alike. `AwaitedIsOnItsWay` needs that `Drain` loses nothing between queue and batch.

`ValidatorPoolProofs` proves, for any finite set of peers and any limits:

| Theorem | States |
|---|---|
| `TypeCorrect` | the pool is well typed |
| `WithinLimit` | `PoolWithinLimit` |
| `ProbedOnce` | `OneProbeAtATime` |
| `SupportedChecked` | `SupportedIsChecked` |
| `QuietAfterShutdown` | `ShutdownIsQuiet` |
| `TestsEnd` | `TestsEndWithTheirLink` |

*The argument.* `PoolInv` is these with what ties them to the connection: a closed one
has neither a settled protocol nor a probe, a live entry of the pool has both an open
connection and a protocol, and after the observer stopped there are no candidates. Without
the second, a health check could begin over a closed connection; without the third, an
attempt could follow the shutdown. The limit is a cardinality: an
addition counts the members in the same step in which it adds one.

`BroadcastProofs` proves, for any finite sets of operations and validators of either
protocol, any number of retries and any quota:

| Theorem | States |
|---|---|
| `TypeCorrect` | sends are well typed |
| `SuccessReal` | `SuccessIsReal` |
| `QuotaKept` | `QuotaIsKept` |
| `AttemptsBounded` | `AttemptsAreBounded` |
| `AnswersFinal` | `AnswersAreFinal`, an action property |

*The argument.* `BudgetInv` makes the bound on attempts inductive: the attempts made, those a
call may still lead to, and those owed to the calls that wait for it, add up to at most the
bound. What a call is worth depends on its retries: one level for each without a legacy validator,
one and twice the level below with one (`AttemptsWithin`), as a rescue calls `send`
twice. `Owes` sums over the stack of waiting calls, whose depth nothing else bounds.

*Model-checked only*: the five liveness properties `EveryRequestIsAnswered`, `PoolDrains`,
`StrayChecksStop`, `OpenPeersJoin` and `EverySendReturns`, which rest on fairness and hence on
`ENABLED`, out of the reach of the prover used here; and that the models are what they
are for, which the runs with an expected violation and the mutants show.

## 6. What the models found

Each has a run of its own that ends in a counterexample, and an entry in
`PROJECT.json` (`findings`) with the lines it contradicts.

1. **An admin that removes itself from the indexers keeps the role**
   (`State.js:2378`, `IndexerRoleMatchesBase`). `#removeIndexer` writes the
   downgraded entry and then, at the same address, the charged copy it read
   before. The base stops counting the key, the entry still says INDEXER, and a later
   `removeIndexer`, ban or admin recovery of that node fails.
   The command does not lead there, since the message builder refuses the wallet's own
   address; a message made otherwise does.
2. **A connection that closes during its probe is added to the pool**
   (`Network.js:134`, `ConnectedAreConnected`): its close handlers ran before, and
   nothing but a failing message or health check takes it out.
3. **A validator that moved to a smaller key is not found by the scan**
   (`ValidatorObserverService.js:431`, `CandidatesAreFound`): its removed key comes
   later in the list and deletes the address again.
4. **Two migrations that overlap send every row twice** (`interactive.js:72`,
   `RowsRunOnce` with two command lines): both pass the check that
   `fileUtils.js:160` and `179` make of the earlier files before either writes its own,
   and both choose the same file number.

Smaller things met on the way, without a run. `docs/fee_distribution.md:77` calls a
balance initialization a top-up, while `State.js:624` replaces the balance; that is why
`MigrationKeepsOffNodes` and `RowsRunOnce` matter. A transfer to the
validator that overflows throws out of `#apply` at `State.js:3368`, where the code means
to answer with a failure; it takes more money than a balance holds
(`HaltsOnlyOnInflation`), so it is a matter of robustness. `env.js:41` calls
its setting the overall timeout for sending a message, while it bounds one attempt of
the legacy protocol and there may be up to `2^(maxRetries+1) - 1`
(`AttemptsAreBounded`). `docs/fee_distribution.md:34` says that a leave unregisters the
writer key, while the registry entry stays (what leaves is the membership in the base),
and `KeyOwnershipIsPermanent` depends on its staying. A replayed admin recovery is a
`FAILURE` although replays of the other co-signed operations are ignored. A
migration that crashes after its file was written leaves rows that were not sent, and
its repetition is refused for them: `RowsRunOnce` is bought with the need to edit
files by hand.

## 7. Assumptions and limits

**Ledger.** Operations that fail schema, hash or signature checks, or carry a
`txv` that is not the hash of the current indexers, are one `MalformedOperation`.
Of Autobase it is assumed, from how `State.js` opens and uses it (`optimistic: false`),
that only batches of current writers are applied; that adding or removing a
key that is already in or out changes nothing; that a promotion to indexer takes
effect with the operation. What Autobase does once no indexer is left is not
modelled. Reorderings of the unindexed part of the log are not steps: a reordered
view is another behaviour of the same specification from the common prefix.
Balances are numbers up to `MaxBalance`; their byte representation is not modelled.

**HonestValidator.** The signed view is one past state that `Sign` replaces
whole, between batches. A `txv`, in the code a hash of the indexers' keys in
Autobase's order, is the set of these keys: should the same set come in another
order after two changes, that counts as a change too. A hash determines its operation, so accepted operations
differ in it, while others may apply anything under any hash. The validator is not
the admin (`isAdminAllowedToValidate` is left out). A role operation's schema is
abstracted with the others.

**Messages.** A hash is what it is the hash of, and a signature verifies exactly if it is
that of the address over the hash; the forms of values (hex, bytes, bech32m, lengths)
are left out, so that what is modelled is which fields each step reads, writes,
requires and orders. The builder of the network messages that carry an operation is
not modelled.

**AdminNode.** An own block is applied by the own view before `append` returns, and what
the log holds after a restart is applied before commands run. The rows of a file are
a set: a file that repeats an address is refused. The whitelist command builds its messages
with a `txv` read once for all of them, like the balance migration. The
checks of wallet, formats and schemas always pass. What the final reports of a migration
print is left out.

**Scan.** `base.system.list()` is a snapshot in key order that keeps removed keys;
the awaits of the scan between its keys can be merged since registry entries are
permanent. The admin policy and the ages of the observer's caches are left out; in
`ValidatorPool` they appear as any choice of candidates.

**Pipeline.** Signing and hashing are data. `REFUSED` stands for the answers that
depend on nothing modelled. `TX_COMMITTED_RECEIPT_MISSING` cannot be produced by
the code as it is and is left out. Each message is received once: duplicates
are two messages with one transaction.

**Pool.** Awaits that only continue promises are part of the event that resolved
them; a liveness request is built without yielding. Hyperswarm keeps one
connection per peer. After `close`, `start` of the health check service still
starts timers (its `opened` flag stays true), which probes that the shutdown
cancels may use; the swarm closes these connections and their close handlers stop
the timers, which `ShutdownIsQuiet` takes into account. The number of messages sent
per validator belongs to `Broadcast`.

**Broadcast.** The protocol of a validator is constant. The shutdown, which cancels all
requests, and the validation of answers are not modelled. That an `OK` means an
appended operation is an assumption here and is `ReceiptsAreHonest` of the
pipeline there.

**Not modelled**: the rate limiter (a counter per peer, compared and incremented
without an await in between, which only keeps messages away); the reads of `State`
beyond what prechecks, commands and the scan see; the builder and codec of network
messages; the bytes of the generated codecs; queries, the RPC server and the automatic
request for a role in the main object; configuration, Docker and scripts.

## 8. Plan

The order was chosen by what rests on what: the ledger first, since all other
components depend on its view; then the pipeline that feeds it; then the network
around it; then compositions and what surrounds the core.

1. Done: `Ledger`, its properties, `Supply` and the refinement, `WriterScan`; all their
   safety properties proved (`LedgerProofs`, `LedgerEntryProofs`, `LedgerFoldProofs`).
2. Done: `HonestValidator` over `Ledger`, `Requester` and `Messages` around it, `AdminNode`,
   with proofs of their safety properties.
3. Done: `ValidatorPipeline`, `ValidatorPool`, `Broadcast`, with proofs of their safety
   properties and liveness checked.
4. Next: who admits (`AdmitsOnly`) as a theorem of its own; what a validator, its
   requester and the admin's machine may rely on when all run at once.
5. Then: sender, pipeline and ledger composed, to say what a sender knows of an
   operation whose answer was lost; the observer's caches and admin policy; the
   shutdown of `Broadcast`; balance arithmetic on bytes against numbers.
