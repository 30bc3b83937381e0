---------------------- MODULE ValidatorPipelineProperties ----------------------
(***************************************************************************)
(* What a validator promises those who broadcast transactions to it.       *)
(***************************************************************************)
EXTENDS ValidatorPipeline

\* A pending commit belongs to a handler that is still waiting for it, and
\* every waiting handler has one: a commit registered by dispatchTransaction
\* is taken back when the queue refuses the transaction, and neither a late
\* timer nor a late receipt reaches a handler that was answered.
CommitsAreAwaited ==
  \A r \in Request : stage[r] = "waiting" <=> pending[TxOf[r]] = r

\* The queue holds no transaction twice and never more than txPoolSize, though
\* handlers check for room long before they add; and #queuedTxHashes says
\* exactly what is in it, though the worker takes from it in between.
PoolIsConsistent ==
  /\ Len(pool) <= PoolSize
  /\ queued = Elements(pool)
  /\ Cardinality(Elements(pool)) = Len(pool)

\* While the service runs, a handler only waits for a transaction that is in
\* the queue or in the worker's hands: none is dropped without an answer.
AwaitedIsOnItsWay ==
  service \in {"running", "stopping"} =>
    \A t \in Tx : Waiting(t) => t \in Elements(pool) \union Elements(batch)

\* A receipt, with a proof or without, is only given for a transaction that
\* is in the node's own log: even if it was an earlier copy, appended for
\* somebody else, that the receipt is about.
ReceiptsAreHonest ==
  \A r \in Request : answer[r] \in {"OK", "PROOF_UNAVAILABLE"} => TxOf[r] \in Elements(log)

\* A message is answered once: the timer, the receipt, an append error and a
\* shutdown race for the same commit, and the first of them wins.
AnswersAreFinal ==
  [][\A r \in Request : answer[r] # "none" => answer'[r] = answer[r]]_vars

\* Every message the node starts to handle is answered, even if the worker
\* never gets to run or an append never returns.
EveryRequestIsAnswered ==
  \A r \in Request : stage[r] = "authorized" ~> stage[r] = "answered"

\* As long as the node may validate and its appends return, the queue does not
\* keep a transaction for ever, however short the queue is.
PoolDrains ==
  (<>[]mayValidate /\ [](service = "running") /\ []<>(worker # "appending"))
    => \A t \in Tx : t \in queued ~> t \notin queued
=============================================================================
