------------------------ MODULE ValidatorPipelineProofs ------------------------
(***************************************************************************)
(* Theorems about ValidatorPipeline, for any number of messages and        *)
(* transactions, any assignment of the one to the other, and any sizes of  *)
(* the queue, the commit registry and the batches.                         *)
(***************************************************************************)
EXTENDS ValidatorPipelineProperties, FiniteSetTheorems, SequenceTheorems, TLAPS

-----------------------------------------------------------------------------
(* The invariant *)

\* A commit is registered under the transaction of the message it is for.
PendingIsOwn == \A t \in Tx : Waiting(t) => TxOf[pending[t]] = t

\* A message has an answer exactly when it has been answered.
AnsweredHaveAnswer == \A r \in Request : stage[r] = "answered" <=> answer[r] # "none"

HandlersInv ==
  /\ stage \in [Request -> {"new", "authorized", "validated", "waiting", "answered"}]
  /\ answer \in [Request -> Code]
  /\ pending \in [Tx -> Request \union {NoRequest}]
  /\ PendingIsOwn
  /\ CommitsAreAwaited
  /\ AnsweredHaveAnswer

\* No two places of the queue hold one transaction.
NoRepeat(s) == \A i, j \in DOMAIN s : s[i] = s[j] => i = j

QueueInv ==
  /\ pool \in Seq(Tx)
  /\ Len(pool) <= PoolSize
  /\ queued = Elements(pool)
  /\ NoRepeat(pool)

\* The worker holds a batch only during an append, and what it gives receipts
\* for is in the log.
WorkerInv ==
  /\ worker \in {"resting", "permitted", "appending", "appended"}
  /\ batch \in Seq(Tx) /\ Len(batch) <= BatchSize
  /\ log \in Seq(Tx)
  /\ worker \in {"resting", "permitted"} => batch = <<>>
  /\ worker = "appended" => Elements(batch) \subseteq Elements(log)

EnvironmentInv ==
  /\ stored \in SUBSET Tx
  /\ mayValidate \in BOOLEAN
  /\ service \in {"running", "stopping", "stopped", "closed"}

PipelineInv ==
  /\ HandlersInv /\ QueueInv /\ WorkerInv /\ EnvironmentInv
  /\ AwaitedIsOnItsWay
  /\ ReceiptsAreHonest

\* What a step may do to the answers
AnswersStand == \A r \in Request : answer[r] # "none" => answer'[r] = answer[r]

-----------------------------------------------------------------------------
(* Sequences *)

\* An empty queue has no elements.
LEMMA ElementsOfEmpty == Elements(<<>>) = {}
  BY DEF Elements

\* The elements of a sequence over a set are members of it.
LEMMA ElementsType ==
  ASSUME NEW S, NEW s \in Seq(S)
  PROVE  Elements(s) \subseteq S
  BY DEF Elements

\* A new element at the end of a queue
LEMMA ElementsOfAppend ==
  ASSUME NEW S, NEW s \in Seq(S), NEW x \in S
  PROVE  /\ Elements(Append(s, x)) = Elements(s) \union {x}
         /\ x \notin Elements(s) /\ NoRepeat(s) => NoRepeat(Append(s, x))
<1>1. /\ DOMAIN s = 1 .. Len(s) /\ Len(s) \in Nat
      /\ DOMAIN Append(s, x) = 1 .. Len(s) + 1
      /\ \A i \in 1 .. Len(s) : Append(s, x)[i] = s[i]
      /\ Append(s, x)[Len(s) + 1] = x
  OBVIOUS
<1>2. Elements(Append(s, x)) \subseteq Elements(s) \union {x}
  BY <1>1 DEF Elements
<1>3. Elements(s) \union {x} \subseteq Elements(Append(s, x))
  BY <1>1 DEF Elements
<1>4. ASSUME x \notin Elements(s), NoRepeat(s) PROVE NoRepeat(Append(s, x))
  BY <1>1, <1>4 DEF Elements, NoRepeat
<1>. QED
  BY <1>2, <1>3, <1>4

\* Two sequences one after the other have the elements of both.
LEMMA ElementsOfConcat ==
  ASSUME NEW S, NEW s \in Seq(S), NEW t \in Seq(S)
  PROVE  Elements(s \o t) = Elements(s) \union Elements(t)
<1>1. /\ DOMAIN s = 1 .. Len(s) /\ Len(s) \in Nat
      /\ DOMAIN t = 1 .. Len(t) /\ Len(t) \in Nat
      /\ DOMAIN (s \o t) = 1 .. Len(s) + Len(t)
      /\ \A i \in 1 .. Len(s) : (s \o t)[i] = s[i]
      /\ \A i \in 1 .. Len(t) : (s \o t)[Len(s) + i] = t[i]
  OBVIOUS
<1>2. Elements(s \o t) \subseteq Elements(s) \union Elements(t)
  <2>. SUFFICES ASSUME NEW i \in 1 .. Len(s) + Len(t)
                PROVE  (s \o t)[i] \in Elements(s) \union Elements(t)
    BY <1>1 DEF Elements
  <2>1. CASE i <= Len(s)
    BY <1>1, <2>1 DEF Elements
  <2>2. CASE i > Len(s)
    <3>1. i - Len(s) \in 1 .. Len(t) /\ i = Len(s) + (i - Len(s))
      BY <1>1, <2>2
    <3>. QED
      BY <1>1, <3>1 DEF Elements
  <2>. QED
    BY <1>1, <2>1, <2>2
<1>3. Elements(s) \union Elements(t) \subseteq Elements(s \o t)
  <2>1. ASSUME NEW i \in 1 .. Len(s) PROVE s[i] \in Elements(s \o t)
    <3>1. i \in DOMAIN (s \o t) /\ (s \o t)[i] = s[i]
      BY <1>1
    <3>. QED
      BY <3>1 DEF Elements
  <2>2. ASSUME NEW i \in 1 .. Len(t) PROVE t[i] \in Elements(s \o t)
    <3>1. Len(s) + i \in DOMAIN (s \o t) /\ (s \o t)[Len(s) + i] = t[i]
      BY <1>1
    <3>. QED
      BY <3>1 DEF Elements
  <2>. QED
    BY <1>1, <2>1, <2>2 DEF Elements
<1>. QED
  BY <1>2, <1>3

\* Cut in two, a queue without repetitions has its elements in either part but
\* none in both.
LEMMA ElementsOfCut ==
  ASSUME NEW S, NEW s \in Seq(S), NoRepeat(s), NEW n \in 0 .. Len(s)
  PROVE  LET head == SubSeq(s, 1, n)
             tail == SubSeq(s, n + 1, Len(s)) IN
         /\ head \in Seq(S) /\ Len(head) = n
         /\ tail \in Seq(S) /\ Len(tail) = Len(s) - n
         /\ NoRepeat(tail)
         /\ Elements(s) = Elements(head) \union Elements(tail)
         /\ Elements(head) \intersect Elements(tail) = {}
<1>. DEFINE head == SubSeq(s, 1, n)
            tail == SubSeq(s, n + 1, Len(s))
<1>1. /\ Len(s) \in Nat /\ DOMAIN s = 1 .. Len(s)
      /\ head \in Seq(S) /\ Len(head) = n /\ DOMAIN head = 1 .. n
      /\ \A i \in 1 .. n : head[i] = s[i]
  OBVIOUS
<1>2. /\ tail \in Seq(S) /\ Len(tail) = Len(s) - n /\ DOMAIN tail = 1 .. Len(s) - n
      /\ \A i \in 1 .. Len(s) - n : tail[i] = s[n + i]
  OBVIOUS
<1>. HIDE DEF head, tail
<1>3. NoRepeat(tail)
  <2>. SUFFICES ASSUME NEW i \in 1 .. Len(s) - n, NEW j \in 1 .. Len(s) - n,
                       tail[i] = tail[j]
                PROVE  i = j
    BY <1>2 DEF NoRepeat
  <2>1. n + i \in DOMAIN s /\ n + j \in DOMAIN s /\ s[n + i] = s[n + j]
    BY <1>1, <1>2
  <2>2. n + i = n + j
    BY <2>1 DEF NoRepeat
  <2>. QED
    BY <1>1, <2>2
<1>4. Elements(head) = {s[i] : i \in 1 .. n}
  BY <1>1 DEF Elements
<1>5. Elements(tail) = {s[i] : i \in n + 1 .. Len(s)}
  <2>1. ASSUME NEW i \in n + 1 .. Len(s) PROVE s[i] \in Elements(tail)
    <3>1. i - n \in DOMAIN tail /\ tail[i - n] = s[n + (i - n)] /\ n + (i - n) = i
      BY <1>1, <1>2
    <3>. QED
      BY <3>1 DEF Elements
  <2>2. ASSUME NEW i \in 1 .. Len(s) - n
        PROVE  \E j \in n + 1 .. Len(s) : tail[i] = s[j]
    <3>1. n + i \in n + 1 .. Len(s) /\ tail[i] = s[n + i]
      BY <1>1, <1>2
    <3>. QED
      BY <3>1
  <2>3. Elements(tail) \subseteq {s[i] : i \in n + 1 .. Len(s)}
    BY <1>2, <2>2 DEF Elements
  <2>. QED
    BY <2>1, <2>3
<1>6. Elements(s) = Elements(head) \union Elements(tail)
  <2>1. 1 .. Len(s) = (1 .. n) \union (n + 1 .. Len(s))
    BY <1>1
  <2>. QED
    BY <1>1, <1>4, <1>5, <2>1 DEF Elements
<1>7. Elements(head) \intersect Elements(tail) = {}
  BY <1>1, <1>4, <1>5 DEF NoRepeat
<1>. QED
  BY <1>1, <1>2, <1>3, <1>6, <1>7 DEF head, tail

\* A sequence without repetitions has as many elements as places.
LEMMA NoRepeatCounts ==
  ASSUME NEW S, NEW s \in Seq(S), NoRepeat(s)
  PROVE  Cardinality(Elements(s)) = Len(s)
<1>1. Len(s) \in Nat /\ DOMAIN s = 1 .. Len(s) /\ s \in [1 .. Len(s) -> Elements(s)]
  BY DEF Elements
<1>2. s \in Surjection(1 .. Len(s), Elements(s))
  BY <1>1 DEF Surjection, Elements
<1>3. s \in Injection(1 .. Len(s), Elements(s))
  BY <1>1 DEF Injection, IsInjective, NoRepeat
<1>4. IsFiniteSet(1 .. Len(s)) /\ Cardinality(1 .. Len(s)) = Len(s)
  BY <1>1, FS_Interval
<1>5. ExistsBijection(1 .. Len(s), Elements(s))
  BY <1>2, <1>3 DEF ExistsBijection, Bijection
<1>. QED
  BY <1>4, <1>5, FS_Bijection

-----------------------------------------------------------------------------
(* The handlers *)

\* What is answered is not answered again: what a response, an advance, a
\* registration and a conclusion each leave of the handlers' invariant.
LEMMA RespondStep ==
  ASSUME HandlersInv, NEW r \in Request, stage[r] \notin {"waiting", "answered"},
         NEW code \in Code \ {"none"}, Respond(r, code), UNCHANGED pending
  PROVE  /\ HandlersInv' /\ AnswersStand
         /\ \A q \in Request : answer'[q] \in {answer[q], code}
  BY DEF HandlersInv, Respond, PendingIsOwn, Waiting, CommitsAreAwaited,
         AnsweredHaveAnswer, AnswersStand, Code

\* A handler passes an await without touching commits or answers.
LEMMA AdvanceStep ==
  ASSUME HandlersInv, NEW r \in Request, stage[r] \notin {"waiting", "answered"},
         NEW s \in {"authorized", "validated"},
         stage' = [stage EXCEPT ![r] = s], UNCHANGED <<answer, pending>>
  PROVE  HandlersInv' /\ AnswersStand
  BY DEF HandlersInv, PendingIsOwn, Waiting, CommitsAreAwaited,
         AnsweredHaveAnswer, AnswersStand

\* A handler registers a commit under a transaction that had none.
LEMMA RegisterStep ==
  ASSUME HandlersInv, NEW r \in Request, stage[r] \notin {"waiting", "answered"},
         ~Waiting(TxOf[r]), pending' = [pending EXCEPT ![TxOf[r]] = r],
         stage' = [stage EXCEPT ![r] = "waiting"], UNCHANGED answer
  PROVE  HandlersInv' /\ AnswersStand
<1>. USE RequestAssumption DEF HandlersInv, Waiting
<1>1. /\ stage' \in [Request -> {"new", "authorized", "validated", "waiting", "answered"}]
      /\ answer' \in [Request -> Code]
      /\ pending' \in [Tx -> Request \union {NoRequest}]
  OBVIOUS
<1>2. PendingIsOwn'
  BY DEF PendingIsOwn
<1>3. CommitsAreAwaited'
  <2>. SUFFICES ASSUME NEW q \in Request
                PROVE  stage'[q] = "waiting" <=> pending'[TxOf[q]] = q
    BY DEF CommitsAreAwaited
  <2>1. CASE TxOf[q] = TxOf[r]
    <3>1. stage[q] # "waiting"
      BY <2>1 DEF CommitsAreAwaited
    <3>2. pending'[TxOf[q]] = r
      BY <2>1
    <3>. QED
      BY <3>1, <3>2
  <2>2. CASE TxOf[q] # TxOf[r]
    BY <2>2 DEF CommitsAreAwaited
  <2>. QED
    BY <2>1, <2>2
<1>4. AnsweredHaveAnswer' /\ AnswersStand
  BY DEF AnsweredHaveAnswer, AnswersStand
<1>. QED
  BY <1>1, <1>2, <1>3, <1>4

\* Settled commits answer exactly the handlers that wait for them.
LEMMA ConcludeStep ==
  ASSUME HandlersInv, NEW outcome, DOMAIN outcome \subseteq Tx,
         \A t \in DOMAIN outcome : outcome[t] \in Code \ {"none"},
         Conclude(outcome)
  PROVE  /\ HandlersInv' /\ AnswersStand
         /\ \A t \in Tx : Waiting(t)' => Waiting(t) /\ t \notin DOMAIN outcome
         /\ \A r \in Request :
              \/ answer'[r] = answer[r]
              \/ TxOf[r] \in DOMAIN outcome /\ answer'[r] = outcome[TxOf[r]]
<1>. DEFINE Concluded(r) == TxOf[r] \in DOMAIN outcome /\ pending[TxOf[r]] = r
<1>. USE RequestAssumption
<1>1. \A r \in Request : r \in {pending[t] : t \in DOMAIN outcome} <=> Concluded(r)
  BY DEF HandlersInv, PendingIsOwn, Waiting
<1>2. /\ answer' = [r \in Request |-> IF Concluded(r) THEN outcome[TxOf[r]] ELSE answer[r]]
      /\ stage' = [r \in Request |-> IF Concluded(r) THEN "answered" ELSE stage[r]]
      /\ pending' = [t \in Tx |-> IF t \in DOMAIN outcome THEN NoRequest ELSE pending[t]]
  BY <1>1 DEF Conclude
<1>3. \A r \in Request : Concluded(r) => stage[r] = "waiting" /\ answer[r] = "none"
  BY DEF HandlersInv, CommitsAreAwaited, AnsweredHaveAnswer
<1>4. /\ stage' \in [Request -> {"new", "authorized", "validated", "waiting", "answered"}]
      /\ answer' \in [Request -> Code]
      /\ pending' \in [Tx -> Request \union {NoRequest}]
  BY <1>2 DEF HandlersInv
<1>5. PendingIsOwn'
  BY <1>2 DEF HandlersInv, PendingIsOwn, Waiting
<1>6. CommitsAreAwaited'
  BY <1>2 DEF HandlersInv, CommitsAreAwaited
<1>7. AnsweredHaveAnswer'
  BY <1>2 DEF HandlersInv, AnsweredHaveAnswer
<1>8. AnswersStand
  BY <1>2, <1>3 DEF AnswersStand
<1>9. \A t \in Tx : Waiting(t)' => Waiting(t) /\ t \notin DOMAIN outcome
  BY <1>2 DEF Waiting
<1>. QED
  BY <1>2, <1>4, <1>5, <1>6, <1>7, <1>8, <1>9 DEF HandlersInv

-----------------------------------------------------------------------------
(* The queue and the worker *)

\* An accepted transaction enters queue and hash set together.
LEMMA EnqueueStep ==
  ASSUME QueueInv, NEW t \in Tx, CanEnqueue(t), Enqueue(t)
  PROVE  /\ QueueInv'
         /\ Elements(pool') = Elements(pool) \union {t}
<1>. USE DEF QueueInv, CanEnqueue, HasRoom, Enqueue
<1>1. /\ Elements(pool') = Elements(pool) \union {t}
      /\ NoRepeat(pool)'
  BY ElementsOfAppend
<1>2. pool' \in Seq(Tx) /\ Len(pool') <= PoolSize
  BY SizeAssumption
<1>. QED
  BY <1>1, <1>2

\* What leaves the queue is with the worker.
LEMMA DrainStep ==
  ASSUME QueueInv, WorkerInv, Drain
  PROVE  /\ QueueInv' /\ WorkerInv'
         /\ Elements(pool) \union Elements(batch)
              = Elements(pool') \union Elements(batch')
<1>. DEFINE n == IF Len(pool) < BatchSize THEN Len(pool) ELSE BatchSize
<1>1. n \in 0 .. Len(pool) /\ n <= BatchSize
  BY SizeAssumption DEF QueueInv
<1>2. /\ worker = "permitted" /\ batch = <<>>
      /\ worker' = IF n = 0 THEN "resting" ELSE "appending"
      /\ batch' = SubSeq(pool, 1, n)
      /\ pool' = SubSeq(pool, n + 1, Len(pool))
      /\ queued' = queued \ Elements(batch')
      /\ log' = log
  BY DEF Drain, Taken, WorkerInv
<1>. HIDE DEF n
<1>3. /\ batch' \in Seq(Tx) /\ Len(batch') = n
      /\ pool' \in Seq(Tx) /\ Len(pool') = Len(pool) - n
      /\ NoRepeat(pool')
      /\ Elements(pool) = Elements(batch') \union Elements(pool')
      /\ Elements(batch') \intersect Elements(pool') = {}
  BY <1>1, <1>2, ElementsOfCut DEF QueueInv
<1>4. QueueInv'
  <2>1. Len(pool') <= PoolSize
    BY <1>1, <1>3, SizeAssumption DEF QueueInv
  <2>2. queued' = Elements(pool')
    BY <1>2, <1>3 DEF QueueInv
  <2>3. NoRepeat(pool)'
    BY <1>3
  <2>. QED
    BY <1>3, <2>1, <2>2, <2>3 DEF QueueInv
<1>5. WorkerInv'
  <2>1. n = 0 => batch' = <<>>
    BY <1>3
  <2>. QED
    BY <1>1, <1>2, <1>3, <2>1 DEF WorkerInv
<1>. QED
  BY <1>2, <1>3, <1>4, <1>5, ElementsOfEmpty

-----------------------------------------------------------------------------
(* What a step leaves alone *)

\* Steps elsewhere keep the part of the handlers,
LEMMA HandlersFrame ==
  ASSUME HandlersInv, UNCHANGED handlers
  PROVE  HandlersInv' /\ AnswersStand
  BY DEF HandlersInv, handlers, PendingIsOwn, Waiting, CommitsAreAwaited,
         AnsweredHaveAnswer, AnswersStand

\* the part of the queue,
LEMMA QueueFrame ==
  ASSUME QueueInv, UNCHANGED queue
  PROVE  QueueInv'
  BY DEF QueueInv, queue, Elements, NoRepeat

\* the part of the worker,
LEMMA WorkerFrame ==
  ASSUME WorkerInv, UNCHANGED <<batch, worker, log>>
  PROVE  WorkerInv'
  BY DEF WorkerInv, Elements

\* and the part of the environment.
LEMMA EnvironmentFrame ==
  ASSUME EnvironmentInv, UNCHANGED <<environment, service>>
  PROVE  EnvironmentInv'
  BY DEF EnvironmentInv, environment

\* Nobody starts to wait, and nothing leaves the queue but for the batch.
LEMMA OnItsWayFrame ==
  ASSUME AwaitedIsOnItsWay,
         service' \in {"running", "stopping"} => service \in {"running", "stopping"},
         \A t \in Tx : Waiting(t)' => Waiting(t),
         Elements(pool) \union Elements(batch) \subseteq Elements(pool') \union Elements(batch')
  PROVE  AwaitedIsOnItsWay'
  BY DEF AwaitedIsOnItsWay, Elements

\* The log only grows, and new answers are no receipts.
LEMMA ReceiptsFrame ==
  ASSUME ReceiptsAreHonest, Elements(log) \subseteq Elements(log'),
         \A r \in Request : answer'[r] = answer[r]
                              \/ answer'[r] \notin {"OK", "PROOF_UNAVAILABLE"}
  PROVE  ReceiptsAreHonest'
  BY DEF ReceiptsAreHonest, Elements

-----------------------------------------------------------------------------
(* The invariant is inductive *)

\* At first there is nothing to answer.
LEMMA PipelineInvInit == Init => PipelineInv
<1>. SUFFICES ASSUME Init PROVE PipelineInv
  OBVIOUS
<1>. USE RequestAssumption, SizeAssumption DEF Init
<1>1. HandlersInv
  BY DEF HandlersInv, PendingIsOwn, Waiting, CommitsAreAwaited, AnsweredHaveAnswer, Code
<1>2. QueueInv
  BY ElementsOfEmpty DEF QueueInv, NoRepeat
<1>3. WorkerInv
  BY DEF WorkerInv
<1>4. EnvironmentInv
  BY DEF EnvironmentInv
<1>5. AwaitedIsOnItsWay /\ ReceiptsAreHonest
  BY DEF AwaitedIsOnItsWay, ReceiptsAreHonest, Waiting
<1>. QED
  BY <1>1, <1>2, <1>3, <1>4, <1>5 DEF PipelineInv

\* Every stretch of a handler keeps the invariant.
LEMMA HandleStep ==
  ASSUME PipelineInv, NEW r \in Request, Handle(r)
  PROVE  PipelineInv' /\ AnswersStand
<1>. USE DEF PipelineInv
<1>1. /\ UNCHANGED <<batch, worker, log, environment, service>>
      /\ WorkerInv' /\ EnvironmentInv'
  <2>1. UNCHANGED <<batch, worker, log, environment, service>>
    BY DEF Handle, Authorize, Validate, Dispatch, DispatchLegacy
  <2>. QED
    BY <2>1, WorkerFrame, EnvironmentFrame
<1>2. ASSUME NEW code \in Code \ {"none", "OK", "PROOF_UNAVAILABLE"}, Respond(r, code),
             stage[r] \notin {"waiting", "answered"}, UNCHANGED pending,
             \/ UNCHANGED queue
             \/ TxOf[r] \in Tx /\ CanEnqueue(TxOf[r]) /\ Enqueue(TxOf[r])
      PROVE  PipelineInv' /\ AnswersStand
  <2>1. HandlersInv' /\ AnswersStand /\ \A q \in Request : answer'[q] \in {answer[q], code}
    BY <1>2, RespondStep
  <2>2. QueueInv' /\ Elements(pool) \subseteq Elements(pool')
    BY <1>2, QueueFrame, EnqueueStep DEF queue
  <2>3. AwaitedIsOnItsWay'
    BY <1>1, <1>2, <2>2, OnItsWayFrame DEF Waiting
  <2>4. ReceiptsAreHonest'
    BY <1>1, <1>2, <2>1, ReceiptsFrame
  <2>. QED
    BY <1>1, <2>1, <2>2, <2>3, <2>4
<1>3. ASSUME NEW s \in {"authorized", "validated"}, stage' = [stage EXCEPT ![r] = s],
             stage[r] \notin {"waiting", "answered"}, UNCHANGED <<answer, pending, queue>>
      PROVE  PipelineInv' /\ AnswersStand
  <2>1. HandlersInv' /\ AnswersStand
    BY <1>3, AdvanceStep
  <2>2. QueueInv' /\ Elements(pool) \subseteq Elements(pool')
    BY <1>3, QueueFrame DEF queue
  <2>3. AwaitedIsOnItsWay'
    BY <1>1, <1>3, <2>2, OnItsWayFrame DEF Waiting
  <2>4. ReceiptsAreHonest'
    BY <1>1, <1>3, ReceiptsFrame
  <2>. QED
    BY <1>1, <2>1, <2>2, <2>3, <2>4
<1>4. CASE Authorize(r)
  BY <1>2, <1>3, <1>4 DEF Authorize, Code
<1>5. CASE Validate(r)
  BY <1>2, <1>3, <1>5 DEF Validate, Code
<1>6. CASE Dispatch(r)
  <2>1. CASE DispatchRefusal(TxOf[r]) # "none" /\ Respond(r, DispatchRefusal(TxOf[r]))
             /\ UNCHANGED <<pending, queue>>
    <3>1. DispatchRefusal(TxOf[r]) \in Code \ {"none", "OK", "PROOF_UNAVAILABLE"}
      BY <2>1 DEF DispatchRefusal, Code
    <3>. QED
      BY <1>2, <1>6, <2>1, <3>1 DEF Dispatch
  <2>2. CASE /\ DispatchRefusal(TxOf[r]) = "none"
             /\ pending' = [pending EXCEPT ![TxOf[r]] = r]
             /\ Enqueue(TxOf[r])
             /\ stage' = [stage EXCEPT ![r] = "waiting"]
             /\ UNCHANGED answer
    <3>1. TxOf[r] \in Tx /\ ~Waiting(TxOf[r]) /\ CanEnqueue(TxOf[r])
      BY <2>2, RequestAssumption DEF DispatchRefusal, CanEnqueue
    <3>2. HandlersInv' /\ AnswersStand
      BY <1>6, <2>2, <3>1, RegisterStep DEF Dispatch
    <3>3. QueueInv' /\ Elements(pool') = Elements(pool) \union {TxOf[r]}
      BY <2>2, <3>1, EnqueueStep
    <3>4. AwaitedIsOnItsWay'
      BY <1>1, <2>2, <3>1, <3>3 DEF AwaitedIsOnItsWay, Waiting, HandlersInv, Elements
    <3>5. ReceiptsAreHonest'
      BY <1>1, <2>2, ReceiptsFrame
    <3>. QED
      BY <1>1, <3>2, <3>3, <3>4, <3>5
  <2>. QED
    BY <1>6, <2>1, <2>2 DEF Dispatch
<1>7. CASE DispatchLegacy(r)
  BY <1>2, <1>7, RequestAssumption DEF DispatchLegacy, Code
<1>. QED
  BY <1>4, <1>5, <1>6, <1>7 DEF Handle

\* A conclusion keeps its share of the invariant; what is awaited afterwards
\* is among what the caller must find in the queue or the batch.
LEMMA ConclusionStep ==
  ASSUME PipelineInv, NEW outcome, DOMAIN outcome \subseteq Tx,
         \A t \in DOMAIN outcome : outcome[t] \in Code \ {"none"},
         Conclude(outcome), UNCHANGED log,
         \A t \in DOMAIN outcome :
           outcome[t] \in {"OK", "PROOF_UNAVAILABLE"} => t \in Elements(log)
  PROVE  /\ HandlersInv' /\ AnswersStand /\ ReceiptsAreHonest'
         /\ \A t \in Tx : Waiting(t)' => Waiting(t) /\ t \notin DOMAIN outcome
<1>1. /\ HandlersInv' /\ AnswersStand
      /\ \A t \in Tx : Waiting(t)' => Waiting(t) /\ t \notin DOMAIN outcome
      /\ \A r \in Request :
           \/ answer'[r] = answer[r]
           \/ TxOf[r] \in DOMAIN outcome /\ answer'[r] = outcome[TxOf[r]]
  BY ConcludeStep DEF PipelineInv
<1>2. ReceiptsAreHonest'
  BY <1>1 DEF PipelineInv, ReceiptsAreHonest, Elements
<1>. QED
  BY <1>1, <1>2

\* The batch is let go with an answer for each of its transactions.
LEMMA BatchConcluded ==
  ASSUME PipelineInv, NEW outcome, DOMAIN outcome = Elements(batch),
         \A t \in DOMAIN outcome : outcome[t] \in Code \ {"none"},
         Conclude(outcome), UNCHANGED <<queue, log, environment, service>>,
         \A t \in DOMAIN outcome :
           outcome[t] \in {"OK", "PROOF_UNAVAILABLE"} => t \in Elements(log),
         batch' = <<>>, worker' = "resting"
  PROVE  PipelineInv' /\ AnswersStand
<1>1. DOMAIN outcome \subseteq Tx
  BY ElementsType DEF PipelineInv, WorkerInv
<1>2. /\ HandlersInv' /\ AnswersStand /\ ReceiptsAreHonest'
      /\ \A t \in Tx : Waiting(t)' => Waiting(t) /\ t \notin Elements(batch)
  BY <1>1, ConclusionStep
<1>3. QueueInv' /\ EnvironmentInv'
  BY QueueFrame, EnvironmentFrame DEF PipelineInv
<1>4. WorkerInv'
  BY SizeAssumption DEF PipelineInv, WorkerInv
<1>5. AwaitedIsOnItsWay'
  BY <1>2 DEF PipelineInv, AwaitedIsOnItsWay, queue, Elements
<1>. QED
  BY <1>2, <1>3, <1>4, <1>5 DEF PipelineInv

\* The worker keeps the invariant from the scheduler's call to the receipts.
LEMMA WorkStep ==
  ASSUME PipelineInv, Work
  PROVE  PipelineInv' /\ AnswersStand
<1>. USE DEF PipelineInv
<1>1. CASE Wake
  <2>1. HandlersInv' /\ AnswersStand /\ QueueInv' /\ EnvironmentInv'
    BY <1>1, HandlersFrame, QueueFrame, EnvironmentFrame DEF Wake
  <2>2. WorkerInv'
    BY <1>1 DEF Wake, WorkerInv, Elements
  <2>3. AwaitedIsOnItsWay' /\ ReceiptsAreHonest'
    BY <1>1, OnItsWayFrame, ReceiptsFrame DEF Wake, handlers, queue, Waiting
  <2>. QED
    BY <2>1, <2>2, <2>3
<1>2. CASE Drain
  <2>1. HandlersInv' /\ AnswersStand /\ EnvironmentInv'
    BY <1>2, HandlersFrame, EnvironmentFrame DEF Drain
  <2>2. /\ QueueInv' /\ WorkerInv'
        /\ Elements(pool) \union Elements(batch)
             = Elements(pool') \union Elements(batch')
    BY <1>2, DrainStep
  <2>3. AwaitedIsOnItsWay' /\ ReceiptsAreHonest'
    BY <1>2, <2>2, OnItsWayFrame, ReceiptsFrame DEF Drain, handlers, Waiting
  <2>. QED
    BY <2>1, <2>2, <2>3
<1>3. CASE AppendBatch
  <2>1. HandlersInv' /\ AnswersStand /\ QueueInv' /\ EnvironmentInv'
    BY <1>3, HandlersFrame, QueueFrame, EnvironmentFrame DEF AppendBatch
  <2>2. /\ log' \in Seq(Tx)
        /\ Elements(log') = Elements(log) \union Elements(batch)
    BY <1>3, ElementsOfConcat DEF AppendBatch, WorkerInv
  <2>3. WorkerInv'
    BY <1>3, <2>2 DEF AppendBatch, WorkerInv, Elements
  <2>4. AwaitedIsOnItsWay' /\ ReceiptsAreHonest'
    BY <1>3, <2>2, OnItsWayFrame, ReceiptsFrame DEF AppendBatch, handlers, queue, Waiting
  <2>. QED
    BY <2>1, <2>2, <2>3, <2>4
<1>4. CASE Settle
  <2>1. PICK proven \in SUBSET Elements(batch) :
          Conclude([t \in Elements(batch) |->
                      IF t \in proven THEN "OK" ELSE "PROOF_UNAVAILABLE"])
    BY <1>4 DEF Settle
  <2>2. Elements(batch) \subseteq Elements(log)
    BY <1>4 DEF Settle, WorkerInv
  <2>. QED
    BY <1>4, <2>1, <2>2, BatchConcluded DEF Settle, Code
<1>5. CASE Fail
  BY <1>5, BatchConcluded DEF Fail, Code
<1>. QED
  BY <1>1, <1>2, <1>3, <1>4, <1>5 DEF Work

\* A timer gives up a commit; its transaction stays queued or with the worker.
LEMMA TimeoutStep ==
  ASSUME PipelineInv, NEW t \in Tx, Timeout(t)
  PROVE  PipelineInv' /\ AnswersStand
<1>1. /\ HandlersInv' /\ AnswersStand /\ ReceiptsAreHonest'
      /\ \A u \in Tx : Waiting(u)' => Waiting(u)
  <2>1. Conclude([u \in {t} |-> "TIMEOUT"]) /\ UNCHANGED log
    BY DEF Timeout
  <2>. QED
    BY <2>1, ConclusionStep DEF Code
<1>2. QueueInv' /\ WorkerInv' /\ EnvironmentInv'
  BY QueueFrame, WorkerFrame, EnvironmentFrame DEF PipelineInv, Timeout
<1>3. AwaitedIsOnItsWay'
  BY <1>1, OnItsWayFrame DEF PipelineInv, Timeout, queue
<1>. QED
  BY <1>1, <1>2, <1>3 DEF PipelineInv

\* The shutdown answers whoever still waits.
LEMMA ShutdownStep ==
  ASSUME PipelineInv, Shutdown
  PROVE  PipelineInv' /\ AnswersStand
<1>. USE DEF PipelineInv
<1>1. CASE StopPool
  <2>1. HandlersInv' /\ AnswersStand /\ QueueInv' /\ WorkerInv' /\ EnvironmentInv'
    BY <1>1, HandlersFrame, QueueFrame, WorkerFrame DEF StopPool, EnvironmentInv, environment
  <2>2. AwaitedIsOnItsWay' /\ ReceiptsAreHonest'
    BY <1>1, OnItsWayFrame, ReceiptsFrame DEF StopPool, handlers, queue, Waiting
  <2>. QED
    BY <2>1, <2>2
<1>2. CASE ClearPool
  <2>1. HandlersInv' /\ AnswersStand /\ WorkerInv' /\ EnvironmentInv'
    BY <1>2, HandlersFrame, WorkerFrame DEF ClearPool, EnvironmentInv, environment
  <2>2. QueueInv'
    BY <1>2, ElementsOfEmpty, SizeAssumption DEF ClearPool, QueueInv, NoRepeat
  <2>3. AwaitedIsOnItsWay' /\ ReceiptsAreHonest'
    BY <1>2, ReceiptsFrame DEF ClearPool, handlers, AwaitedIsOnItsWay
  <2>. QED
    BY <2>1, <2>2, <2>3
<1>3. CASE CloseCommits
  <2>1. Conclude([t \in Tx |-> "UNEXPECTED_ERROR"]) /\ UNCHANGED log
    BY <1>3 DEF CloseCommits
  <2>2. HandlersInv' /\ AnswersStand /\ ReceiptsAreHonest'
    BY <2>1, ConclusionStep DEF Code
  <2>3. QueueInv' /\ WorkerInv' /\ EnvironmentInv' /\ AwaitedIsOnItsWay'
    BY <1>3, QueueFrame, WorkerFrame
       DEF CloseCommits, EnvironmentInv, environment, AwaitedIsOnItsWay
  <2>. QED
    BY <2>2, <2>3
<1>. QED
  BY <1>1, <1>2, <1>3 DEF Shutdown

\* Every step keeps the invariant and revises no answer.
LEMMA PipelineInvStep ==
  ASSUME PipelineInv, [Next]_vars
  PROVE  PipelineInv' /\ AnswersStand
<1>1. ASSUME UNCHANGED <<handlers, queue, batch, worker, log, service>>, EnvironmentInv'
      PROVE  PipelineInv' /\ AnswersStand
  <2>1. HandlersInv' /\ AnswersStand /\ QueueInv' /\ WorkerInv'
    BY <1>1, HandlersFrame, QueueFrame, WorkerFrame DEF PipelineInv
  <2>2. AwaitedIsOnItsWay' /\ ReceiptsAreHonest'
    BY <1>1, OnItsWayFrame, ReceiptsFrame DEF PipelineInv, handlers, queue, Waiting
  <2>. QED
    BY <1>1, <2>1, <2>2 DEF PipelineInv
<1>2. ASSUME NEW t \in Tx, Store(t) PROVE PipelineInv' /\ AnswersStand
  BY <1>1, <1>2 DEF Store, PipelineInv, EnvironmentInv
<1>3. CASE ChangeCapability
  BY <1>1, <1>3 DEF ChangeCapability, PipelineInv, EnvironmentInv
<1>4. CASE UNCHANGED vars
  BY <1>1, <1>4, EnvironmentFrame DEF vars, PipelineInv
<1>. QED
  BY <1>2, <1>3, <1>4, HandleStep, WorkStep, TimeoutStep, ShutdownStep DEF Next

\* The invariant holds in every reachable state.
LEMMA PipelineInvariant == Spec => []PipelineInv
<1>1. PipelineInv /\ [Next]_vars => PipelineInv'
  BY PipelineInvStep
<1>. QED
  BY <1>1, PipelineInvInit, PTL DEF Spec

-----------------------------------------------------------------------------
(* The theorems *)

\* The state stays of its type: addTransaction, #prepareBatch, the commit
\* registry and the shutdown leave every part of the pipeline well formed.
THEOREM TypeCorrect == Spec => []TypeOK
<1>1. PipelineInv => TypeOK
  BY ElementsType DEF PipelineInv, HandlersInv, QueueInv, WorkerInv, EnvironmentInv, TypeOK
<1>. QED
  BY <1>1, PipelineInvariant, PTL

\* The commits of #pendingCommits and the handlers that wait for one are the
\* same, whatever order dispatchTransaction, the timers, the receipts of
\* #processTransactions and the shutdown come in.
THEOREM CommitsAwaited == Spec => []CommitsAreAwaited
<1>1. PipelineInv => CommitsAreAwaited
  BY DEF PipelineInv, HandlersInv
<1>. QED
  BY <1>1, PipelineInvariant, PTL

\* #txPool never exceeds txPoolSize and holds no transaction twice, and
\* #queuedTxHashes is the set of what it holds.
THEOREM PoolConsistent == Spec => []PoolIsConsistent
<1>1. PipelineInv => PoolIsConsistent
  BY NoRepeatCounts DEF PipelineInv, QueueInv, PoolIsConsistent
<1>. QED
  BY <1>1, PipelineInvariant, PTL

\* Until stopPool has cleared the queue, a handler only waits for what is in
\* the queue or in the batch of #processTransactions.
THEOREM AwaitedOnItsWay == Spec => []AwaitedIsOnItsWay
<1>1. PipelineInv => AwaitedIsOnItsWay
  BY DEF PipelineInv
<1>. QED
  BY <1>1, PipelineInvariant, PTL

\* resolvePendingCommit is only called for what the node's own core holds.
THEOREM ReceiptsHonest == Spec => []ReceiptsAreHonest
<1>1. PipelineInv => ReceiptsAreHonest
  BY DEF PipelineInv
<1>. QED
  BY <1>1, PipelineInvariant, PTL

\* No step of the pipeline replaces the response of a message that has one.
THEOREM AnswersFinal == Spec => AnswersAreFinal
<1>1. PipelineInv /\ [Next]_vars => [AnswersStand]_vars
  BY PipelineInvStep
<1>. QED
  BY <1>1, PipelineInvariant, PTL DEF Spec, AnswersAreFinal, AnswersStand
=============================================================================
