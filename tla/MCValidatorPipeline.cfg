CONSTANTS
  q1 = q1
  q2 = q2
  q3 = q3
  q4 = q4
  t1 = t1
  t2 = t2
  t3 = t3
  Request = {q1, q2, q3}
  Legacy = {q2}
  Tx = {t1, t2}
  TxOf <- MCTxOf
  NoRequest = none
  PoolSize = 2
  BufferSize = 1
  BatchSize = 1
SPECIFICATION Spec
INVARIANTS
  CommitsAreAwaited
  AwaitedIsOnItsWay
  ReceiptsAreHonest
PROPERTIES
  AnswersAreFinal
  EveryRequestIsAnswered
  PoolDrains
