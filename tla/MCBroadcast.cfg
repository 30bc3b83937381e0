SPECIFICATION Spec
CONSTANTS
  o1 = o1
  o2 = o2
  v1 = v1
  v2 = v2
  client = client
  Operation = {o1, o2}
  Validator = {v1, v2}
  Legacy = {v2}
  Requester <- MCRequester
  MaxRetries = 1
  MessageThreshold = 2
  MaxPending = 1
INVARIANTS
  SuccessIsReal
  QuotaIsKept
  AttemptsAreBounded
PROPERTIES
  AnswersAreFinal
  EverySendReturns
