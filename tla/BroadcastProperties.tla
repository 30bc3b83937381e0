-------------------------- MODULE BroadcastProperties --------------------------
(***************************************************************************)
(* What a sender expects of its orchestrator.                              *)
(***************************************************************************)
EXTENDS Broadcast

\* An operation is reported as sent only if some validator appended it, after
\* whatever mixture of timeouts, retries and rescues.
SuccessIsReal == \A o \in Operation : call[o] = Result(TRUE) => o \in appended

\* Operations that are sent at the same time keep to the quota of a validator:
\* no entry of the pool has used it up.
QuotaIsKept == \A v \in Connected : sent[v] < MessageThreshold

\* The attempts of a call of send that may retry n - 1 times, when every legacy
\* attempt throws: its own, and those of the two calls that rescue it.
AttemptsWithin[n \in Nat] == IF n = 0 THEN 0 ELSE 1 + 2 * AttemptsWithin[n - 1]

\* The retries of send bound its work: an attempt that does not answer is
\* followed by at most maxRetries more, and rescues, which call send twice, at
\* most double that at each level.
AttemptsAreBounded ==
  \A o \in Operation :
    attempts[o] <= IF Legacy = {} THEN MaxRetries + 1 ELSE AttemptsWithin[MaxRetries + 1]

\* What a validator of the current protocol answered is the end of it, whatever
\* the answer was: only a rescue of a legacy attempt sends the operation again.
AnswersAreFinal ==
  [][\A o \in Operation : o \in answered => attempts'[o] = attempts[o]]_vars

\* Every call of send returns, though nobody answers and validators come and
\* go under it.
EverySendReturns == \A o \in Operation : <>Done(o)
=============================================================================
