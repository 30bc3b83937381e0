------------------------------- MODULE Broadcast -------------------------------
(***************************************************************************)
(* How a node gets an operation to a validator: MessageOrchestrator.send   *)
(* with its retries, the pool it picks from and takes validators out of    *)
(* (ConnectionManager), and the requests that wait for an answer           *)
(* (PendingRequestService).  The pool itself is ValidatorPool's, the work  *)
(* of a validator is ValidatorPipeline's; here a validator that got the    *)
(* operation may append it, or not, whatever it answers.                   *)
(*                                                                         *)
(* A call of send is a step of its own: send calls itself only where the   *)
(* result of the call is its own result, except when a legacy attempt      *)
(* throws.  Then the call waits, a rescue, for the result of the inner one *)
(* and calls send once more if that is false.                              *)
(*                                                                         *)
(* A definition named Buggy... is the one after it with a plausible bug;   *)
(* no action uses it.                                                      *)
(***************************************************************************)
EXTENDS Integers, Sequences, FiniteSets

CONSTANTS
  Operation,        \* the operations to send, each sent once
  Validator,        \* the validators the observer connects to
  Legacy,           \* those that speak only the legacy protocol
  Requester,        \* the address an operation comes from
  MaxRetries,       \* config.maxRetries
  MessageThreshold, \* config.messageThreshold
  MaxPending        \* config.maxPendingRequestsInPendingRequestsService

ASSUME LimitAssumption ==
  MaxRetries \in Nat /\ {MessageThreshold, MaxPending} \subseteq Nat \ {0}
ASSUME LegacyAssumption == Legacy \subseteq Validator
ASSUME FiniteAssumption == IsFiniteSet(Operation) /\ IsFiniteSet(Validator)

VARIABLES
  link,      \* validators whose connection is up
  pool,      \* #validators: "dead" if the entry's connection is closed
  sent,      \* messages sent through an entry of the pool
  call,      \* what an operation's send is doing
  rescues,   \* its outer calls that wait for an inner one, innermost first
  delivered, \* operations that reached a validator
  attempts,  \* how often it was sent
  answered,  \* operations whose last attempt was answered, not yet rescued
  appended   \* operations some validator appended

vars == <<link, pool, sent, call, rescues, delivered, attempts, answered, appended>>

Retry == 0..(MaxRetries + 1)
Calling(retries) == [at |-> "calling", retries |-> retries]
Busy(at, v, retries) == [at |-> at, to |-> v, retries |-> retries]
Result(value) == [at |-> "returned", value |-> value]

TypeOK ==
  /\ link \subseteq Validator
  /\ pool \in [Validator -> {"out", "in", "dead"}]
  /\ sent \in [Validator -> 0..MessageThreshold]
  /\ \A o \in Operation :
       call[o] \in {Calling(r) : r \in Retry}
         \union {Busy(at, v, r) : at \in {"building", "awaiting", "lost", "legacy"},
                                  v \in Validator, r \in Retry}
         \union {Result(value) : value \in BOOLEAN}
  /\ \A o \in Operation : \A i \in DOMAIN rescues[o] :
       rescues[o][i] \in [to : Validator, retries : 0..MaxRetries]
  /\ delivered \subseteq Operation
  /\ attempts \in [Operation -> Nat]
  /\ answered \subseteq Operation /\ appended \subseteq Operation

Init ==
  /\ link = {}
  /\ pool = [v \in Validator |-> "out"]
  /\ sent = [v \in Validator |-> 0]
  /\ call = [o \in Operation |-> Calling(0)]
  /\ rescues = [o \in Operation |-> <<>>]
  /\ delivered = {}
  /\ attempts = [o \in Operation |-> 0]
  /\ answered = {} /\ appended = {}

-----------------------------------------------------------------------------
(* The pool *)

Connected == {v \in Validator : pool[v] # "out"}

\* ConnectionManager.remove; the connection it ends closes in its own time.
Remove(v) == pool' = [pool EXCEPT ![v] = "out"] /\ sent' = [sent EXCEPT ![v] = 0]
KeepPool == UNCHANGED <<pool, sent>>

BuggyCount(v) ==
  IF pool[v] = "out" THEN KeepPool
  ELSE IF sent[v] >= MessageThreshold THEN Remove(v)
  ELSE sent' = [sent EXCEPT ![v] = @ + 1] /\ UNCHANGED pool

\* incrementSentCount and shouldRemove: an entry that is gone counts nothing.
Count(v) ==
  IF pool[v] = "out" THEN KeepPool
  ELSE IF sent[v] + 1 >= MessageThreshold THEN Remove(v)
  ELSE sent' = [sent EXCEPT ![v] = @ + 1] /\ UNCHANGED pool

\* A connection comes up, and the observer puts it into the pool.
Connect(v) ==
  /\ v \notin link
  /\ link' = link \union {v}
  /\ UNCHANGED <<pool, sent, call, rescues, delivered, attempts, answered, appended>>

Join(v) ==
  /\ v \in link /\ pool[v] = "out"
  /\ pool' = [pool EXCEPT ![v] = "in"]
  /\ UNCHANGED <<link, sent, call, rescues, delivered, attempts, answered, appended>>

\* A connection that closed during its probe joins the pool after that.
JoinDead(v) ==
  /\ v \notin link /\ pool[v] = "out"
  /\ pool' = [pool EXCEPT ![v] = "dead"]
  /\ UNCHANGED <<link, sent, call, rescues, delivered, attempts, answered, appended>>

\* Health checks, the observer's policies and role events remove validators.
Dismiss(v) ==
  /\ pool[v] # "out"
  /\ Remove(v)
  /\ UNCHANGED <<link, call, rescues, delivered, attempts, answered, appended>>

\* The requests to a peer whose connection closes are rejected before anything
\* else happens: their calls go on as after any rejection.
Close(v) ==
  /\ v \in link
  /\ link' = link \ {v}
  /\ Remove(v)
  /\ call' = [o \in Operation |->
       IF call[o].at \in {"awaiting", "lost"} /\ call[o].to = v
       THEN Calling(call[o].retries + 1) ELSE call[o]]
  /\ UNCHANGED <<rescues, delivered, attempts, answered, appended>>

-----------------------------------------------------------------------------
(* send *)

\* #pickValidatorForMessage avoids the requester while there is anyone else.
Eligible(o) ==
  IF Connected \ {Requester[o]} # {} THEN Connected \ {Requester[o]} ELSE Connected

\* A message over a closed connection is dropped without an error.
Send(o, v) ==
  /\ attempts' = [attempts EXCEPT ![o] = @ + 1]
  /\ delivered' = IF pool[v] = "in" THEN delivered \union {o} ELSE delivered

\* send up to its first await, for the entry it picks
Pick(o) ==
  /\ call[o].at = "calling" /\ call[o].retries <= MaxRetries
  /\ \E v \in Eligible(o) :
       IF v \in Legacy
       THEN /\ Send(o, v)
            /\ call' = [call EXCEPT ![o] = Busy("legacy", v, @.retries)]
       ELSE /\ call' = [call EXCEPT ![o] = Busy("building", v, @.retries)]
            /\ UNCHANGED <<delivered, attempts>>
  /\ UNCHANGED <<link, pool, sent, rescues, answered, appended>>

GiveUp(o) ==
  /\ call[o].at = "calling"
  /\ call[o].retries > MaxRetries \/ Connected = {}
  /\ call' = [call EXCEPT ![o] = Result(FALSE)]
  /\ UNCHANGED <<link, pool, sent, rescues, delivered, attempts, answered, appended>>

\* The call that takes the place of this one
Resend(o) == call' = [call EXCEPT ![o] = Calling(@.retries + 1)]

Awaiting == {o \in Operation : call[o].at \in {"awaiting", "lost"}}

\* sendSingleMessage, after the request was built and signed: the entry may be
\* gone, which does not count against the validator, or the registry of
\* requests full, which does.
Transmit(o) ==
  LET v == call[o].to IN
  /\ call[o].at = "building"
  /\ \/ /\ pool[v] = "out"
        /\ Resend(o) /\ KeepPool
        /\ UNCHANGED <<delivered, attempts>>
     \/ /\ pool[v] # "out" /\ Cardinality(Awaiting) >= MaxPending
        /\ Remove(v) /\ Resend(o)
        /\ UNCHANGED <<delivered, attempts>>
     \/ /\ pool[v] # "out" /\ Cardinality(Awaiting) < MaxPending
        /\ Send(o, v) /\ KeepPool
        /\ call' = [call EXCEPT ![o].at = IF pool[v] = "in" THEN "awaiting" ELSE "lost"]
  /\ UNCHANGED <<link, rescues, answered, appended>>

BuggyAnswer(o) ==
  LET v == call[o].to IN
  /\ call[o].at = "awaiting"
  /\ \/ o \in appended /\ Count(v) /\ call' = [call EXCEPT ![o] = Result(TRUE)]
     \/ KeepPool /\ call' = [call EXCEPT ![o] = Result(TRUE)]
     \/ Remove(v) /\ call' = [call EXCEPT ![o] = Result(FALSE)]
  /\ answered' = answered \union {o}
  /\ UNCHANGED <<link, rescues, delivered, attempts, appended>>

BuggyRotate(o) ==
  LET v == call[o].to IN
  /\ call[o].at = "awaiting"
  /\ \/ o \in appended /\ Count(v) /\ call' = [call EXCEPT ![o] = Result(TRUE)]
     \/ KeepPool /\ call' = [call EXCEPT ![o] = Result(FALSE)]
     \/ Remove(v) /\ Resend(o)
  /\ answered' = answered \union {o}
  /\ UNCHANGED <<link, rescues, delivered, attempts, appended>>

\* A valid answer settles the request: OK, which its validator gives only for
\* an operation it appended; TX_ALREADY_PENDING, which keeps the validator; or
\* any other code, which removes it.
Answer(o) ==
  LET v == call[o].to IN
  /\ call[o].at = "awaiting"
  /\ \/ o \in appended /\ Count(v) /\ call' = [call EXCEPT ![o] = Result(TRUE)]
     \/ KeepPool /\ call' = [call EXCEPT ![o] = Result(FALSE)]
     \/ Remove(v) /\ call' = [call EXCEPT ![o] = Result(FALSE)]
  /\ answered' = answered \union {o}
  /\ UNCHANGED <<link, rescues, delivered, attempts, appended>>

BuggyReject(o) ==
  /\ call[o].at = "awaiting"
  /\ Remove(call[o].to) /\ Resend(o)
  /\ UNCHANGED <<link, rescues, delivered, attempts, answered, appended>>

\* The request times out, or its answer is refused: the validator goes and
\* send calls itself.
Reject(o) ==
  /\ call[o].at \in {"awaiting", "lost"}
  /\ Remove(call[o].to) /\ Resend(o)
  /\ UNCHANGED <<link, rescues, delivered, attempts, answered, appended>>

\* waitForUnsigned: the operation appears in the view, or does not in time, or
\* reading the view throws.
Appear(o) ==
  /\ call[o].at = "legacy" /\ o \in appended
  /\ Count(call[o].to)
  /\ call' = [call EXCEPT ![o] = Result(TRUE)]
  /\ UNCHANGED <<link, rescues, delivered, attempts, answered, appended>>

Miss(o) ==
  /\ call[o].at = "legacy"
  /\ Remove(call[o].to) /\ Resend(o)
  /\ UNCHANGED <<link, rescues, delivered, attempts, answered, appended>>

Throw(o) ==
  /\ call[o].at = "legacy"
  /\ rescues' = [rescues EXCEPT ![o] =
       <<[to |-> call[o].to, retries |-> call[o].retries]>> \o @]
  /\ Resend(o)
  /\ UNCHANGED <<link, pool, sent, delivered, attempts, answered, appended>>

BuggyReturn(o) ==
  /\ call[o].at = "returned" /\ rescues[o] # <<>>
  /\ rescues' = [rescues EXCEPT ![o] = Tail(@)]
  /\ IF call[o].value
     THEN KeepPool /\ UNCHANGED <<call, answered>>
     ELSE /\ Remove(Head(rescues[o]).to) /\ answered' = answered \ {o}
          /\ call' = [call EXCEPT ![o] = Calling(0)]
  /\ UNCHANGED <<link, delivered, attempts, appended>>

\* The inner call of a rescue returns.
Return(o) ==
  /\ call[o].at = "returned" /\ rescues[o] # <<>>
  /\ rescues' = [rescues EXCEPT ![o] = Tail(@)]
  /\ IF call[o].value
     THEN KeepPool /\ UNCHANGED <<call, answered>>
     ELSE /\ Remove(Head(rescues[o]).to) /\ answered' = answered \ {o}
          /\ call' = [call EXCEPT ![o] = Calling(Head(rescues[o]).retries + 1)]
  /\ UNCHANGED <<link, delivered, attempts, appended>>

-----------------------------------------------------------------------------
(* The validators *)

\* A validator appends what it got when it pleases, also after the sender gave
\* it up; the ledger ignores a second copy.
AppendOperation(o) ==
  /\ o \in delivered /\ o \notin appended
  /\ appended' = appended \union {o}
  /\ UNCHANGED <<link, pool, sent, call, rescues, delivered, attempts, answered>>

Done(o) == call[o].at = "returned" /\ rescues[o] = <<>>

Step(o) ==
  \/ Pick(o) \/ GiveUp(o) \/ Transmit(o) \/ Reject(o) \/ Miss(o) \/ Return(o)

Next ==
  \/ \E v \in Validator : Connect(v) \/ Join(v) \/ JoinDead(v) \/ Dismiss(v) \/ Close(v)
  \/ \E o \in Operation :
       Step(o) \/ Answer(o) \/ Appear(o) \/ Throw(o) \/ AppendOperation(o)

\* Calls go on and their timers fire; nobody needs to answer, append, connect
\* or close.
Fairness == \A o \in Operation : WF_vars(Step(o))

Spec == Init /\ [][Next]_vars /\ Fairness
=============================================================================
