----------------------------- MODULE ValidatorPool -----------------------------
(***************************************************************************)
(* The connections a node keeps to validators: the attempts of             *)
(* ValidatorObserverService, Network.tryConnect and its event handlers,    *)
(* the pool of ConnectionManager, the probe of ProtocolSession and the     *)
(* timers of ValidatorHealthCheckService.                                  *)
(*                                                                         *)
(* Everything runs on one event loop: an action is what one event sets     *)
(* off, with the promise continuations that follow before the next event.  *)
(* Hyperswarm keeps at most one connection per peer; a connection that     *)
(* took the place of a closed one is a new one, with a new session.        *)
(*                                                                         *)
(* A definition named Buggy... is the one after it with a plausible bug;   *)
(* no action uses it.                                                      *)
(***************************************************************************)
EXTENDS Integers, FiniteSets

CONSTANTS
  Peer,           \* the writers the observer knows
  MaxValidators,  \* config.maxValidators
  MaxConnecting   \* #maxPendingConnections

ASSUME LimitAssumption == {MaxValidators, MaxConnecting} \subseteq Nat \ {0}
ASSUME PeerAssumption == IsFiniteSet(Peer)

VARIABLES
  link,        \* the swarm's connection to a peer
  protocol,    \* #preferredProtocol of that connection's session
  candidates,  \* what is left of the observer's current cycle
  connecting,  \* #pendingConnections
  probing,     \* READY handlers that await the probe of that connection
  pool,        \* #validators: "dead" and "deadV1" are entries whose connection
               \* is closed, "deadV1" those whose session prefers v1
  checks,      \* #timers: peers with a health check interval
  testing,     \* health check requests under way: "lost" over a dead connection
  service      \* the life of Network

vars == <<link, protocol, candidates, connecting, probing, pool, checks,
          testing, service>>

TypeOK ==
  /\ link \in [Peer -> {"closed", "open", "ending"}]
  /\ protocol \in [Peer -> {"unknown", "v1", "legacy"}]
  /\ candidates \in SUBSET Peer
  /\ connecting \in SUBSET Peer /\ Cardinality(connecting) <= MaxConnecting
  /\ probing \in [Peer -> Nat]
  /\ pool \in [Peer -> {"out", "in", "dead", "deadV1"}]
  /\ checks \in SUBSET Peer
  /\ testing \in [Peer -> {"none", "sent", "lost"}]
  /\ service \in {"running", "closing", "closed"}

Init ==
  /\ link = [p \in Peer |-> "closed"]
  /\ protocol = [p \in Peer |-> "unknown"]
  /\ candidates = {}
  /\ connecting = {}
  /\ probing = [p \in Peer |-> 0]
  /\ pool = [p \in Peer |-> "out"]
  /\ checks = {}
  /\ testing = [p \in Peer |-> "none"]
  /\ service = "running"

-----------------------------------------------------------------------------
(* The pool *)

\* connectedValidators: every entry has a connection, closed or not
Connected == {p \in Peer : pool[p] # "out"}
HasRoom == Cardinality(Connected) < MaxValidators

BuggyProbePending(p) == testing[p] # "none"

\* isProbePending: health checks are liveness requests too
ProbePending(p) == probing[p] > 0 \/ testing[p] # "none"

BuggyAdded(validators, p, entry) ==
  IF validators[p] = "out" THEN [validators EXCEPT ![p] = entry] ELSE validators

\* addValidator: the pool after it is asked to add p
Added(validators, p, entry) ==
  IF /\ Cardinality({q \in Peer : validators[q] # "out"}) < MaxValidators
     /\ validators[p] = "out"
  THEN [validators EXCEPT ![p] = entry]
  ELSE validators

\* The checks of p are started or stopped whether or not it was added.
Scheduled(timers, p, kind) == IF kind = "v1" THEN timers \union {p} ELSE timers \ {p}

\* ConnectionManager.remove ends the connection it holds.
Remove(p) ==
  /\ pool' = [pool EXCEPT ![p] = "out"]
  /\ checks' = checks \ {p}
  /\ link' = [link EXCEPT ![p] = IF pool[p] = "in" /\ @ = "open" THEN "ending" ELSE @]

-----------------------------------------------------------------------------
(* The observer's cycle *)

\* #worker selects candidates for the open slots, then connects to them one by
\* one with a delay in between.  The admin policy may leave one out.
Observe(chosen) ==
  /\ service = "running" /\ candidates = {}
  /\ HasRoom
  /\ chosen # {} /\ chosen \intersect (Connected \union connecting) = {}
  /\ Cardinality(chosen) <= MaxValidators - Cardinality(Connected)
  /\ candidates' = chosen
  /\ UNCHANGED <<link, protocol, connecting, probing, pool, checks, testing, service>>

\* The READY handler up to its await, or to its end if the session was probed
Ready(p) ==
  IF protocol[p] = "unknown"
  THEN /\ probing' = [probing EXCEPT ![p] = @ + 1]
       /\ UNCHANGED <<pool, checks>>
  ELSE /\ pool' = Added(pool, p, "in")
       /\ checks' = Scheduled(checks, p, protocol[p])
       /\ UNCHANGED probing

\* #processCandidates and tryConnect find p connected, pending, or no room for
\* another pending connection.
Unneeded(p) ==
  \/ p \in Connected \union connecting
  \/ Cardinality(connecting) >= MaxConnecting

Skip(p) ==
  /\ p \in candidates /\ Unneeded(p)
  /\ candidates' = candidates \ {p}
  /\ UNCHANGED <<link, protocol, connecting, probing, pool, checks, testing, service>>

\* tryConnect: a connection that is there already is used at once, unless its
\* peer owes an answer to a liveness request; otherwise p stays pending until
\* it connects or the timer fires.
Attempt(p) ==
  /\ p \in candidates /\ ~Unneeded(p)
  /\ candidates' = candidates \ {p}
  /\ IF link[p] # "closed" /\ ~ProbePending(p)
     THEN Ready(p) /\ UNCHANGED connecting
     ELSE connecting' = connecting \union {p} /\ UNCHANGED <<probing, pool, checks>>
  /\ UNCHANGED <<link, protocol, testing, service>>

BuggyTimeout(p) == /\ p \in connecting /\ link[p] = "closed"
                   /\ connecting' = connecting \ {p}
                   /\ UNCHANGED <<link, protocol, candidates, probing, pool,
                                  checks, testing, service>>

\* The timer of tryConnect
Timeout(p) ==
  /\ p \in connecting
  /\ connecting' = connecting \ {p}
  /\ UNCHANGED <<link, protocol, candidates, probing, pool, checks, testing, service>>

-----------------------------------------------------------------------------
(* The swarm *)

\* A connection comes up, asked for or not; only a pending one is made ready.
Open(p) ==
  /\ service # "closed" /\ link[p] = "closed"
  /\ link' = [link EXCEPT ![p] = "open"]
  /\ IF p \in connecting
     THEN connecting' = connecting \ {p} /\ Ready(p)
     ELSE UNCHANGED <<connecting, probing, pool, checks>>
  /\ UNCHANGED <<protocol, candidates, testing, service>>

\* The routers settle the session on the protocol of the first message.
Receive(p) ==
  /\ service # "closed" /\ link[p] # "closed" /\ protocol[p] = "unknown"
  /\ \E kind \in {"v1", "legacy"} : protocol' = [protocol EXCEPT ![p] = kind]
  /\ UNCHANGED <<link, candidates, connecting, probing, pool, checks, testing, service>>

BuggyClose(p) ==
  /\ link[p] # "closed"
  /\ link' = [link EXCEPT ![p] = "closed"]
  /\ protocol' = [protocol EXCEPT ![p] = "unknown"]
  /\ pool' = [pool EXCEPT ![p] = "out"]
  /\ checks' = checks \ {p}
  /\ UNCHANGED <<candidates, connecting, probing, testing, service>>

\* The 'close' handlers: requests to the peer are rejected and it is removed.
\* Then the rejections arrive: a health check removes the peer once more, and
\* a READY handler, its session fallen back to legacy unless a message settled
\* it, adds the connection, whose 'close' event is over.  The probes that a
\* shutdown cancels are over before the swarm closes anything.
Close(p) ==
  LET removed == [pool EXCEPT ![p] = "out"]
      kind == IF protocol[p] = "v1" THEN "v1" ELSE "legacy" IN
  /\ link[p] # "closed" /\ (service = "closed" => probing[p] = 0)
  /\ link' = [link EXCEPT ![p] = "closed"]
  /\ protocol' = [protocol EXCEPT ![p] = "unknown"]
  /\ probing' = [probing EXCEPT ![p] = 0]
  /\ testing' = [testing EXCEPT ![p] = "none"]
  /\ IF probing[p] > 0
     THEN /\ pool' = Added(removed, p, IF kind = "v1" THEN "deadV1" ELSE "dead")
          /\ checks' = Scheduled(checks \ {p}, p, kind)
     ELSE pool' = removed /\ checks' = checks \ {p}
  /\ UNCHANGED <<candidates, connecting, service>>

\* The probe is answered, times out, or is cancelled by the shutdown.  Any
\* answer is a v1 message, and a session is settled once.
Probed(p) ==
  /\ probing[p] > 0
  /\ probing' = [probing EXCEPT ![p] = @ - 1]
  /\ \E outcome \in {"v1", "legacy"} :
       LET kind == IF protocol[p] = "unknown" THEN outcome ELSE protocol[p] IN
       /\ outcome = "v1" => service # "closed"
       /\ protocol' = [protocol EXCEPT ![p] = kind]
       /\ pool' = Added(pool, p, "in")
       /\ checks' = Scheduled(checks, p, kind)
  /\ UNCHANGED <<link, candidates, connecting, testing, service>>

-----------------------------------------------------------------------------
(* Health checks *)

BuggyCheck(p) ==
  /\ p \in checks /\ testing[p] = "none"
  /\ pool[p] = "in" /\ protocol[p] = "v1"
  /\ testing' = [testing EXCEPT ![p] = "sent"]
  /\ UNCHANGED <<link, protocol, candidates, connecting, probing, pool, checks, service>>

\* The interval of p fires.  The session of the pool's entry passes the check
\* without a request if it is legacy: nothing changes then.
Check(p) ==
  /\ p \in checks /\ testing[p] = "none"
  /\ \/ /\ pool[p] = "out"
        /\ checks' = checks \ {p}
        /\ UNCHANGED testing
     \/ /\ pool[p] = "in" /\ protocol[p] = "v1"
        /\ testing' = [testing EXCEPT ![p] = "sent"]
        /\ UNCHANGED checks
     \/ /\ pool[p] = "deadV1"
        /\ testing' = [testing EXCEPT ![p] = "lost"]
        /\ UNCHANGED checks
  /\ UNCHANGED <<link, protocol, candidates, connecting, probing, pool, service>>

BuggyTested(p) ==
  /\ testing[p] # "none"
  /\ testing' = [testing EXCEPT ![p] = "none"]
  /\ UNCHANGED <<link, pool>>
  /\ checks' \in {checks, checks \ {p}}
  /\ UNCHANGED <<protocol, candidates, connecting, probing, service>>

\* A good answer changes nothing; any other, or none, removes whatever the
\* pool holds under the peer's key by then.
Tested(p) ==
  /\ testing[p] # "none"
  /\ testing' = [testing EXCEPT ![p] = "none"]
  /\ \/ /\ testing[p] = "sent" /\ service # "closed"
        /\ UNCHANGED <<link, pool, checks>>
     \/ Remove(p)
  /\ UNCHANGED <<protocol, candidates, connecting, probing, service>>

\* The orchestrator, the observer's policies and the role events of State
\* remove validators from the pool.
Dismiss(p) ==
  /\ pool[p] # "out"
  /\ Remove(p)
  /\ UNCHANGED <<protocol, candidates, connecting, probing, testing, service>>

-----------------------------------------------------------------------------
(* Shutdown: Network._close *)

BuggyStopObserver ==
  /\ service = "running"
  /\ service' = "closing"
  /\ UNCHANGED <<link, protocol, candidates, connecting, probing, pool, checks, testing>>

\* stopValidatorObserver interrupts the cycle and waits for its end.
StopObserver ==
  /\ service = "running"
  /\ candidates' = {}
  /\ service' = "closing"
  /\ UNCHANGED <<link, protocol, connecting, probing, pool, checks, testing>>

\* Timers and listeners go; the requests under way are cancelled, which Probed
\* and Tested take up, and the swarm closes what is still open.
Shutdown ==
  /\ service = "closing"
  /\ connecting' = {} /\ checks' = {}
  /\ service' = "closed"
  /\ UNCHANGED <<link, protocol, candidates, probing, pool, testing>>

Step(p) ==
  \/ Skip(p) \/ Attempt(p) \/ Timeout(p)
  \/ Open(p) \/ Receive(p) \/ Close(p) \/ Probed(p)
  \/ Check(p) \/ Tested(p) \/ Dismiss(p)

Next ==
  \/ \E chosen \in SUBSET Peer : Observe(chosen)
  \/ \E p \in Peer : Step(p)
  \/ StopObserver \/ Shutdown

Pick(p) == \E chosen \in SUBSET Peer : p \in chosen /\ Observe(chosen)

\* Timers fire and requests time out, the observer works through its cycle,
\* and its shuffle leaves nobody out for ever.  Connections need not open or
\* close, nor the node shut down.
Fairness ==
  \A p \in Peer :
    /\ WF_vars(Skip(p) \/ Attempt(p)) /\ SF_vars(Pick(p))
    /\ WF_vars(Timeout(p)) /\ WF_vars(Probed(p))
    /\ WF_vars(Check(p)) /\ WF_vars(Tested(p))

Spec == Init /\ [][Next]_vars /\ Fairness
=============================================================================
