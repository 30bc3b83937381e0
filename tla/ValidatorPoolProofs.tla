-------------------------- MODULE ValidatorPoolProofs --------------------------
(***************************************************************************)
(* Theorems about ValidatorPool, for any number of validators and any      *)
(* limits of the pool and of the pending connections.                      *)
(***************************************************************************)
EXTENDS ValidatorPoolProperties, FiniteSetTheorems, TLAPS

-----------------------------------------------------------------------------
(* The invariant *)

\* What ends with a connection: its settled protocol, its probe and the health
\* checks over it.
SessionInv ==
  /\ link \in [Peer -> {"closed", "open", "ending"}]
  /\ protocol \in [Peer -> {"unknown", "v1", "legacy"}]
  /\ probing \in [Peer -> Nat]
  /\ testing \in [Peer -> {"none", "sent", "lost"}]
  /\ \A p \in Peer : link[p] = "closed" => protocol[p] = "unknown" /\ probing[p] = 0
  /\ OneProbeAtATime
  /\ TestsEndWithTheirLink

\* A peer is only added after its probe, over the connection that was probed.
EntriesInv ==
  /\ pool \in [Peer -> {"out", "in", "dead", "deadV1"}]
  /\ PoolWithinLimit
  /\ \A p \in Peer : pool[p] = "in" => link[p] # "closed" /\ protocol[p] # "unknown"
  /\ checks \in SUBSET Peer
  /\ SupportedIsChecked

\* After stopValidatorObserver nobody asks for a connection any more.
AttemptsInv ==
  /\ candidates \in SUBSET Peer
  /\ connecting \in SUBSET Peer
  /\ Cardinality(connecting) <= MaxConnecting
  /\ service \in {"running", "closing", "closed"}
  /\ service # "running" => candidates = {}
  /\ ShutdownIsQuiet

PoolInv == SessionInv /\ EntriesInv /\ AttemptsInv

-----------------------------------------------------------------------------
(* The operations on the pool *)

Members(validators) == {q \in Peer : validators[q] # "out"}

\* addValidator adds nobody above the limit, and changes the entry of nobody
\* but p, if p has none.
LEMMA AddedKeepsLimit ==
  ASSUME NEW validators \in [Peer -> {"out", "in", "dead", "deadV1"}],
         Cardinality(Members(validators)) <= MaxValidators,
         NEW p \in Peer, NEW entry \in {"in", "dead", "deadV1"}
  PROVE  LET after == Added(validators, p, entry) IN
         /\ after \in [Peer -> {"out", "in", "dead", "deadV1"}]
         /\ Cardinality(Members(after)) <= MaxValidators
         /\ \A q \in Peer : q # p \/ validators[p] # "out" => after[q] = validators[q]
         /\ validators[p] = "out" => after[p] \in {"out", entry}
<1>. DEFINE after == Added(validators, p, entry)
<1>1. CASE Cardinality(Members(validators)) < MaxValidators /\ validators[p] = "out"
  <2>1. after = [validators EXCEPT ![p] = entry]
    BY <1>1 DEF Added, Members
  <2>2. Members(after) = Members(validators) \union {p} /\ p \notin Members(validators)
    BY <1>1, <2>1 DEF Members
  <2>3. IsFiniteSet(Members(validators)) /\ Cardinality(Members(validators)) \in Nat
    BY PeerAssumption, FS_Subset, FS_CardinalityType DEF Members
  <2>4. Cardinality(Members(after)) = Cardinality(Members(validators)) + 1
    BY <2>2, <2>3, FS_AddElement
  <2>. QED
    BY <1>1, <2>1, <2>3, <2>4, LimitAssumption
<1>2. CASE ~(Cardinality(Members(validators)) < MaxValidators /\ validators[p] = "out")
  <2>1. after = validators
    BY <1>2 DEF Added, Members
  <2>. QED
    BY <2>1
<1>. QED
  BY <1>1, <1>2

\* Taking a peer out leaves room.
LEMMA RemovedKeepsLimit ==
  ASSUME NEW validators \in [Peer -> {"out", "in", "dead", "deadV1"}],
         Cardinality(Members(validators)) <= MaxValidators, NEW p \in Peer
  PROVE  Cardinality(Members([validators EXCEPT ![p] = "out"])) <= MaxValidators
<1>1. Members([validators EXCEPT ![p] = "out"]) \subseteq Members(validators)
  BY DEF Members
<1>2. IsFiniteSet(Members(validators))
  BY PeerAssumption, FS_Subset DEF Members
<1>3. /\ Cardinality(Members([validators EXCEPT ![p] = "out"])) \in Nat
      /\ Cardinality(Members(validators)) \in Nat
      /\ Cardinality(Members([validators EXCEPT ![p] = "out"])) <= Cardinality(Members(validators))
  BY <1>1, <1>2, FS_Subset, FS_CardinalityType
<1>. QED
  BY <1>3, LimitAssumption

\* Starting or stopping the checks of one peer leaves the others'.
LEMMA ScheduledType ==
  ASSUME NEW timers \in SUBSET Peer, NEW p \in Peer, NEW kind
  PROVE  /\ Scheduled(timers, p, kind) \in SUBSET Peer
         /\ \A q \in Peer \ {p} : q \in Scheduled(timers, p, kind) <=> q \in timers
         /\ kind = "v1" => p \in Scheduled(timers, p, kind)
  BY DEF Scheduled

\* The pending connections stay within #maxPendingConnections.
LEMMA ConnectingBound ==
  ASSUME AttemptsInv, NEW p \in Peer
  PROVE  /\ Cardinality(connecting) \in Nat
         /\ Cardinality(connecting \ {p}) <= MaxConnecting
         /\ p \notin connecting /\ Cardinality(connecting) < MaxConnecting
              => Cardinality(connecting \union {p}) <= MaxConnecting
<1>1. IsFiniteSet(connecting) /\ Cardinality(connecting) \in Nat
  BY PeerAssumption, FS_Subset, FS_CardinalityType DEF AttemptsInv
<1>2. Cardinality(connecting \ {p}) \in Nat
        /\ Cardinality(connecting \ {p}) <= Cardinality(connecting)
  BY <1>1, FS_Subset, FS_CardinalityType
<1>3. p \notin connecting => Cardinality(connecting \union {p}) = Cardinality(connecting) + 1
  BY <1>1, FS_AddElement
<1>. QED
  BY <1>1, <1>2, <1>3, LimitAssumption DEF AttemptsInv

-----------------------------------------------------------------------------
(* The invariant is inductive *)

\* At first nothing is connected.
LEMMA PoolInvInit == Init => PoolInv
<1>. SUFFICES ASSUME Init PROVE PoolInv
  OBVIOUS
<1>. USE LimitAssumption DEF Init
<1>1. SessionInv
  BY DEF SessionInv, OneProbeAtATime, TestsEndWithTheirLink
<1>2. Connected = {} /\ Cardinality({}) = 0
  BY FS_EmptySet DEF Connected
<1>3. EntriesInv
  BY <1>2 DEF EntriesInv, PoolWithinLimit, SupportedIsChecked
<1>4. AttemptsInv
  BY <1>2 DEF AttemptsInv, ShutdownIsQuiet
<1>. QED
  BY <1>1, <1>3, <1>4 DEF PoolInv

\* A cycle only sets candidates.
LEMMA ObserveStep ==
  ASSUME PoolInv, NEW chosen \in SUBSET Peer, Observe(chosen)
  PROVE  PoolInv'
  BY DEF PoolInv, Observe, SessionInv, OneProbeAtATime, TestsEndWithTheirLink, EntriesInv,
         PoolWithinLimit, Connected, SupportedIsChecked, AttemptsInv, ShutdownIsQuiet

\* A candidate that is passed over leaves the rest alone.
LEMMA SkipStep ==
  ASSUME PoolInv, NEW p \in Peer, Skip(p)
  PROVE  PoolInv'
  BY DEF PoolInv, Skip, SessionInv, OneProbeAtATime, TestsEndWithTheirLink, EntriesInv,
         PoolWithinLimit, Connected, SupportedIsChecked, AttemptsInv, ShutdownIsQuiet

\* Of what Ready does: a probe over a connection that has none, or an entry and
\* the checks that go with its protocol
LEMMA ReadyStep ==
  ASSUME SessionInv, EntriesInv, NEW p \in Peer, probing[p] = 0, Ready(p),
         UNCHANGED <<protocol, testing, service>>, link'[p] # "closed",
         link' \in [Peer -> {"closed", "open", "ending"}],
         \A q \in Peer : link[q] # "closed" => link'[q] # "closed",
         \A q \in Peer \ {p} : link'[q] = link[q]
  PROVE  SessionInv' /\ EntriesInv' /\ checks' \subseteq checks \union {p}
<1>. USE DEF SessionInv, EntriesInv, Ready
<1>1. CASE protocol[p] = "unknown"
  <2>1. probing' = [probing EXCEPT ![p] = @ + 1] /\ pool' = pool /\ checks' = checks
    BY <1>1
  <2>2. probing' \in [Peer -> Nat] /\ OneProbeAtATime'
    BY <2>1 DEF OneProbeAtATime
  <2>3. \A q \in Peer : link'[q] = "closed" => protocol'[q] = "unknown" /\ probing'[q] = 0
    BY <2>1
  <2>4. TestsEndWithTheirLink'
    BY DEF TestsEndWithTheirLink
  <2>5. EntriesInv'
    BY <2>1 DEF PoolWithinLimit, Connected, SupportedIsChecked
  <2>. QED
    BY <2>1, <2>2, <2>3, <2>4, <2>5
<1>2. CASE protocol[p] # "unknown"
  <2>1. /\ pool' = Added(pool, p, "in")
        /\ checks' = Scheduled(checks, p, protocol[p])
        /\ probing' = probing
    BY <1>2
  <2>2. SessionInv'
    BY <2>1 DEF OneProbeAtATime, TestsEndWithTheirLink
  <2>. HIDE DEF SessionInv, EntriesInv, Ready
  <2>3. /\ pool' \in [Peer -> {"out", "in", "dead", "deadV1"}]
        /\ Cardinality(Members(pool')) <= MaxValidators
        /\ \A q \in Peer : q # p => pool'[q] = pool[q]
    <3>1. Cardinality(Members(pool)) <= MaxValidators
      BY DEF EntriesInv, PoolWithinLimit, Connected, Members
    <3>2. pool \in [Peer -> {"out", "in", "dead", "deadV1"}]
      BY DEF EntriesInv
    <3>. QED
      BY <2>1, <3>1, <3>2, AddedKeepsLimit
  <2>. USE DEF SessionInv, EntriesInv
  <2>4. PoolWithinLimit'
    BY <2>3 DEF PoolWithinLimit, Connected, Members
  <2>5. /\ checks' \in SUBSET Peer
        /\ \A q \in Peer \ {p} : q \in checks' <=> q \in checks
        /\ protocol[p] = "v1" => p \in checks'
    BY <2>1, ScheduledType
  <2>6. SupportedIsChecked'
    BY <2>3, <2>5 DEF SupportedIsChecked
  <2>7. \A q \in Peer : pool'[q] = "in" => link'[q] # "closed" /\ protocol'[q] # "unknown"
    BY <1>2, <2>3
  <2>. QED
    BY <2>2, <2>3, <2>4, <2>5, <2>6, <2>7
<1>. QED
  BY <1>1, <1>2

\* An attempt takes a place among the pending connections.
LEMMA AttemptStep ==
  ASSUME PoolInv, NEW p \in Peer, Attempt(p)
  PROVE  PoolInv'
<1>1. /\ p \in candidates /\ p \notin connecting /\ Cardinality(connecting) < MaxConnecting
      /\ candidates' = candidates \ {p}
      /\ UNCHANGED <<link, protocol, testing, service>>
      /\ service = "running"
  <2>1. /\ p \in candidates /\ ~Unneeded(p)
        /\ candidates' = candidates \ {p}
        /\ UNCHANGED <<link, protocol, testing, service>>
    BY DEF Attempt
  <2>2. Cardinality(connecting) \in Nat /\ MaxConnecting \in Nat
    BY ConnectingBound, LimitAssumption DEF PoolInv
  <2>3. p \notin connecting /\ Cardinality(connecting) < MaxConnecting
    BY <2>1, <2>2 DEF Unneeded
  <2>. QED
    BY <2>1, <2>3 DEF PoolInv, AttemptsInv
<1>2. CASE link[p] # "closed" /\ ~ProbePending(p)
  <2>1. Ready(p) /\ UNCHANGED connecting /\ probing[p] = 0
    BY <1>2 DEF Attempt, ProbePending, PoolInv, SessionInv
  <2>2. SessionInv' /\ EntriesInv'
    BY <1>1, <1>2, <2>1, ReadyStep DEF PoolInv, SessionInv
  <2>3. AttemptsInv'
    BY <1>1, <2>1 DEF PoolInv, AttemptsInv, ShutdownIsQuiet
  <2>. QED
    BY <2>2, <2>3 DEF PoolInv
<1>3. CASE ~(link[p] # "closed" /\ ~ProbePending(p))
  <2>1. connecting' = connecting \union {p} /\ UNCHANGED <<probing, pool, checks>>
    BY <1>3 DEF Attempt
  <2>2. SessionInv' /\ EntriesInv'
    BY <1>1, <2>1 DEF PoolInv, SessionInv, OneProbeAtATime, TestsEndWithTheirLink,
                      EntriesInv, PoolWithinLimit, Connected, SupportedIsChecked
  <2>3. Cardinality(connecting') <= MaxConnecting
    BY <1>1, <2>1, ConnectingBound DEF PoolInv
  <2>4. AttemptsInv'
    BY <1>1, <2>1, <2>3 DEF PoolInv, AttemptsInv, ShutdownIsQuiet
  <2>. QED
    BY <2>2, <2>4 DEF PoolInv
<1>. QED
  BY <1>2, <1>3

\* A pending connection that times out frees its place.
LEMMA TimeoutStep ==
  ASSUME PoolInv, NEW p \in Peer, Timeout(p)
  PROVE  PoolInv'
<1>1. SessionInv' /\ EntriesInv'
  BY DEF Timeout, PoolInv, SessionInv, OneProbeAtATime, TestsEndWithTheirLink,
         EntriesInv, PoolWithinLimit, Connected, SupportedIsChecked
<1>2. AttemptsInv'
  BY ConnectingBound DEF Timeout, PoolInv, AttemptsInv, ShutdownIsQuiet
<1>. QED
  BY <1>1, <1>2 DEF PoolInv

\* A connection opens a session that is not probed yet.
LEMMA OpenStep ==
  ASSUME PoolInv, NEW p \in Peer, Open(p)
  PROVE  PoolInv'
<1>1. /\ service # "closed" /\ link[p] = "closed" /\ probing[p] = 0
      /\ link' = [link EXCEPT ![p] = "open"]
      /\ UNCHANGED <<protocol, candidates, testing, service>>
  BY DEF Open, PoolInv, SessionInv
<1>2. /\ link' \in [Peer -> {"closed", "open", "ending"}]
      /\ link'[p] = "open" /\ \A q \in Peer \ {p} : link'[q] = link[q]
  BY <1>1 DEF PoolInv, SessionInv
<1>3. CASE p \in connecting
  <2>1. connecting' = connecting \ {p} /\ Ready(p)
    BY <1>3 DEF Open
  <2>2. SessionInv' /\ EntriesInv'
    BY <1>1, <1>2, <2>1, ReadyStep DEF PoolInv
  <2>3. AttemptsInv'
    BY <1>1, <2>1, ConnectingBound DEF PoolInv, AttemptsInv, ShutdownIsQuiet
  <2>. QED
    BY <2>2, <2>3 DEF PoolInv
<1>4. CASE p \notin connecting
  <2>1. UNCHANGED <<connecting, probing, pool, checks>>
    BY <1>4 DEF Open
  <2>2. SessionInv'
    BY <1>1, <1>2, <2>1 DEF PoolInv, SessionInv, OneProbeAtATime, TestsEndWithTheirLink
  <2>3. EntriesInv'
    BY <1>1, <1>2, <2>1 DEF PoolInv, EntriesInv, PoolWithinLimit, Connected, SupportedIsChecked
  <2>4. AttemptsInv'
    BY <1>1, <2>1 DEF PoolInv, AttemptsInv, ShutdownIsQuiet
  <2>. QED
    BY <2>2, <2>3, <2>4 DEF PoolInv
<1>. QED
  BY <1>3, <1>4

\* A message settles the protocol of the session it came over.
LEMMA ReceiveStep ==
  ASSUME PoolInv, NEW p \in Peer, Receive(p)
  PROVE  PoolInv'
<1>1. /\ link[p] # "closed" /\ protocol[p] = "unknown"
      /\ UNCHANGED <<link, candidates, connecting, probing, pool, checks, testing, service>>
  BY DEF Receive
<1>2. /\ protocol' \in [Peer -> {"unknown", "v1", "legacy"}]
      /\ \A q \in Peer \ {p} : protocol'[q] = protocol[q]
  BY DEF Receive, PoolInv, SessionInv
<1>3. pool[p] # "in" /\ testing[p] # "sent"
  BY <1>1 DEF PoolInv, SessionInv, EntriesInv, TestsEndWithTheirLink
<1>4. SessionInv'
  BY <1>1, <1>2, <1>3 DEF PoolInv, SessionInv, OneProbeAtATime, TestsEndWithTheirLink
<1>5. EntriesInv'
  BY <1>1, <1>2, <1>3 DEF PoolInv, EntriesInv, PoolWithinLimit, Connected, SupportedIsChecked
<1>6. AttemptsInv'
  BY <1>1 DEF PoolInv, AttemptsInv, ShutdownIsQuiet
<1>. QED
  BY <1>4, <1>5, <1>6 DEF PoolInv

\* What 'close' and the rejections after it leave: an entry of p for a dead
\* connection at most.
LEMMA CloseStep ==
  ASSUME PoolInv, NEW p \in Peer, Close(p)
  PROVE  PoolInv'
<1>. DEFINE removed == [pool EXCEPT ![p] = "out"]
            kind == IF protocol[p] = "v1" THEN "v1" ELSE "legacy"
            entry == IF kind = "v1" THEN "deadV1" ELSE "dead"
<1>1. /\ link[p] # "closed" /\ (service = "closed" => probing[p] = 0)
      /\ link' = [link EXCEPT ![p] = "closed"]
      /\ protocol' = [protocol EXCEPT ![p] = "unknown"]
      /\ probing' = [probing EXCEPT ![p] = 0]
      /\ testing' = [testing EXCEPT ![p] = "none"]
      /\ UNCHANGED <<candidates, connecting, service>>
      /\ IF probing[p] > 0
         THEN pool' = Added(removed, p, entry) /\ checks' = Scheduled(checks \ {p}, p, kind)
         ELSE pool' = removed /\ checks' = checks \ {p}
  BY DEF Close
<1>2. SessionInv'
  BY <1>1 DEF PoolInv, SessionInv, OneProbeAtATime, TestsEndWithTheirLink
<1>3. /\ removed \in [Peer -> {"out", "in", "dead", "deadV1"}]
      /\ removed[p] = "out" /\ \A q \in Peer \ {p} : removed[q] = pool[q]
      /\ Cardinality(Members(removed)) <= MaxValidators
  BY RemovedKeepsLimit DEF PoolInv, EntriesInv, PoolWithinLimit, Connected, Members
<1>. HIDE DEF removed
<1>4. /\ pool' \in [Peer -> {"out", "in", "dead", "deadV1"}]
      /\ Cardinality(Members(pool')) <= MaxValidators
      /\ pool'[p] # "in" /\ \A q \in Peer \ {p} : pool'[q] = pool[q]
  <2>1. CASE probing[p] > 0
    <3>1. entry \in {"in", "dead", "deadV1"} /\ entry # "in"
      OBVIOUS
    <3>. HIDE DEF entry
    <3>2. pool' = Added(removed, p, entry)
      BY <1>1, <2>1
    <3>3. /\ pool' \in [Peer -> {"out", "in", "dead", "deadV1"}]
          /\ Cardinality(Members(pool')) <= MaxValidators
          /\ \A q \in Peer : q # p => pool'[q] = removed[q]
          /\ pool'[p] \in {"out", entry}
      BY <1>3, <3>1, <3>2, AddedKeepsLimit
    <3>. QED
      BY <1>3, <3>1, <3>3
  <2>2. CASE ~(probing[p] > 0)
    BY <1>1, <1>3, <2>2
  <2>. QED
    BY <2>1, <2>2
<1>5. /\ checks' \in SUBSET Peer
      /\ \A q \in Peer \ {p} : q \in checks' <=> q \in checks
      /\ p \in checks' => probing[p] > 0
  BY <1>1, ScheduledType DEF PoolInv, EntriesInv
<1>6. EntriesInv'
  <2>1. PoolWithinLimit'
    BY <1>4 DEF PoolWithinLimit, Connected, Members
  <2>2. SupportedIsChecked'
    BY <1>1, <1>4, <1>5 DEF SupportedIsChecked, PoolInv, EntriesInv, SessionInv
  <2>3. \A q \in Peer : pool'[q] = "in" => link'[q] # "closed" /\ protocol'[q] # "unknown"
    BY <1>1, <1>4 DEF PoolInv, EntriesInv, SessionInv
  <2>. QED
    BY <1>4, <1>5, <2>1, <2>2, <2>3 DEF EntriesInv
<1>7. AttemptsInv'
  <2>1. ShutdownIsQuiet'
    BY <1>1, <1>5 DEF ShutdownIsQuiet, PoolInv, AttemptsInv, SessionInv
  <2>. QED
    BY <1>1, <2>1 DEF PoolInv, AttemptsInv
<1>. QED
  BY <1>2, <1>6, <1>7 DEF PoolInv

\* The end of a probe adds the peer, by its protocol, if it is still there.
LEMMA ProbedStep ==
  ASSUME PoolInv, NEW p \in Peer, Probed(p)
  PROVE  PoolInv'
<1>1. PICK outcome \in {"v1", "legacy"} :
        LET kind == IF protocol[p] = "unknown" THEN outcome ELSE protocol[p] IN
        /\ protocol' = [protocol EXCEPT ![p] = kind]
        /\ pool' = Added(pool, p, "in")
        /\ checks' = Scheduled(checks, p, kind)
  BY DEF Probed
<1>. DEFINE kind == IF protocol[p] = "unknown" THEN outcome ELSE protocol[p]
<1>2. kind \in {"v1", "legacy"} /\ (protocol[p] # "unknown" => kind = protocol[p])
  BY DEF PoolInv, SessionInv
<1>3. /\ protocol' = [protocol EXCEPT ![p] = kind]
      /\ pool' = Added(pool, p, "in")
      /\ checks' = Scheduled(checks, p, kind)
      /\ probing[p] > 0 /\ probing' = [probing EXCEPT ![p] = @ - 1]
      /\ UNCHANGED <<link, candidates, connecting, testing, service>>
      /\ link[p] # "closed"
  <2>1. /\ probing[p] > 0 /\ probing' = [probing EXCEPT ![p] = @ - 1]
        /\ UNCHANGED <<link, candidates, connecting, testing, service>>
    BY DEF Probed
  <2>2. link[p] # "closed"
    BY <2>1 DEF PoolInv, SessionInv
  <2>. QED
    BY <1>1, <2>1, <2>2
<1>. HIDE DEF kind
<1>4. SessionInv'
  <2>1. /\ protocol' \in [Peer -> {"unknown", "v1", "legacy"}]
        /\ \A q \in Peer : protocol'[q] = protocol[q] \/ (q = p /\ protocol[p] = "unknown")
    BY <1>2, <1>3 DEF PoolInv, SessionInv
  <2>2. probing' \in [Peer -> Nat] /\ \A q \in Peer : probing'[q] <= probing[q]
    BY <1>3 DEF PoolInv, SessionInv
  <2>3. OneProbeAtATime' /\ TestsEndWithTheirLink'
    BY <1>3, <2>1, <2>2 DEF PoolInv, SessionInv, OneProbeAtATime, TestsEndWithTheirLink
  <2>. QED
    BY <1>3, <2>1, <2>2, <2>3 DEF PoolInv, SessionInv
<1>5. /\ pool' \in [Peer -> {"out", "in", "dead", "deadV1"}]
      /\ Cardinality(Members(pool')) <= MaxValidators
      /\ \A q \in Peer : q # p => pool'[q] = pool[q]
  <2>1. /\ Cardinality(Members(pool)) <= MaxValidators
        /\ pool \in [Peer -> {"out", "in", "dead", "deadV1"}]
    BY DEF PoolInv, EntriesInv, PoolWithinLimit, Connected, Members
  <2>. QED
    BY <1>3, <2>1, AddedKeepsLimit
<1>6. /\ checks' \in SUBSET Peer
      /\ \A q \in Peer \ {p} : q \in checks' <=> q \in checks
      /\ kind = "v1" => p \in checks'
  BY <1>3, ScheduledType DEF PoolInv, EntriesInv
<1>7. EntriesInv'
  <2>1. PoolWithinLimit'
    BY <1>5 DEF PoolWithinLimit, Connected, Members
  <2>2. protocol'[p] = kind /\ \A q \in Peer \ {p} : protocol'[q] = protocol[q]
    BY <1>3 DEF PoolInv, SessionInv
  <2>3. SupportedIsChecked'
    BY <1>3, <1>5, <1>6, <2>2 DEF SupportedIsChecked, PoolInv, EntriesInv
  <2>4. \A q \in Peer : pool'[q] = "in" => link'[q] # "closed" /\ protocol'[q] # "unknown"
    BY <1>2, <1>3, <1>5, <2>2 DEF PoolInv, EntriesInv
  <2>. QED
    BY <1>5, <1>6, <2>1, <2>3, <2>4 DEF EntriesInv
<1>8. AttemptsInv'
  BY <1>3, <1>6 DEF PoolInv, AttemptsInv, ShutdownIsQuiet
<1>. QED
  BY <1>4, <1>7, <1>8 DEF PoolInv

\* A check ends with its peer's entry or begins a request over the link.
LEMMA CheckStep ==
  ASSUME PoolInv, NEW p \in Peer, Check(p)
  PROVE  PoolInv'
<1>1. /\ testing[p] = "none"
      /\ UNCHANGED <<link, protocol, candidates, connecting, probing, pool, service>>
      /\ \/ pool[p] = "out" /\ checks' = checks \ {p} /\ UNCHANGED testing
         \/ /\ pool[p] = "in" /\ protocol[p] = "v1"
            /\ testing' = [testing EXCEPT ![p] = "sent"] /\ UNCHANGED checks
         \/ testing' = [testing EXCEPT ![p] = "lost"] /\ UNCHANGED checks
  BY DEF Check
<1>2. SessionInv'
  BY <1>1 DEF PoolInv, SessionInv, EntriesInv, OneProbeAtATime, TestsEndWithTheirLink
<1>3. EntriesInv'
  BY <1>1 DEF PoolInv, EntriesInv, PoolWithinLimit, Connected, SupportedIsChecked
<1>4. AttemptsInv'
  BY <1>1 DEF PoolInv, AttemptsInv, ShutdownIsQuiet
<1>. QED
  BY <1>2, <1>3, <1>4 DEF PoolInv

\* ConnectionManager.remove ends a connection, it does not close it.
LEMMA RemoveStep ==
  ASSUME PoolInv, NEW p \in Peer, Remove(p),
         UNCHANGED <<protocol, candidates, connecting, probing, service>>,
         testing' \in [Peer -> {"none", "sent", "lost"}],
         \A q \in Peer : testing'[q] \in {"none", testing[q]}
  PROVE  PoolInv'
<1>1. /\ pool' = [pool EXCEPT ![p] = "out"]
      /\ checks' = checks \ {p}
      /\ link' \in [Peer -> {"closed", "open", "ending"}]
      /\ \A q \in Peer : link'[q] = "closed" <=> link[q] = "closed"
  BY DEF Remove, PoolInv, SessionInv
<1>2. SessionInv'
  BY <1>1 DEF PoolInv, SessionInv, OneProbeAtATime, TestsEndWithTheirLink
<1>3. Cardinality(Members(pool')) <= MaxValidators
  BY <1>1, RemovedKeepsLimit DEF PoolInv, EntriesInv, PoolWithinLimit, Connected, Members
<1>4. EntriesInv'
  BY <1>1, <1>3 DEF PoolInv, EntriesInv, PoolWithinLimit, Connected, Members, SupportedIsChecked
<1>5. AttemptsInv'
  BY <1>1 DEF PoolInv, EntriesInv, AttemptsInv, ShutdownIsQuiet
<1>. QED
  BY <1>2, <1>4, <1>5 DEF PoolInv

\* A failed health check takes the peer out, a good one changes nothing.
LEMMA TestedStep ==
  ASSUME PoolInv, NEW p \in Peer, Tested(p)
  PROVE  PoolInv'
<1>1. /\ testing' = [testing EXCEPT ![p] = "none"]
      /\ UNCHANGED <<protocol, candidates, connecting, probing, service>>
  BY DEF Tested
<1>2. /\ testing' \in [Peer -> {"none", "sent", "lost"}]
      /\ \A q \in Peer : testing'[q] \in {"none", testing[q]}
  BY <1>1 DEF PoolInv, SessionInv
<1>3. CASE Remove(p)
  BY <1>1, <1>2, <1>3, RemoveStep
<1>4. CASE UNCHANGED <<link, pool, checks>>
  <2>1. SessionInv'
    BY <1>1, <1>2, <1>4 DEF PoolInv, SessionInv, OneProbeAtATime, TestsEndWithTheirLink
  <2>2. EntriesInv'
    BY <1>1, <1>4 DEF PoolInv, EntriesInv, PoolWithinLimit, Connected, SupportedIsChecked
  <2>3. AttemptsInv'
    BY <1>1, <1>4 DEF PoolInv, AttemptsInv, ShutdownIsQuiet
  <2>. QED
    BY <2>1, <2>2, <2>3 DEF PoolInv
<1>. QED
  BY <1>3, <1>4 DEF Tested

\* Who asks for a peer's removal need not know its state.
LEMMA DismissStep ==
  ASSUME PoolInv, NEW p \in Peer, Dismiss(p)
  PROVE  PoolInv'
  BY RemoveStep DEF Dismiss, PoolInv, SessionInv

\* The shutdown ends checks and attempts.
LEMMA CloseDownStep ==
  ASSUME PoolInv, StopObserver \/ Shutdown
  PROVE  PoolInv'
<1>1. SessionInv'
  BY DEF StopObserver, Shutdown, PoolInv, SessionInv, OneProbeAtATime, TestsEndWithTheirLink
<1>2. EntriesInv'
  BY DEF StopObserver, Shutdown, PoolInv, EntriesInv, PoolWithinLimit, Connected,
         SupportedIsChecked
<1>3. AttemptsInv'
  BY FS_EmptySet, LimitAssumption
     DEF StopObserver, Shutdown, PoolInv, AttemptsInv, ShutdownIsQuiet
<1>. QED
  BY <1>1, <1>2, <1>3 DEF PoolInv

\* The invariant holds in every reachable state.
LEMMA PoolInvariant == Spec => []PoolInv
<1>1. PoolInv /\ [Next]_vars => PoolInv'
  <2>. SUFFICES ASSUME PoolInv, [Next]_vars PROVE PoolInv'
    OBVIOUS
  <2>1. ASSUME NEW p \in Peer, Step(p) PROVE PoolInv'
    BY <2>1, SkipStep, AttemptStep, TimeoutStep, OpenStep, ReceiveStep, CloseStep,
       ProbedStep, CheckStep, TestedStep, DismissStep DEF Step
  <2>2. CASE UNCHANGED vars
    BY <2>2 DEF vars, PoolInv, SessionInv, OneProbeAtATime, TestsEndWithTheirLink, EntriesInv,
                PoolWithinLimit, Connected, SupportedIsChecked, AttemptsInv, ShutdownIsQuiet
  <2>. QED
    BY <2>1, <2>2, ObserveStep, CloseDownStep DEF Next
<1>. QED
  BY <1>1, PoolInvInit, PTL DEF Spec

-----------------------------------------------------------------------------
(* The theorems *)

\* The state stays of its type; among the rest, #pendingConnections never
\* exceeds #maxPendingConnections.
THEOREM TypeCorrect == Spec => []TypeOK
<1>1. PoolInv => TypeOK
  BY DEF PoolInv, SessionInv, EntriesInv, AttemptsInv, TypeOK
<1>. QED
  BY <1>1, PoolInvariant, PTL

\* However many attempts, probes and removals are under way at once,
\* addValidator never takes the pool above maxValidators.
THEOREM WithinLimit == Spec => []PoolWithinLimit
<1>1. PoolInv => PoolWithinLimit
  BY DEF PoolInv, EntriesInv
<1>. QED
  BY <1>1, PoolInvariant, PTL

\* No two READY handlers ever await the probe of one connection.
THEOREM ProbedOnce == Spec => []OneProbeAtATime
<1>1. PoolInv => OneProbeAtATime
  BY DEF PoolInv, SessionInv
<1>. QED
  BY <1>1, PoolInvariant, PTL

\* A validator in the pool whose session speaks v1 has a health check timer,
\* through any closings, reconnections and late probes.
THEOREM SupportedChecked == Spec => []SupportedIsChecked
<1>1. PoolInv => SupportedIsChecked
  BY DEF PoolInv, EntriesInv
<1>. QED
  BY <1>1, PoolInvariant, PTL

\* After Network._close no connection is pending, and the timers left belong
\* to connections that the swarm has yet to close.
THEOREM QuietAfterShutdown == Spec => []ShutdownIsQuiet
<1>1. PoolInv => ShutdownIsQuiet
  BY DEF PoolInv, AttemptsInv
<1>. QED
  BY <1>1, PoolInvariant, PTL

\* A health check request that was sent ends before its connection does.
THEOREM TestsEnd == Spec => []TestsEndWithTheirLink
<1>1. PoolInv => TestsEndWithTheirLink
  BY DEF PoolInv, SessionInv
<1>. QED
  BY <1>1, PoolInvariant, PTL
=============================================================================
