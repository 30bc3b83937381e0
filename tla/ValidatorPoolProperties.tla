------------------------ MODULE ValidatorPoolProperties ------------------------
(***************************************************************************)
(* What a node expects of its pool of validators.                          *)
(***************************************************************************)
EXTENDS ValidatorPool

\* The pool keeps to its limit although the observer counts its slots before
\* a cycle of attempts and each attempt awaits a probe before it adds.
PoolWithinLimit == Cardinality(Connected) <= MaxValidators

\* A session is probed by one handler at a time: tryConnect does not use a
\* connection whose probe is under way, however often the observer tries it.
OneProbeAtATime == \A p \in Peer : probing[p] <= 1

\* A validator that answers health checks is being checked, whatever removals,
\* reconnections and late answers came before: none of them stops the timer
\* of a validator that stays in the pool.
SupportedIsChecked ==
  \A p \in Peer :
    pool[p] = "in" /\ protocol[p] = "v1" /\ service # "closed" => p \in checks

\* After the shutdown no timer is left that could wake the node up again but
\* those that probes it cancels start, and closing the connection, which the
\* swarm still has to do, stops these.
ShutdownIsQuiet ==
  service = "closed" => connecting = {} /\ \A p \in checks : link[p] # "closed"

\* A health check request over a live connection never outlives it, so its
\* late failure cannot remove the next connection, of which it says nothing.
TestsEndWithTheirLink ==
  \A p \in Peer : testing[p] = "sent" => link[p] # "closed" /\ protocol[p] = "v1"

\* The checks of a peer that was not added, or is gone, come to an end unless
\* the peer gets into the pool.
StrayChecksStop ==
  \A p \in Peer : p \in checks /\ pool[p] = "out" ~> p \notin checks \/ pool[p] # "out"

\* A peer that stays connected gets into the pool as long as there is room.
OpenPeersJoin ==
  \A p \in Peer :
    <>[](service = "running" /\ link[p] = "open" /\ HasRoom) => []<>(pool[p] # "out")

-----------------------------------------------------------------------------
(* What the repository says and the code does not do *)

\* ConnectionManager calls connectedValidators the list of all currently
\* connected validators.
ConnectedAreConnected == \A p \in Connected : link[p] # "closed"
=============================================================================
