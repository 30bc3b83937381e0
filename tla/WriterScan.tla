------------------------------ MODULE WriterScan ------------------------------
(***************************************************************************)
(* How the observer finds the validators it connects to: the scan of the   *)
(* base's writers in ValidatorObserverService (#scanAutobaseWriters), read *)
(* off the state of Ledger.                                                *)
(*                                                                         *)
(* The scan awaits a registry entry per key.  It is one step here because  *)
(* the list is a snapshot and a registry entry never changes, which is     *)
(* KeyOwnershipIsPermanent.                                                *)
(***************************************************************************)
EXTENDS Ledger, Functions

CONSTANT KeyOrder  \* the writing keys in the order of their bytes

ASSUME KeyOrderAssumption ==
  KeyOrder \in Seq(Key) /\ IsInjective(KeyOrder) /\ Range(KeyOrder) = Key

\* The keys that base.system.list() yields.  A key stays listed after it was
\* removed from the base; all that were ever added by #apply are registered.
Listed == {k \in Key : owner[k] # NoAddress}

BuggyScanKey(found, k) ==
  IF k \notin Listed \/ (k \in indexers /\ owner[k] # admin.addr) THEN found
  ELSE found \union {owner[k]}

\* What one key does to the map of active writers: keys that nobody registered
\* and keys of indexers other than the admin are passed over, a removed key
\* takes its address out.
ScanKey(found, k) ==
  IF k \notin Listed \/ (k \in indexers /\ owner[k] # admin.addr) THEN found
  ELSE IF k \in writers THEN found \union {owner[k]}
  ELSE found \ {owner[k]}

\* The map after the first n keys
FoundWithin[n \in 0 .. Len(KeyOrder)] ==
  IF n = 0 THEN {} ELSE ScanKey(FoundWithin[n - 1], KeyOrder[n])

\* The addresses the scan returns
Found == FoundWithin[Len(KeyOrder)]

\* The addresses whose connections the scan ends: #enforceNoStaleConnections
Dropped == {owner[k] : k \in Listed \ writers}

-----------------------------------------------------------------------------
\* Who may be offered as a validator at all
IsCandidate(a) == IsWriter(a) /\ (IsIndexer(a) => a = admin.addr)

KeysOf(a) == {k \in Key : owner[k] = a}

\* The scan offers current writers only, whichever keys they used, left, were
\* banned at or moved on from before.
FoundAreCandidates == \A a \in Found : IsCandidate(a)

\* A validator that has kept to one key is found and stays connected, through
\* any number of leaves, bans and returns.
LoyalWritersAreFound ==
  \A a \in Address :
    IsCandidate(a) /\ Cardinality(KeysOf(a)) = 1 => a \in Found \ Dropped

\* What the observer is offered by #scanAutobaseWriters is never anybody but a
\* current validator, and never lacks one that has kept to one key.
ScanIsFaithful == FoundAreCandidates /\ LoyalWritersAreFound

\* #scanAutobaseWriters says that it returns the deduplicated array of active
\* writers, whatever keys they had before.
CandidatesAreFound == \A a \in Address : IsCandidate(a) => a \in Found
=============================================================================
