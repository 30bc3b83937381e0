-------------------------- MODULE LedgerEntryProofs --------------------------
(***************************************************************************)
(* What the node entries of Ledger and the records that lead to them       *)
(* promise, for every set of addresses, keys, hashes and amounts: licences *)
(* are issued once, the writers index has every writer, a writing key      *)
(* never changes hands, and only the admin lifts a ban.                    *)
(***************************************************************************)
EXTENDS LedgerProofs

-----------------------------------------------------------------------------
(* The invariant, and what a step may do *)

\* An address without an entry has no licence and no key yet: a balance
\* initialization and a transfer make its entry afresh.
Blank == \A a \in Address : ~Exists(a) => node[a].license = 0 /\ node[a].wk = ZeroKey

EntryInv == IndexesMatchEntries /\ Blank

\* No licence is issued.
SameLicenses ==
  /\ UNCHANGED licenses
  /\ \A a \in Address : node'[a].license = node[a].license

\* x gets the next licence.
Issued(x) ==
  /\ licenses' = Append(licenses, x)
  /\ node[x].license = 0 /\ node'[x].license = Len(licenses) + 1
  /\ \A a \in Address \ {x} : node'[a].license = node[a].license

\* Nobody but those in S becomes a writer.
NoWriterBut(S) == \A a \in Address \ S : IsWriter(a)' => IsWriter(a)

\* Nobody but those in S gets onto the whitelist, or a first licence.
AdmitsOnly(S) ==
  \A a \in Address \ S :
    /\ IsWhitelisted(a)' => IsWhitelisted(a)
    /\ node[a].license = 0 => node'[a].license = 0

\* No key changes hands, no entry is deleted, and a reader stays one unless
\* the admin whitelists it.
Careful ==
  /\ \A k \in Key : owner[k] # NoAddress => owner'[k] = owner[k]
  /\ \A a \in Address :
       /\ node'[a].wk # node[a].wk => owner[node'[a].wk] = NoAddress /\ Exists(a)'
       /\ Exists(a) => Exists(a)'
       /\ node[a].role = "READER" /\ node'[a].role # "READER"
          => batch.from = admin.wk /\ node'[a].role = "WHITELISTED"

\* Licences that stay as they are still match.
LEMMA LicensesStand ==
  ASSUME TypeOK, EntryInv, SameLicenses, Careful
  PROVE  LicensesMatchEntries' /\ Blank'
<1>1. \A n \in DOMAIN licenses : licenses[n] \in Address
  BY DEF TypeOK, LedgerTypeOK
<1>2. LicensesMatchEntries'
  BY <1>1 DEF EntryInv, IndexesMatchEntries, LicensesMatchEntries, SameLicenses
<1>3. Blank'
  BY DEF EntryInv, Blank, SameLicenses, Careful
<1>. QED
  BY <1>2, <1>3

\* A licence issued to a node that had none matches.
LEMMA LicenseIssued ==
  ASSUME TypeOK, EntryInv, NEW x \in Address, Issued(x), Exists(x)', Careful
  PROVE  LicensesMatchEntries' /\ Blank'
<1>1. /\ licenses \in Seq(Address) /\ Len(licenses) \in Nat
      /\ DOMAIN licenses = 1 .. Len(licenses)
      /\ \A n \in DOMAIN licenses : licenses[n] \in Address
  BY DEF TypeOK, LedgerTypeOK
<1>2. /\ DOMAIN licenses' = 1 .. Len(licenses) + 1
      /\ \A n \in DOMAIN licenses : licenses'[n] = licenses[n]
      /\ licenses'[Len(licenses) + 1] = x
  BY <1>1 DEF Issued
<1>3. \A n \in DOMAIN licenses : licenses[n] # x
  <2>1. \A n \in DOMAIN licenses : node[licenses[n]].license = n /\ n # 0
    BY <1>1 DEF EntryInv, IndexesMatchEntries, LicensesMatchEntries
  <2>. QED
    BY <2>1 DEF Issued
<1>4. \A n \in DOMAIN licenses' : node'[licenses'[n]].license = n
  <2>. SUFFICES ASSUME NEW n \in DOMAIN licenses' PROVE node'[licenses'[n]].license = n
    OBVIOUS
  <2>1. CASE n = Len(licenses) + 1
    BY <1>2, <2>1 DEF Issued
  <2>2. CASE n \in DOMAIN licenses
    BY <1>1, <1>2, <1>3, <2>2 DEF Issued, EntryInv, IndexesMatchEntries, LicensesMatchEntries
  <2>. QED
    BY <1>1, <1>2, <2>1, <2>2
<1>5. \A a \in Address : node'[a].license # 0 =>
        node'[a].license \in DOMAIN licenses' /\ licenses'[node'[a].license] = a
  <2>. SUFFICES ASSUME NEW a \in Address, node'[a].license # 0
                PROVE  node'[a].license \in DOMAIN licenses' /\ licenses'[node'[a].license] = a
    OBVIOUS
  <2>1. CASE a = x
    BY <1>1, <1>2, <2>1 DEF Issued
  <2>2. CASE a # x
    <3>1. node'[a].license = node[a].license
      BY <2>2 DEF Issued
    <3>2. node[a].license \in DOMAIN licenses /\ licenses[node[a].license] = a
      BY <3>1 DEF EntryInv, IndexesMatchEntries, LicensesMatchEntries
    <3>. QED
      BY <1>1, <1>2, <3>1, <3>2
  <2>. QED
    BY <2>1, <2>2
<1>6. Blank'
  BY DEF EntryInv, Blank, Issued, Careful
<1>. QED
  BY <1>4, <1>5, <1>6 DEF LicensesMatchEntries

\* Without new writers, the writers index as it is has all of them.
LEMMA WritersStandIndexed ==
  ASSUME EntryInv, UNCHANGED writersIndex, NoWriterBut({})
  PROVE  WritersAreIndexed'
  BY DEF EntryInv, IndexesMatchEntries, WritersAreIndexed, NoWriterBut

\* A new writer that takes the next slot is found, and so are the others.
LEMMA WriterIndexed ==
  ASSUME TypeOK, EntryInv, NEW x \in Address, IndexWriter(x), NoWriterBut({x})
  PROVE  WritersAreIndexed'
<1>1. /\ DOMAIN writersIndex' = 1 .. Len(writersIndex) + 1
      /\ DOMAIN writersIndex = 1 .. Len(writersIndex) /\ Len(writersIndex) \in Nat
      /\ \A i \in DOMAIN writersIndex : writersIndex'[i] = writersIndex[i]
      /\ writersIndex'[Len(writersIndex) + 1] = x
  BY DEF TypeOK, LedgerTypeOK, IndexWriter
<1>. SUFFICES ASSUME NEW a \in Address, IsWriter(a)'
              PROVE  \E i \in DOMAIN writersIndex' : writersIndex'[i] = a
  BY DEF WritersAreIndexed
<1>2. CASE a = x
  BY <1>1, <1>2
<1>3. CASE a # x
  <2>1. PICK i \in DOMAIN writersIndex : writersIndex[i] = a
    BY <1>3 DEF EntryInv, IndexesMatchEntries, WritersAreIndexed, NoWriterBut
  <2>2. i \in DOMAIN writersIndex' /\ writersIndex'[i] = a
    BY <1>1, <2>1
  <2>. QED
    BY <2>2
<1>. QED
  BY <1>2, <1>3

\* A step that issues nothing and makes nobody a writer keeps the invariant.
LEMMA QuietStep ==
  ASSUME TypeOK, EntryInv, SameLicenses, UNCHANGED writersIndex, NoWriterBut({}), Careful
  PROVE  EntryInv'
  BY LicensesStand, WritersStandIndexed DEF EntryInv, IndexesMatchEntries

\* An entry as it changes in a quiet step: licence and key stay, and so does
\* the role, or it falls.
Kept(old, new) ==
  /\ new.license = old.license
  /\ new.wk = old.wk
  /\ new.role \in {"WRITER", "INDEXER"} => old.role \in {"WRITER", "INDEXER"}
  /\ new.role = "WHITELISTED" => old.role \in {"WHITELISTED", "WRITER", "INDEXER"}
  /\ old.role # "ABSENT" => new.role # "ABSENT"
  /\ old.role = "READER" => new.role = "READER"

\* If that is how all of them change, the step is quiet.
LEMMA KeptStep ==
  ASSUME TypeOK, EntryInv, UNCHANGED <<owner, licenses, writersIndex>>,
         \A a \in Address : Kept(node[a], node'[a])
  PROVE  EntryInv' /\ Careful /\ AdmitsOnly({})
<1>1. SameLicenses /\ NoWriterBut({})
  BY DEF SameLicenses, NoWriterBut, Kept, IsWriter
<1>2. Careful
  BY DEF Careful, Kept, Exists
<1>3. AdmitsOnly({})
  BY DEF AdmitsOnly, Kept, IsWhitelisted
<1>. QED
  BY <1>1, <1>2, <1>3, QuietStep

\* A step that admits nobody admits at most the members of any set.
LEMMA AdmitsNobody == AdmitsOnly({}) => \A S : AdmitsOnly(S)
  BY DEF AdmitsOnly

\* A step that leaves the entries and their records alone
LEMMA UntouchedStep ==
  ASSUME TypeOK, EntryInv, UNCHANGED <<node, owner, licenses, writersIndex>>
  PROVE  EntryInv' /\ Careful /\ AdmitsOnly({})
  BY KeptStep DEF Kept

\* A node that is refused changes no entry.
LEMMA RefusedStep ==
  ASSUME TypeOK, EntryInv, NEW s, Refused(s)
  PROVE  EntryInv' /\ Careful /\ AdmitsOnly({})
  BY UntouchedStep DEF Refused, ledger

-----------------------------------------------------------------------------
(* The operations that keep to the entries there are *)

\* An entry whose balance is credited or debited is kept.
LEMMA BalanceKept ==
  ASSUME NEW e \in NodeEntry, NEW x
  PROVE  Kept(e, Credit(e, x)) /\ Kept(e, Debit(e, x))
  BY DEF Credit, Debit, NodeEntry, Kept

\* amount.update of an entry, or a new one for the address of a reader
LEMMA InitializeBalanceEntries ==
  ASSUME TypeOK, EntryInv, NEW tx \in Tx, NEW r \in Address, NEW to \in Address,
         NEW amount \in Grant, InitializeBalance(tx, r, to, amount)
  PROVE  EntryInv' /\ Careful /\ AdmitsOnly({})
<1>1. CASE Refused(InitializeBalanceStatus(tx, r))
  BY <1>1, RefusedStep
<1>2. CASE ~Refused(InitializeBalanceStatus(tx, r))
  <2>. DEFINE entry == IF Exists(to) THEN [node[to] EXCEPT !.balance = amount]
                       ELSE [NoEntry EXCEPT !.role = "READER", !.balance = amount]
  <2>1. node' = [node EXCEPT ![to] = entry] /\ UNCHANGED <<owner, licenses, writersIndex>>
    BY <1>2, Zenon DEF InitializeBalance
  <2>2. node \in [Address -> NodeEntry]
    BY DEF TypeOK, LedgerTypeOK
  <2>3. Kept(node[to], entry)
    <3>1. CASE Exists(to)
      BY <2>2, <3>1 DEF Kept, NodeEntry
    <3>2. CASE ~Exists(to)
      BY <3>2 DEF Kept, NoEntry, Exists, EntryInv, Blank
    <3>. QED
      BY <3>1, <3>2
  <2>. HIDE DEF entry
  <2>4. \A a \in Address : Kept(node[a], node'[a])
    BY <2>1, <2>2, <2>3 DEF Kept
  <2>. QED
    BY <2>1, <2>4, KeptStep
<1>. QED
  BY <1>1, <1>2

\* #handleApplyDisableBalanceInitializationOperation touches no entry.
LEMMA DisableInitializationEntries ==
  ASSUME TypeOK, EntryInv, NEW tx \in Tx, NEW r \in Address, DisableInitialization(tx, r)
  PROVE  EntryInv' /\ Careful /\ AdmitsOnly({})
  BY RefusedStep, UntouchedStep DEF DisableInitialization

\* Two entries change, as those of a requester and a validator do.
LEMMA PairStep ==
  ASSUME TypeOK, EntryInv, NEW r \in Address, NEW v \in Address, NEW entry, NEW paid,
         node' = [node EXCEPT ![r] = entry, ![v] = paid],
         Kept(node[r], entry), Kept(node[v], paid),
         UNCHANGED <<owner, licenses, writersIndex>>
  PROVE  EntryInv' /\ Careful /\ AdmitsOnly({})
<1>1. \A a \in Address : Kept(node[a], node'[a])
  BY DEF TypeOK, LedgerTypeOK, Kept
<1>. QED
  BY <1>1, KeptStep

\* A leave changes a role, a stake and two balances.
LEMMA RemoveWriterEntries ==
  ASSUME TypeOK, EntryInv, NEW tx \in Tx, NEW r \in Address, NEW iw \in Key,
         NEW v \in Address, RemoveWriter(tx, r, iw, v)
  PROVE  EntryInv' /\ Careful /\ AdmitsOnly({})
<1>. DEFINE status == RemoveWriterStatus(tx, r, iw, v)
<1>1. CASE Refused(status)
  BY <1>1, RefusedStep
<1>2. CASE ~Refused(status)
  <2>. DEFINE withdrawn == WithdrawStake(Debit(node[r], Fee))
              entry == [withdrawn EXCEPT !.role = "WHITELISTED"]
              paid == Credit(node[v], Share(75))
  <2>1. /\ Stored(tx, status)
        /\ node' = [node EXCEPT ![r] = entry, ![v] = paid]
        /\ UNCHANGED <<owner, licenses, writersIndex>>
    BY <1>2, Zenon DEF RemoveWriter
  <2>2. Kept(node[r], entry) /\ Kept(node[v], paid)
    <3>1. IsWriter(r)
      BY <2>1 DEF Stored, RemoveWriterStatus, MayLeave
    <3>. QED
      BY <3>1 DEF IsWriter, Kept, WithdrawStake, Credit, Debit, NodeEntry, TypeOK, LedgerTypeOK
  <2>. HIDE DEF entry, paid
  <2>. QED
    BY <2>1, <2>2, PairStep
<1>. QED
  BY <1>1, <1>2

\* A deployment costs one balance and pays another.
LEMMA BootstrapDeploymentEntries ==
  ASSUME TypeOK, EntryInv, NEW tx \in Tx, NEW r \in Address, NEW bs \in Subnet,
         NEW v \in Address, BootstrapDeployment(tx, r, bs, v)
  PROVE  EntryInv' /\ Careful /\ AdmitsOnly({})
<1>. DEFINE status == BootstrapDeploymentStatus(tx, r, bs, v)
<1>1. CASE Refused(status)
  BY <1>1, RefusedStep
<1>2. CASE ~Refused(status)
  <2>. DEFINE entry == Debit(node[r], Fee)
              paid == Credit(node[v], Share(75))
  <2>1. /\ node' = [node EXCEPT ![r] = entry, ![v] = paid]
        /\ UNCHANGED <<owner, licenses, writersIndex>>
    BY <1>2, Zenon DEF BootstrapDeployment
  <2>2. Kept(node[r], entry) /\ Kept(node[v], paid)
    BY BalanceKept DEF Kept, TypeOK, LedgerTypeOK
  <2>. HIDE DEF entry, paid
  <2>. QED
    BY <2>1, <2>2, PairStep
<1>. QED
  BY <1>1, <1>2

\* A subnetwork's transaction pays a third node besides.
LEMMA TxOperationEntries ==
  ASSUME TypeOK, EntryInv, NEW tx \in Tx, NEW r \in Address, NEW bs \in Subnet,
         NEW v \in Address, TxOperation(tx, r, bs, v)
  PROVE  EntryInv' /\ Careful /\ AdmitsOnly({})
<1>. DEFINE status == TxStatus(tx, r, bs, v)
            creator == deployment[bs]
            entry == Debit(node[r], Fee)
            paid == Credit(node[v], Share(50))
            charged == [node EXCEPT ![r] = entry, ![v] = paid]
            share == CreatorShare(r, creator)
            shared == [charged[creator] EXCEPT !.balance = charged[creator].balance + share]
<1>1. CASE Refused(status)
  BY <1>1, RefusedStep
<1>2. CASE ~Refused(status)
  <2>1. node' = [charged EXCEPT ![creator] = Credit(charged[creator], share)]
        /\ UNCHANGED <<owner, licenses, writersIndex>>
    BY <1>2, Zenon DEF TxOperation, PayTxFee
  <2>2. /\ Kept(node[r], entry) /\ Kept(node[v], paid)
        /\ DOMAIN entry = DOMAIN node[r] /\ DOMAIN paid = DOMAIN node[v]
        /\ DOMAIN node = Address
    BY BalanceKept DEF Kept, Credit, Debit, TypeOK, LedgerTypeOK
  <2>. HIDE DEF entry, paid
  <2>3. /\ DOMAIN charged = Address
        /\ \A a \in Address : Kept(node[a], charged[a]) /\ DOMAIN charged[a] = DOMAIN node[a]
    BY <2>2 DEF TypeOK, LedgerTypeOK, Kept
  <2>. HIDE DEF charged
  <2>4. ASSUME NEW a \in Address PROVE Kept(node[a], node'[a])
    <3>1. CASE a # creator
      BY <2>1, <2>3, <3>1
    <3>2. CASE a = creator
      <4>1. node'[a] = shared
        BY <2>1, <2>3, <3>2 DEF Credit
      <4>2. {"license", "wk", "role", "balance"} \subseteq DOMAIN charged[a]
        BY <2>3 DEF TypeOK, LedgerTypeOK, NodeEntry
      <4>3. /\ shared.license = charged[a].license /\ shared.wk = charged[a].wk
            /\ shared.role = charged[a].role
        BY <3>2, <4>2
      <4>. QED
        BY <2>3, <4>1, <4>3 DEF Kept
    <3>. QED
      BY <3>1, <3>2
  <2>. QED
    BY <2>1, <2>4, KeptStep
<1>. QED
  BY <1>1, <1>2

\* A recipient of a transfer keeps its licence; without an entry it has none.
LEMMA TransferEntries ==
  ASSUME TypeOK, EntryInv, NEW tx \in Tx, NEW r \in Address, NEW to \in Address,
         NEW amount \in Amount, NEW v \in Address, Transfer(tx, r, to, amount, v)
  PROVE  EntryInv' /\ Careful /\ AdmitsOnly({})
<1>. DEFINE status == TransferStatus(tx, r, to, amount, v)
            cost == Deducted(r, to, amount)
            entry == Debit(node[r], cost)
            paid == Credit(node[v], Share(75))
            charged == [node EXCEPT ![r] = entry, ![v] = paid]
            received == Receive(charged[to], amount)
<1>1. CASE Refused(status)
  BY <1>1, RefusedStep
<1>2. CASE Throw
  BY <1>2, UntouchedStep DEF Throw, ledger
<1>3. CASE ~Refused(status) /\ ~Throw
  <2>1. /\ node' = Pay(r, to, amount, v)
        /\ UNCHANGED <<owner, licenses, writersIndex>>
    BY <1>3, Zenon DEF Transfer
  <2>2. node' = IF to = r THEN charged ELSE [charged EXCEPT ![to] = received]
    BY <2>1, Zenon DEF Pay
  <2>3. /\ Kept(node[r], entry) /\ Kept(node[v], paid)
        /\ DOMAIN entry = DOMAIN node[r] /\ DOMAIN paid = DOMAIN node[v]
    BY BalanceKept DEF Kept, Credit, Debit, TypeOK, LedgerTypeOK
  <2>. HIDE DEF entry, paid
  <2>4. /\ DOMAIN charged = Address
        /\ \A a \in Address : Kept(node[a], charged[a]) /\ DOMAIN charged[a] = DOMAIN node[a]
    BY <2>3 DEF TypeOK, LedgerTypeOK, Kept
  <2>. HIDE DEF charged
  <2>5. Kept(charged[to], received)
    <3>1. {"license", "wk", "role", "balance"} \subseteq DOMAIN charged[to]
      BY <2>4 DEF TypeOK, LedgerTypeOK, NodeEntry
    <3>2. /\ received.license = charged[to].license /\ received.wk = charged[to].wk
          /\ received.role = IF charged[to].role = "ABSENT" THEN "READER" ELSE charged[to].role
      BY <3>1 DEF Receive, Credit
    <3>. QED
      BY <3>2 DEF Kept
  <2>. HIDE DEF received
  <2>6. \A a \in Address : Kept(node[a], node'[a])
    BY <2>2, <2>4, <2>5 DEF Kept
  <2>. QED
    BY <2>1, <2>6, KeptStep
<1>. QED
  BY <1>1, <1>2, <1>3

\* The admin pays for a change of another entry, or takes it back.
LEMMA ChargeKept ==
  ASSUME TypeOK, NEW to \in Address, NEW entry, Kept(node[to], entry),
         ChargeAdmin([node EXCEPT ![to] = entry])
  PROVE  \A a \in Address : Kept(node[a], node'[a])
<1>. DEFINE paid == Debit(node[admin.addr], Fee)
            changed == [node EXCEPT ![to] = entry]
<1>1. node' = [changed EXCEPT ![admin.addr] = paid]
  BY DEF ChargeAdmin
<1>2. DOMAIN changed = Address /\ \A a \in Address : Kept(node[a], changed[a])
  BY DEF TypeOK, LedgerTypeOK, Kept
<1>3. admin.addr \in Address => Kept(node[admin.addr], paid)
  BY BalanceKept DEF Kept, TypeOK, LedgerTypeOK
<1>. HIDE DEF paid, changed
<1>. QED
  BY <1>1, <1>2, <1>3

\* A promotion is of a writer that the index has.
LEMMA AddIndexerEntries ==
  ASSUME TypeOK, EntryInv, NEW tx \in Tx, NEW r \in Address, NEW to \in Address,
         AddIndexer(tx, r, to)
  PROVE  EntryInv' /\ Careful /\ AdmitsOnly({})
<1>. DEFINE status == AddIndexerStatus(tx, r, to)
<1>1. CASE Refused(status)
  BY <1>1, RefusedStep
<1>2. CASE ~Refused(status)
  <2>. DEFINE entry == [node[to] EXCEPT !.role = "INDEXER"]
  <2>1. /\ Stored(tx, status)
        /\ ChargeAdmin([node EXCEPT ![to].role = "INDEXER"])
        /\ UNCHANGED <<owner, licenses, writersIndex>>
    BY <1>2, Zenon DEF AddIndexer
  <2>2. IsWriter(to)
    BY <2>1, AdminStatusSuccess DEF Stored, AddIndexerStatus
  <2>3. Kept(node[to], entry)
    BY <2>2 DEF Kept, IsWriter, TypeOK, LedgerTypeOK, NodeEntry
  <2>4. \A a \in Address : Kept(node[a], node'[a])
    BY <2>1, <2>3, ChargeKept
  <2>. QED
    BY <2>1, <2>4, KeptStep
<1>. QED
  BY <1>1, <1>2

\* A demotion leaves a writer, and lists it once more.
LEMMA RemoveIndexerEntries ==
  ASSUME TypeOK, EntryInv, NEW tx \in Tx, NEW r \in Address, NEW to \in Address,
         RemoveIndexer(tx, r, to)
  PROVE  EntryInv' /\ Careful /\ AdmitsOnly({})
<1>. DEFINE status == RemoveIndexerStatus(tx, r, to)
<1>1. CASE Refused(status)
  BY <1>1, RefusedStep
<1>2. CASE ~Refused(status)
  <2>. DEFINE entry == [node[to] EXCEPT !.role = "WRITER"]
  <2>1. /\ Stored(tx, status)
        /\ ChargeAdmin([node EXCEPT ![to].role = "WRITER"])
        /\ IndexWriter(to)
        /\ UNCHANGED <<owner, licenses>>
    BY <1>2, Zenon DEF RemoveIndexer
  <2>2. IsIndexer(to)
    BY <2>1, AdminStatusSuccess DEF Stored, RemoveIndexerStatus
  <2>3. Kept(node[to], entry)
    BY <2>2 DEF Kept, IsIndexer, TypeOK, LedgerTypeOK, NodeEntry
  <2>4. \A a \in Address : Kept(node[a], node'[a])
    BY <2>1, <2>3, ChargeKept
  <2>5. SameLicenses /\ NoWriterBut({to}) /\ Careful /\ AdmitsOnly({})
    BY <2>1, <2>4 DEF Kept, SameLicenses, NoWriterBut, Careful, AdmitsOnly, IsWriter,
       IsWhitelisted, Exists
  <2>. QED
    BY <2>1, <2>5, LicensesStand, WriterIndexed DEF EntryInv, IndexesMatchEntries
<1>. QED
  BY <1>1, <1>2

\* A ban takes the role and leaves the licence.
LEMMA BanValidatorEntries ==
  ASSUME TypeOK, EntryInv, NEW tx \in Tx, NEW r \in Address, NEW to \in Address,
         BanValidator(tx, r, to)
  PROVE  EntryInv' /\ Careful /\ AdmitsOnly({})
<1>. DEFINE status == BanValidatorStatus(tx, r, to)
<1>1. CASE Refused(status)
  BY <1>1, RefusedStep
<1>2. CASE ~Refused(status)
  <2>. DEFINE banned == [node[to] EXCEPT !.role = "READER"]
              entry == IF IsWriter(to) THEN WithdrawStake(banned) ELSE banned
  <2>1. /\ ChargeAdmin([node EXCEPT ![to] = entry])
        /\ UNCHANGED <<owner, licenses, writersIndex>>
    BY <1>2, Zenon DEF BanValidator
  <2>2. Kept(node[to], entry)
    BY DEF Kept, WithdrawStake, TypeOK, LedgerTypeOK, NodeEntry
  <2>. HIDE DEF entry
  <2>3. \A a \in Address : Kept(node[a], node'[a])
    BY <2>1, <2>2, ChargeKept
  <2>. QED
    BY <2>1, <2>3, KeptStep
<1>. QED
  BY <1>1, <1>2

-----------------------------------------------------------------------------
(* The operations that issue a licence, make a writer or register a key *)

\* The launch gives the admin the first licence and the first slot.
LEMMA AddAdminEntries ==
  ASSUME Inv, EntryInv, NEW tx \in Tx, NEW r \in Address, NEW iw \in Key, AddAdmin(tx, r, iw)
  PROVE  /\ EntryInv' /\ Careful /\ AdmitsOnly({r})
         /\ ~HasAdmin \/ AdmitsOnly({})
<1>0. TypeOK
  BY DEF Inv
<1>1. CASE Refused(AddAdminStatus(tx, iw))
  BY <1>0, <1>1, RefusedStep, AdmitsNobody
<1>2. CASE ~Refused(AddAdminStatus(tx, iw))
  <2>. DEFINE entry == [role |-> "INDEXER", wk |-> iw, balance |-> AdminBalance,
                        license |-> Len(licenses) + 1, staked |-> Stake]
  <2>1. /\ Stored(tx, AddAdminStatus(tx, iw))
        /\ node' = [node EXCEPT ![r] = entry]
        /\ licenses' = Append(licenses, r)
        /\ owner' = [owner EXCEPT ![iw] = r]
        /\ IndexWriter(r)
    BY <1>2, Zenon DEF AddAdmin
  <2>2. node[r] = NoEntry /\ owner[iw] = NoAddress /\ ~HasAdmin
    BY <2>1 DEF Stored, AddAdminStatus, Inv, BeforeLaunch
  <2>3. entry.license = Len(licenses) + 1 /\ entry.role = "INDEXER" /\ entry.wk = iw
    OBVIOUS
  <2>. HIDE DEF entry
  <2>4. node'[r] = entry /\ \A a \in Address \ {r} : node'[a] = node[a]
    BY <1>0, <2>1 DEF TypeOK, LedgerTypeOK
  <2>5. Issued(r) /\ Exists(r)'
    BY <2>1, <2>2, <2>3, <2>4 DEF Issued, Exists, NoEntry
  <2>6. NoWriterBut({r})
    BY <2>3, <2>4 DEF NoWriterBut, IsWriter
  <2>7. Careful
    BY <1>0, <2>1, <2>2, <2>3, <2>4, <2>5 DEF Careful, NoEntry, Exists, TypeOK, LedgerTypeOK
  <2>8. AdmitsOnly({r})
    BY <2>4 DEF AdmitsOnly, IsWhitelisted
  <2>. QED
    BY <1>0, <2>1, <2>2, <2>5, <2>6, <2>7, <2>8, LicenseIssued, WriterIndexed
       DEF EntryInv, IndexesMatchEntries
<1>. QED
  BY <1>1, <1>2

\* A whitelisting issues a licence to a node that never had one, and to no other.
LEMMA AppendWhitelistEntries ==
  ASSUME TypeOK, EntryInv, NEW tx \in Tx, NEW r \in Address, NEW to \in Address,
         AppendWhitelist(tx, r, to)
  PROVE  /\ EntryInv' /\ Careful /\ AdmitsOnly({to})
         /\ admin.wk = batch.from \/ AdmitsOnly({})
<1>. DEFINE status == AppendWhitelistStatus(tx, r, to)
<1>1. CASE Refused(status)
  BY <1>1, RefusedStep, AdmitsNobody
<1>2. CASE ~Refused(status)
  <2>. DEFINE license == IF NeedsLicense(to) THEN Len(licenses) + 1 ELSE node[to].license
              paid == Debit(node[admin.addr], WhitelistFee)
              entry == [node[to] EXCEPT !.role = "WHITELISTED", !.license = license]
              charged == [node EXCEPT ![admin.addr] = paid]
  <2>1. /\ Stored(tx, status)
        /\ node' = [charged EXCEPT ![to] = entry]
        /\ licenses' = IF NeedsLicense(to) THEN Append(licenses, to) ELSE licenses
        /\ UNCHANGED <<owner, writersIndex>>
    BY <1>2, Zenon DEF AppendWhitelist
  <2>2. admin.addr \in Address => Kept(node[admin.addr], paid)
    BY BalanceKept DEF Kept, TypeOK, LedgerTypeOK
  <2>3. entry.role = "WHITELISTED" /\ entry.license = license /\ entry.wk = node[to].wk
    BY DEF TypeOK, LedgerTypeOK, NodeEntry
  <2>. HIDE DEF paid, entry
  <2>4. DOMAIN charged = Address /\ \A a \in Address : Kept(node[a], charged[a])
    BY <2>2 DEF TypeOK, LedgerTypeOK, Kept
  <2>. HIDE DEF charged
  <2>5. node'[to] = entry /\ \A a \in Address \ {to} : Kept(node[a], node'[a])
    BY <2>1, <2>4
  <2>6. NoWriterBut({}) /\ Exists(to)'
    BY <2>3, <2>5 DEF NoWriterBut, Kept, IsWriter, Exists
  <2>9. admin.wk = batch.from
    BY <2>1, AdminStatusSuccess DEF Stored, AppendWhitelistStatus, AdminRequest
  <2>10. Careful
    BY <2>1, <2>3, <2>5, <2>6, <2>9 DEF Careful, Kept, Exists
  <2>11. AdmitsOnly({to})
    BY <2>5 DEF AdmitsOnly, Kept, IsWhitelisted
  <2>7. CASE NeedsLicense(to)
    <3>1. Issued(to)
      BY <2>1, <2>3, <2>5, <2>7 DEF Issued, Kept, NeedsLicense
    <3>. QED
      BY <2>1, <2>6, <2>9, <2>10, <2>11, <3>1, LicenseIssued, WritersStandIndexed
         DEF EntryInv, IndexesMatchEntries
  <2>8. CASE ~NeedsLicense(to)
    <3>1. SameLicenses
      BY <2>1, <2>3, <2>5, <2>8 DEF SameLicenses, Kept
    <3>. QED
      BY <2>1, <2>6, <2>9, <2>10, <2>11, <3>1, LicensesStand, WritersStandIndexed
         DEF EntryInv, IndexesMatchEntries
  <2>. QED
    BY <2>7, <2>8
<1>. QED
  BY <1>1, <1>2

\* An admin recovery moves the admin to a key that was nobody's.
LEMMA AdminRecoveryEntries ==
  ASSUME Inv, EntryInv, NEW tx \in Tx, NEW r \in Address, NEW iw \in Key,
         NEW v \in Address, AdminRecovery(tx, r, iw, v)
  PROVE  EntryInv' /\ Careful /\ AdmitsOnly({})
<1>. DEFINE status == AdminRecoveryStatus(tx, r, iw, v)
<1>0. TypeOK
  BY DEF Inv
<1>1. CASE Refused(status)
  BY <1>0, <1>1, RefusedStep
<1>2. CASE ~Refused(status)
  <2>. DEFINE charged == Debit(node[r], Fee)
              entry == [charged EXCEPT !.wk = iw]
              paid == Credit(node[v], Share(75))
  <2>1. /\ Stored(tx, status)
        /\ node' = [node EXCEPT ![r] = entry, ![v] = paid]
        /\ owner' = [owner EXCEPT ![iw] = r]
        /\ UNCHANGED <<licenses, writersIndex>>
    BY <1>2, Zenon DEF AdminRecovery
  <2>2. r # v /\ owner[iw] = NoAddress /\ Exists(r)
    BY <2>1 DEF Stored, AdminRecoveryStatus, Cosigned, Inv, AdminStaysInOffice, Exists
  <2>3. /\ entry.license = node[r].license /\ entry.role = node[r].role /\ entry.wk = iw
        /\ Kept(node[v], paid)
    BY <1>0 DEF Kept, Credit, Debit, NodeEntry, TypeOK, LedgerTypeOK
  <2>. HIDE DEF entry, paid
  <2>4. node'[r] = entry /\ \A a \in Address \ {r} : Kept(node[a], node'[a])
    BY <1>0, <2>1, <2>2, <2>3 DEF TypeOK, LedgerTypeOK, Kept
  <2>5. SameLicenses /\ NoWriterBut({})
    <3>1. \A a \in Address : /\ node'[a].license = node[a].license
                             /\ IsWriter(a)' => IsWriter(a)
      BY <2>3, <2>4 DEF Kept, IsWriter
    <3>. QED
      BY <2>1, <3>1 DEF SameLicenses, NoWriterBut
  <2>6. Careful
    BY <1>0, <2>1, <2>2, <2>3, <2>4 DEF Careful, Kept, Exists, TypeOK, LedgerTypeOK
  <2>7. AdmitsOnly({})
    BY <2>3, <2>4 DEF Kept, AdmitsOnly, IsWhitelisted
  <2>. QED
    BY <1>0, <2>1, <2>5, <2>6, <2>7, QuietStep
<1>. QED
  BY <1>1, <1>2

\* A join takes the next slot of the writers index.
LEMMA AddWriterEntries ==
  ASSUME TypeOK, EntryInv, NEW tx \in Tx, NEW r \in Address, NEW iw \in Key,
         NEW v \in Address, AddWriter(tx, r, iw, v)
  PROVE  EntryInv' /\ Careful /\ AdmitsOnly({})
<1>. DEFINE status == AddWriterStatus(tx, r, iw, v)
<1>1. CASE Refused(status)
  BY <1>1, RefusedStep
<1>2. CASE ~Refused(status)
  <2>. DEFINE staked == StakeBalance(Debit(node[r], Fee))
              entry == [staked EXCEPT !.role = "WRITER", !.wk = iw]
              paid == Credit(node[v], Share(75))
  <2>1. /\ Stored(tx, status)
        /\ node' = [node EXCEPT ![r] = entry, ![v] = paid]
        /\ owner' = [owner EXCEPT ![iw] = IF owner[iw] = NoAddress THEN r ELSE owner[iw]]
        /\ IndexWriter(r)
        /\ UNCHANGED licenses
    BY <1>2, Zenon DEF AddWriter
  <2>2. /\ r # v /\ node[r].role # "READER" /\ IsWhitelisted(r)
        /\ owner[iw] # NoAddress => node[r].wk = iw
    BY <2>1 DEF Stored, AddWriterStatus, Cosigned, MayBecomeWriter, IsWhitelisted
  <2>3. /\ entry.license = node[r].license /\ entry.role = "WRITER" /\ entry.wk = iw
        /\ Kept(node[v], paid)
    BY DEF Kept, StakeBalance, Credit, Debit, NodeEntry, TypeOK, LedgerTypeOK
  <2>. HIDE DEF entry, paid
  <2>4. node'[r] = entry /\ \A a \in Address \ {r} : Kept(node[a], node'[a])
    BY <2>1, <2>2, <2>3 DEF TypeOK, LedgerTypeOK, Kept
  <2>5. SameLicenses /\ NoWriterBut({r})
    BY <2>1, <2>3, <2>4 DEF SameLicenses, NoWriterBut, Kept, IsWriter
  <2>6. Careful
    <3>1. \A k \in Key : owner[k] # NoAddress => owner'[k] = owner[k]
      BY <2>1 DEF TypeOK, LedgerTypeOK
    <3>2. node'[r].wk # node[r].wk => owner[node'[r].wk] = NoAddress
      BY <2>2, <2>3, <2>4
    <3>. QED
      BY <2>2, <2>3, <2>4, <3>1, <3>2 DEF Careful, Kept, Exists
  <2>7. AdmitsOnly({})
    BY <2>2, <2>3, <2>4 DEF Kept, AdmitsOnly, IsWhitelisted
  <2>. QED
    BY <2>1, <2>5, <2>6, <2>7, LicensesStand, WriterIndexed DEF EntryInv, IndexesMatchEntries
<1>. QED
  BY <1>1, <1>2

-----------------------------------------------------------------------------
(* Batches, and the theorem *)

\* A penalty leaves the licence and takes the role.
LEMMA PenaltyEntries ==
  ASSUME Inv, EntryInv, NEW k \in writers, NEW n \in Nat, ValidatorPenalty(k, n)
  PROVE  EntryInv' /\ Careful /\ AdmitsOnly({})
<1>0. TypeOK
  BY DEF Inv
<1>1. CASE Punishable(k, n)
  <2>1. PICK x \in Address : x = owner[k] /\ IsWriter(x)
    BY <1>1 DEF Punishable, Inv, WritersAreValidators, TypeOK, LedgerTypeOK
  <2>. DEFINE entry == Punished(node[x], n)
  <2>2. node' = [node EXCEPT ![x] = entry] /\ UNCHANGED <<owner, licenses, writersIndex>>
    BY <1>1, <2>1 DEF ValidatorPenalty
  <2>3. Kept(node[x], entry)
    BY <1>0, <2>1 DEF Kept, IsWriter, Punished, TypeOK, LedgerTypeOK, NodeEntry
  <2>. HIDE DEF entry
  <2>4. \A a \in Address : Kept(node[a], node'[a])
    BY <1>0, <2>2, <2>3 DEF TypeOK, LedgerTypeOK, Kept
  <2>. QED
    BY <1>0, <2>2, <2>4, KeptStep
<1>2. CASE ~Punishable(k, n)
  BY <1>0, <1>2, UntouchedStep DEF ValidatorPenalty, ledger
<1>. QED
  BY <1>1, <1>2

\* Starting, ending and rejecting a batch keep the entries and their records.
LEMMA BatchStepEntries ==
  ASSUME Inv, EntryInv,
         \/ EndBatch
         \/ \E k \in Key : StartBatch(k) \/ OversizedBatch(k)
  PROVE  EntryInv' /\ Careful /\ AdmitsOnly({})
<1>0. TypeOK
  BY DEF Inv
<1>1. CASE EndBatch
  <2>1. batch.from \in writers /\ batch.invalid \in Nat
    BY <1>0, <1>1, BatchAssumption DEF EndBatch, Inv, BatchOfWriter, TypeOK, BatchTypeOK
  <2>2. ValidatorPenalty(batch.from, batch.invalid) \/ UNCHANGED ledger
    BY <1>1 DEF EndBatch
  <2>. QED
    BY <1>0, <2>1, <2>2, PenaltyEntries, UntouchedStep DEF ledger
<1>2. ASSUME NEW k \in Key, StartBatch(k)
      PROVE  EntryInv' /\ Careful /\ AdmitsOnly({})
  BY <1>0, <1>2, UntouchedStep DEF StartBatch, ledger
<1>3. ASSUME NEW k \in Key, OversizedBatch(k)
      PROVE  EntryInv' /\ Careful /\ AdmitsOnly({})
  BY <1>3, PenaltyEntries, BatchAssumption DEF OversizedBatch
<1>. QED
  BY <1>1, <1>2, <1>3

\* Every operation of the admin keeps the entries and their records.
LEMMA AdminOperationEntries ==
  ASSUME Inv, EntryInv, NEW tx \in Tx, NEW r \in Address, AdminOperation(tx, r)
  PROVE  /\ EntryInv' /\ Careful
         /\ HasAdmin /\ admin.wk # batch.from => AdmitsOnly({})
<1>. DEFINE Result == /\ EntryInv' /\ Careful
                      /\ HasAdmin /\ admin.wk # batch.from => AdmitsOnly({})
<1>0. TypeOK
  BY DEF Inv
<1>1. CASE DisableInitialization(tx, r)
  BY <1>0, <1>1, DisableInitializationEntries
<1>2. ASSUME NEW to \in Address, NEW amount \in Grant, InitializeBalance(tx, r, to, amount)
      PROVE  Result
  BY <1>0, <1>2, InitializeBalanceEntries
<1>3. ASSUME NEW iw \in Key, AddAdmin(tx, r, iw)
      PROVE  Result
  BY <1>3, AddAdminEntries
<1>4. ASSUME NEW to \in Address,
             \/ AppendWhitelist(tx, r, to) \/ AddIndexer(tx, r, to)
             \/ RemoveIndexer(tx, r, to) \/ BanValidator(tx, r, to)
      PROVE  Result
  BY <1>0, <1>4, AppendWhitelistEntries, AddIndexerEntries, RemoveIndexerEntries,
     BanValidatorEntries
<1>. QED
  BY <1>1, <1>2, <1>3, <1>4 DEF AdminOperation

\* Every operation a validator co-signs keeps the entries and their records.
LEMMA CosignedOperationEntries ==
  ASSUME Inv, EntryInv, NEW tx \in Tx, NEW r \in Address, NEW v \in Address,
         CosignedOperation(tx, r, v)
  PROVE  EntryInv' /\ Careful /\ AdmitsOnly({})
<1>0. TypeOK
  BY DEF Inv
<1>1. ASSUME NEW iw \in Key,
             \/ AdminRecovery(tx, r, iw, v) \/ AddWriter(tx, r, iw, v)
             \/ RemoveWriter(tx, r, iw, v)
      PROVE  EntryInv' /\ Careful /\ AdmitsOnly({})
  BY <1>0, <1>1, AdminRecoveryEntries, AddWriterEntries, RemoveWriterEntries
<1>2. ASSUME NEW bs \in Subnet,
             \/ BootstrapDeployment(tx, r, bs, v) \/ TxOperation(tx, r, bs, v)
      PROVE  EntryInv' /\ Careful /\ AdmitsOnly({})
  BY <1>0, <1>2, BootstrapDeploymentEntries, TxOperationEntries
<1>3. ASSUME NEW to \in Address, NEW amount \in Amount, Transfer(tx, r, to, amount, v)
      PROVE  EntryInv' /\ Careful /\ AdmitsOnly({})
  BY <1>0, <1>3, TransferEntries
<1>. QED
  BY <1>1, <1>2, <1>3 DEF CosignedOperation

\* Nothing is issued, listed or written at first.
LEMMA InitEntries == Init => EntryInv
<1>. SUFFICES ASSUME Init PROVE EntryInv
  OBVIOUS
<1>1. licenses = <<>> /\ \A a \in Address : node[a] = NoEntry
  BY DEF Init
<1>. QED
  BY <1>1 DEF EntryInv, IndexesMatchEntries, LicensesMatchEntries, WritersAreIndexed,
     Blank, IsWriter, NoEntry

\* Every step keeps the entries and their records.
LEMMA NextEntries == Inv /\ EntryInv /\ [Next]_vars => EntryInv' /\ Careful
<1>. SUFFICES ASSUME Inv, EntryInv, [Next]_vars PROVE EntryInv' /\ Careful
  OBVIOUS
<1>0. TypeOK
  BY DEF Inv
<1>1. CASE \/ EndBatch
           \/ \E k \in Key : StartBatch(k) \/ OversizedBatch(k)
  BY <1>1, BatchStepEntries
<1>2. CASE MalformedOperation
  BY <1>0, <1>2, RefusedStep DEF MalformedOperation
<1>3. ASSUME NEW tx \in Tx, NEW r \in Address, AdminOperation(tx, r)
      PROVE  EntryInv' /\ Careful
  BY <1>3, AdminOperationEntries
<1>4. ASSUME NEW tx \in Tx, NEW r \in Address, NEW v \in Address, CosignedOperation(tx, r, v)
      PROVE  EntryInv' /\ Careful
  BY <1>4, CosignedOperationEntries
<1>5. CASE UNCHANGED vars
  BY <1>0, <1>5, UntouchedStep DEF vars, ledger
<1>. QED
  BY <1>1, <1>2, <1>3, <1>4, <1>5 DEF Next

\* The entries and their records are kept in every reachable state.
LEMMA EntriesAreKept == Spec => []EntryInv
<1>1. Inv /\ EntryInv /\ [Next]_vars => EntryInv'
  BY NextEntries
<1>. QED
  BY <1>1, Invariance, InitEntries, PTL DEF Spec

\* Licence n is held by exactly the address it was issued to, and a search of
\* the writers index finds every writer, however often nodes are banned,
\* whitelisted, demoted and joined again.
THEOREM Indexes == Spec => []IndexesMatchEntries
<1>1. EntryInv => IndexesMatchEntries
  BY DEF EntryInv
<1>. QED
  BY <1>1, EntriesAreKept, PTL

\* A writing key never changes hands.
THEOREM KeyPermanence == Spec => KeyOwnershipIsPermanent
<1>. DEFINE Permanent ==
       /\ \A k \in Key : owner[k] # NoAddress => owner'[k] = owner[k]
       /\ \A a \in Address :
            node'[a].wk # node[a].wk => owner[node'[a].wk] = NoAddress
<1>1. Inv /\ EntryInv /\ [Next]_vars => [Permanent]_vars
  BY NextEntries DEF Careful
<1>. QED
  BY <1>1, Invariance, EntriesAreKept, PTL DEF Spec, KeyOwnershipIsPermanent

\* Only the admin's batch gives a reader, banned or new, a role.
THEOREM BansLast == Spec => OnlyAdminLiftsBan
<1>. DEFINE Lifted ==
       \A a \in Address :
         /\ node[a].role = "READER"
         /\ node'[a].role # "READER"
         => /\ batch.from = admin.wk
            /\ node'[a].role = "WHITELISTED"
<1>1. Inv /\ EntryInv /\ [Next]_vars => [Lifted]_vars
  BY NextEntries DEF Careful
<1>. QED
  BY <1>1, Invariance, EntriesAreKept, PTL DEF Spec, OnlyAdminLiftsBan
=============================================================================
