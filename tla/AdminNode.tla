------------------------------ MODULE AdminNode ------------------------------
(***************************************************************************)
(* The admin's machine: the commands of src/src/index.js that append to    *)
(* the ledger themselves, and the migration files of                       *)
(* src/src/utils/fileUtils.js that two of them keep, over the ledger of    *)
(* Ledger.                                                                 *)
(*                                                                         *)
(* A command reads the signed view, which lags behind the ledger, and the  *)
(* ledger itself ("unsigned"); it then appends its messages one by one to  *)
(* the machine's own log and sleeps after each, while other writers go on. *)
(* Files and log survive a crash, the command does not, and a file may be  *)
(* cut short.  Wallet, address, format and schema checks are abstracted,   *)
(* and so is the order of the rows in a file: a file is a set of rows.     *)
(*                                                                         *)
(* Autobase applies an own block before append returns, and what it finds  *)
(* in the log after a crash before the commands start again.               *)
(***************************************************************************)
EXTENDS Ledger, Messages, FiniteSetsExt

CONSTANTS
  Self,      \* the address of the wallet
  OwnKey,    \* the writing key of this machine
  List,      \* what the whitelist and the balance file may hold: sets of rows
  Line,      \* command lines that may run at once
  MaxLog,    \* bound on the messages of the log, whose positions are their hashes
  MaxFiles   \* bound on the migration files in each directory

ASSUME AdminNodeAssumption ==
  /\ Self \in Address
  /\ OwnKey \in Key
  /\ List \subseteq SUBSET Address
  /\ MaxLog \in Nat /\ 1 .. MaxLog \subseteq Tx
  /\ MaxFiles \in Nat

VARIABLES
  files,    \* the migration files: files[d][n] holds the rows of migratedN.csv
  command,  \* what each command line is doing
  log,      \* the own log: every message ever appended
  played,   \* how many of them have been applied
  signed    \* what the signed view shows

avars == <<vars, files, command, log, played, signed>>

-----------------------------------------------------------------------------
(* Data *)

\* The two directories, named for the operation their rows are turned into
Directory == {"appendWhitelist", "balanceInitialization"}

\* operations that name an address and are refused for the wallet's own
\* (the first of them also comes from a file)
AdminControl == {"appendWhitelist", "addIndexer", "removeIndexer", "banValidator"}

Type == AdminControl \union {"balanceInitialization", "disableInitialization", "addAdmin"}

\* A row is an address.  Whose balance is initialized matters, with what does
\* not: the amount of a message is any in Grant.
Message == [type : Type, to : Address, txv : SUBSET Key]

\* A command waits at the prompt, has its rows checked and a file number
\* chosen, or has built its messages and has those for rows left to append.
Command ==
  [stage : {"prompt"}]
    \union [stage : {"checked"}, type : Directory, rows : SUBSET Address, number : Nat]
    \union [stage : {"sending"}, type : Type, rows : SUBSET Address, txv : SUBSET Key]

Prompt == [stage |-> "prompt"]

View == [node |-> node, admin |-> admin, initialization |-> initialization]

AdminNodeTypeOK ==
  /\ TypeOK
  /\ \A d \in Directory : \A n \in DOMAIN files[d] : files[d][n] \subseteq Address
  /\ command \in [Line -> Command]
  /\ log \in Seq(Message)
  /\ played \in 0 .. Len(log)

-----------------------------------------------------------------------------
(* Migration files *)

\* getNextMigrationNumber
BuggyNextNumber(d) == IF DOMAIN files[d] = {} THEN 1 ELSE Max(DOMAIN files[d])

NextNumber(d) == IF DOMAIN files[d] = {} THEN 1 ELSE Max(DOMAIN files[d]) + 1

\* validateWhitelistMigrationData, validateBalanceMigrationData: no row is in
\* any file of the directory yet.
NotMigrated(d, rows) == \A n \in DOMAIN files[d] : files[d][n] \intersect rows = {}

\* writeFile replaces a file of the same name.
Write(d, n, rows) ==
  files' = [files EXCEPT ![d] =
    [m \in DOMAIN @ \union {n} |-> IF m = n THEN rows ELSE files[d][m]]]

-----------------------------------------------------------------------------
(* What a command checks, over the ledger and the signed view s *)

\* isAdmin: the wallet is the admin's and this machine has the admin's key.
IsAdmin(s) == s.admin.addr = Self /\ s.admin.wk = OwnKey

BuggyIncoming(s, a) ==
  /\ a # s.admin.addr
  /\ s.node[a].role \notin {"WHITELISTED", "WRITER", "INDEXER"}
  /\ s.node[a].license = 0

\* validateAddressFromIncomingFile: not the admin, nor a node that is or ever
\* was whitelisted.  The entry is read unsigned.
Incoming(s, a) == a # s.admin.addr /\ ~IsWhitelisted(a) /\ node[a].license = 0

\* handleWhitelistOperations and balanceMigrationOperation before they write
MayMigrate(s, d, rows) ==
  /\ IsAdmin(s)
  /\ d = "balanceInitialization" => s.initialization # "disabled" /\ OwnKey = Bootstrap
  /\ \A a \in rows : Incoming(s, a)
  /\ NotMigrated(d, rows)

\* A writer that is not the admin may append too, and will be penalised.
MayUpdateIndexer(s) == s.admin.addr # NoAddress /\ (IsAdmin(s) \/ OwnKey \in writers)

BuggyMayBan(s, to) ==
  IsAdmin(s) /\ s.node[to].role \in {"WHITELISTED", "WRITER", "INDEXER"}

\* The bits of a role: an indexer is a whitelisted node, too.
MayBan(s, to) == IsAdmin(s) /\ s.node[to].role \in {"WHITELISTED", "WRITER"}

\* The commands for one address, and the two that need none.  Which keys are
\* indexers is asked of the base.
MayOrder(s, type, to) ==
  CASE type = "addAdmin" ->
         to = Self /\ s.admin.addr = NoAddress /\ OwnKey = Bootstrap
    [] type = "disableInitialization" ->
         to = Self /\ s.initialization # "disabled" /\ IsAdmin(s)
    [] type = "addIndexer" ->
         /\ to # Self /\ MayUpdateIndexer(s)
         /\ s.node[to].role = "WRITER" /\ s.node[to].wk \notin indexers
    [] type = "removeIndexer" ->
         /\ to # Self /\ MayUpdateIndexer(s)
         /\ s.node[to].role = "INDEXER" /\ s.node[to].wk \in indexers
    [] type = "banValidator" -> to # Self /\ MayBan(s, to)

-----------------------------------------------------------------------------
(* Commands *)

AdminNodeInit(files0) ==
  /\ files = files0
  /\ command = [l \in Line |-> Prompt]
  /\ log = <<>>
  /\ played = 0
  /\ signed = View

\* The indexers sign what has been applied so far.
Sign ==
  /\ ~Open
  /\ signed' = View
  /\ UNCHANGED <<vars, files, command, log, played>>

\* Commands run between batches, once the own log has been applied; one that
\* the base no longer takes for a writer has nothing to wait for.
Awake == ~halted /\ ~Open /\ (played = Len(log) \/ OwnKey \notin writers)

\* The rows of a whitelist or balance file are checked.
Check(l, d, rows) ==
  /\ Awake
  /\ command[l] = Prompt
  /\ Cardinality(DOMAIN files[d]) < MaxFiles
  /\ MayMigrate(signed, d, rows)
  /\ command' = [command EXCEPT ![l] =
       [stage |-> "checked", type |-> d, rows |-> rows, number |-> NextNumber(d)]]
  /\ UNCHANGED <<vars, files, log, played, signed>>

\* createWhitelistEntryFile, createMigrationEntryFile; then every message is
\* built, with the txv of this moment.
Record(l) ==
  LET c == command[l] IN
  /\ Awake
  /\ c.stage = "checked"
  /\ Write(c.type, c.number, c.rows)
  /\ command' = [command EXCEPT ![l] =
       [stage |-> "sending", type |-> c.type, rows |-> c.rows, txv |-> indexers]]
  /\ UNCHANGED <<vars, log, played, signed>>

\* A message is made for the present indexers, but that of an admin's creation
\* for the bootstrap as the only one.
TxValidity(type) == IF type = "addAdmin" THEN {Bootstrap} ELSE indexers

\* A command with a single message
Order(l, type, to) ==
  /\ Awake
  /\ command[l] = Prompt
  /\ MayOrder(signed, type, to)
  /\ command' = [command EXCEPT ![l] =
       [stage |-> "sending", type |-> type, rows |-> {to}, txv |-> TxValidity(type)]]
  /\ UNCHANGED <<vars, files, log, played, signed>>

\* A whitelist row is skipped when the signed view has it already.
Skips(type, a) ==
  type = "appendWhitelist" /\ signed.node[a].role \in {"WHITELISTED", "WRITER", "INDEXER"}

BuggyDone(c, a) == c

\* What is left of a command after the row a
Done(c, a) == IF c.rows = {a} THEN Prompt ELSE [c EXCEPT !.rows = @ \ {a}]

\* The next message is appended, then the command sleeps.
Send(l, a) ==
  LET c == command[l] IN
  /\ Awake
  /\ c.stage = "sending" /\ a \in c.rows
  /\ OwnKey \in writers
  /\ Len(log) < MaxLog
  /\ log' = IF Skips(c.type, a) THEN log
            ELSE Append(log, [type |-> c.type, to |-> a, txv |-> c.txv])
  /\ command' = [command EXCEPT ![l] = Done(c, a)]
  /\ UNCHANGED <<vars, files, played, signed>>

\* Autobase refuses an append of a key that is no writer: the command throws.
AppendThrows(l) ==
  /\ Awake
  /\ command[l].stage = "sending"
  /\ OwnKey \notin writers
  /\ command' = [command EXCEPT ![l] = Prompt]
  /\ UNCHANGED <<vars, files, log, played, signed>>

\* The machine goes down, possibly in the middle of writing a file.
Crash ==
  /\ ~Open
  /\ \E l \in Line : command[l] # Prompt
  /\ \/ UNCHANGED files
     \/ \E l \in Line : /\ command[l].stage = "checked"
                        /\ \E some \in SUBSET command[l].rows :
                             Write(command[l].type, command[l].number, some)
  /\ command' = [l \in Line |-> Prompt]
  /\ UNCHANGED <<vars, log, played, signed>>

-----------------------------------------------------------------------------
(* The ledger's steps *)

\* The batch being applied is this machine's.
OwnBatch == Open /\ batch.from = OwnKey

\* The handler of a message
Perform(tx, m) ==
  \/ m.type = "addAdmin" /\ AddAdmin(tx, Self, OwnKey)
  \/ m.type = "disableInitialization" /\ DisableInitialization(tx, Self)
  \/ /\ m.type = "balanceInitialization"
     /\ \E amount \in Grant : InitializeBalance(tx, Self, m.to, amount)
  \/ m.type = "appendWhitelist" /\ AppendWhitelist(tx, Self, m.to)
  \/ m.type = "addIndexer" /\ AddIndexer(tx, Self, m.to)
  \/ m.type = "removeIndexer" /\ RemoveIndexer(tx, Self, m.to)
  \/ m.type = "banValidator" /\ BanValidator(tx, Self, m.to)

\* The next message of the log is applied.  Every handler compares the txv.
Play ==
  /\ OwnBatch
  /\ played < Len(log)
  /\ LET m == log[played + 1] IN
       IF m.txv = indexers THEN Perform(played + 1, m) ELSE Refused("FAILURE")
  /\ played' = played + 1
  /\ UNCHANGED <<files, command, log, signed>>

\* Everybody else's, the admin's from another machine included
OthersStep ==
  /\ \/ \E k \in Key : /\ k = OwnKey => played < Len(log)
                       /\ StartBatch(k)
     \/ \E k \in Key \ {OwnKey} : OversizedBatch(k)
     \/ EndBatch
     \/ /\ ~OwnBatch
        /\ \/ MalformedOperation
           \/ \E tx \in Tx \ (1 .. MaxLog), r \in Address : AdminOperation(tx, r)
           \/ \E tx \in Tx \ (1 .. MaxLog), r, v \in Address : CosignedOperation(tx, r, v)
  /\ UNCHANGED <<files, command, log, played, signed>>

AdminNodeNext ==
  \/ Sign
  \/ \E l \in Line :
       \/ \E d \in Directory, rows \in List : Check(l, d, rows)
       \/ Record(l)
       \/ \E type \in Type \ Directory, to \in Address : Order(l, type, to)
       \/ \E a \in Address : Send(l, a)
       \/ AppendThrows(l)
  \/ Crash
  \/ Play
  \/ OthersStep

AdminNodeSpec ==
  /\ Init
  /\ AdminNodeInit([d \in Directory |-> <<>>])
  /\ [][AdminNodeNext]_avars

-----------------------------------------------------------------------------
(* What the admin may count on *)

\* However often the machine crashes and the operator runs the command again,
\* with whatever is in the incoming file, no address is given two messages of
\* one kind: a second initialization would take away what was spent or
\* received since, and a second whitelisting would lift a ban.
RowsRunOnce ==
  \A i, j \in DOMAIN log :
    /\ log[i].type \in Directory
    /\ log[j].type = log[i].type /\ log[j].to = log[i].to
    => i = j

\* A balance initialization overwrites the balance, so it must not reach a
\* node that has joined: no order of the two migrations and of the signed
\* view's progress lets one through, and none reaches the admin.
MigrationKeepsOffNodes ==
  [][\A m \in {log[i] : i \in played + 1 .. played'} :
       m.type = "balanceInitialization" /\ applied' # applied
       => m.to # Self /\ node[m.to].license = 0]_avars

\* A row that passed the checks fails only because the indexers changed, the
\* admin cannot pay for a whitelisting any more, or the initialization was
\* disabled and the signed view did not show it yet.
RowsFailForCause ==
  [][\A m \in {log[i] : i \in played + 1 .. played'} :
       m.type \in Directory /\ batch'.invalid > batch.invalid
       => \/ m.txv # indexers
          \/ m.type = "appendWhitelist" /\ node[Self].balance < WhitelistFee
          \/ m.type = "balanceInitialization" /\ initialization = "disabled"]_avars

OrderStatus(tx, type, to) ==
  CASE type = "addAdmin" -> AddAdminStatus(tx, OwnKey)
    [] type = "disableInitialization" -> AdminStatus(tx, Self, initialization # "disabled")
    [] type = "addIndexer" -> AddIndexerStatus(tx, Self, to)
    [] type = "removeIndexer" -> RemoveIndexerStatus(tx, Self, to)
    [] type = "banValidator" -> BanValidatorStatus(tx, Self, to)

\* A command that is allowed over the very ledger its message is applied to
\* succeeds, unless the admin cannot pay for it, the target's stake does not
\* fit in its balance, or a writer that is not the admin gave it.
OrdersSucceed ==
  OwnBatch /\ NextNode =>
    \A tx \in Tx \ applied, type \in Type \ Directory, to \in Address :
      /\ MayOrder(View, type, to)
      /\ type \in AdminControl => IsAdmin(View) /\ AdminCanPay
      /\ type = "banValidator" /\ IsWriter(to) => CanWithdraw(node[to])
      => OrderStatus(tx, type, to) = "SUCCESS"

-----------------------------------------------------------------------------
(* The message behind a block of the log *)

\* What the wallet gives the builder, for the amount of a balance row
Given(m, amount) ==
  CASE m.type \in {"addAdmin", "disableInitialization"} -> [iw |-> OwnKey]
    [] m.type = "balanceInitialization" -> [ia |-> m.to, am |-> amount]
    [] OTHER -> [ia |-> m.to]

\* A message of the log is one that #apply takes for well formed and signed as
\* long as the indexers are those its txv names, however long it waited in a
\* command: what Play takes for granted.
LogVerifies ==
  \A i \in DOMAIN log, amount \in Grant \ {0} :
    LET m == log[i]
        block == RequesterMessage(Self, m.type, Given(m, amount), m.txv, i)
    IN Verifies(Decoded(block), indexers) <=> m.txv = indexers
=============================================================================
