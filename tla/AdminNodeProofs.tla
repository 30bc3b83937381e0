--------------------------- MODULE AdminNodeProofs ---------------------------
(***************************************************************************)
(* Theorems about AdminNode, for every set of addresses, keys and lists    *)
(* and any number of crashes: the ledger under the machine is Ledger's,    *)
(* and orders that may be given succeed, with any number of command lines; *)
(* a migration reaches every address once, and only those its check let    *)
(* through, with one.  MCAdminNodeOverlap shows two command lines failing. *)
(***************************************************************************)
EXTENDS AdminNode, LedgerEntryProofs

-----------------------------------------------------------------------------
(* The ledger under the machine *)

LogTypeOK == /\ log \in Seq(Message) /\ Len(log) <= MaxLog
             /\ played \in 0 .. Len(log)
             /\ command \in [Line -> Command]

\* A message of the log is applied by the handler of one of the admin's
\* operations, under a hash of its own.
LEMMA PlayIsLedgerStep ==
  ASSUME LogTypeOK, Play
  PROVE  Next
<1>. DEFINE m == log[played + 1]
<1>1. m \in Message /\ played + 1 \in Tx
  BY AdminNodeAssumption DEF LogTypeOK, Play
<1>2. CASE Refused("FAILURE")
  BY <1>2 DEF Next, MalformedOperation
<1>3. CASE Perform(played + 1, m)
  <2>1. AdminOperation(played + 1, Self)
    BY <1>1, <1>3, AdminNodeAssumption DEF Perform, AdminOperation, Message
  <2>. QED
    BY <1>1, <2>1, AdminNodeAssumption DEF Next
<1>. QED
  BY <1>2, <1>3 DEF Play

\* Whatever the machine or anybody else does is a step of the ledger or leaves it
\* alone.
LEMMA AdminNodeStep ==
  ASSUME LogTypeOK, [AdminNodeNext]_avars
  PROVE  [Next]_vars
<1>1. CASE Play
  BY <1>1, PlayIsLedgerStep
<1>2. CASE OthersStep
  BY <1>2 DEF OthersStep, Next
<1>3. CASE Sign \/ Crash \/ UNCHANGED avars
  BY <1>3 DEF Sign, Crash, avars
<1>4. ASSUME NEW l \in Line,
             \/ \E d \in Directory, rows \in List : Check(l, d, rows)
             \/ Record(l)
             \/ \E type \in Type \ Directory, to \in Address : Order(l, type, to)
             \/ \E a \in Address : Send(l, a)
             \/ AppendThrows(l)
      PROVE  UNCHANGED vars
  BY <1>4 DEF Check, Record, Order, Send, AppendThrows
<1>. QED
  BY <1>1, <1>2, <1>3, <1>4 DEF AdminNodeNext

-----------------------------------------------------------------------------
(* The migration files *)

\* Files are numbered without gaps, and a command that has yet to write its
\* file chose the number of one of them or the next.
Numbered(d, n) ==
  /\ DOMAIN files[d] = 1 .. n
  /\ \A l \in Line : command[l].stage = "checked" /\ command[l].type = d
       => command[l].number \in 1 .. n + 1

FilesInv ==
  /\ files = [d \in Directory |-> files[d]]
  /\ \A d \in Directory : \E n \in Nat : Numbered(d, n)

\* The next number is that of no file yet.
LEMMA NextNumberIsNew ==
  ASSUME NEW d \in Directory, NEW n \in Nat, DOMAIN files[d] = 1 .. n
  PROVE  NextNumber(d) = n + 1
<1>1. CASE n = 0
  BY <1>1 DEF NextNumber
<1>2. CASE n # 0
  <2>1. n \in 1 .. n /\ \A y \in 1 .. n : n >= y
    BY <1>2
  <2>2. Max(1 .. n) \in 1 .. n /\ \A y \in 1 .. n : Max(1 .. n) >= y
    BY <2>1 DEF Max
  <2>3. Max(1 .. n) = n
    BY <2>1, <2>2
  <2>. QED
    BY <1>2, <2>1, <2>3 DEF NextNumber
<1>. QED
  BY <1>1, <1>2

\* Writing a file replaces one or adds the next.
LEMMA WriteNumbers ==
  ASSUME files = [d \in Directory |-> files[d]], NEW d \in Directory,
         NEW n \in Nat, DOMAIN files[d] = 1 .. n,
         NEW k \in 1 .. n + 1, NEW rows, Write(d, k, rows)
  PROVE  /\ files' = [e \in Directory |-> files'[e]]
         /\ DOMAIN files'[d] = IF k = n + 1 THEN 1 .. n + 1 ELSE 1 .. n
         /\ files'[d][k] = rows
         /\ \A i \in 1 .. n : i # k => files'[d][i] = files[d][i]
         /\ \A e \in Directory \ {d} : files'[e] = files[e]
<1>. DEFINE written == [m \in DOMAIN files[d] \union {k} |->
                          IF m = k THEN rows ELSE files[d][m]]
<1>1. files' = [files EXCEPT ![d] = written]
  BY DEF Write
<1>2. /\ DOMAIN written = IF k = n + 1 THEN 1 .. n + 1 ELSE 1 .. n
      /\ written[k] = rows
      /\ \A i \in 1 .. n : i # k => written[i] = files[d][i]
  OBVIOUS
<1>. HIDE DEF written
<1>3. files'[d] = written /\ \A e \in Directory \ {d} : files'[e] = files[e]
  BY <1>1
<1>. QED
  BY <1>1, <1>2, <1>3

\* Commands that choose no number leave the numbering as it is.
LEMMA FilesStand ==
  ASSUME FilesInv, UNCHANGED files,
         \A l \in Line : command'[l].stage = "checked" => command'[l] = command[l]
  PROVE  FilesInv'
  BY DEF FilesInv, Numbered

\* A file under the number a command has chosen, new or written over, leaves no
\* gap in the numbers.
LEMMA WriteKeepsNumbers ==
  ASSUME FilesInv, NEW l \in Line, command[l].stage = "checked",
         command[l].type \in Directory,
         NEW rows, Write(command[l].type, command[l].number, rows),
         \A m \in Line : command'[m].stage = "checked" => command'[m] = command[m]
  PROVE  FilesInv'
<1>. DEFINE k == command[l].number
<1>1. PICK d \in Directory : d = command[l].type
  OBVIOUS
<1>2. PICK n \in Nat : Numbered(d, n)
  BY DEF FilesInv
<1>3. DOMAIN files[d] = 1 .. n /\ k \in 1 .. n + 1
  BY <1>1, <1>2 DEF Numbered
<1>4. /\ files' = [e \in Directory |-> files'[e]]
      /\ DOMAIN files'[d] = IF k = n + 1 THEN 1 .. n + 1 ELSE 1 .. n
      /\ \A e \in Directory \ {d} : files'[e] = files[e]
  <2>1. files = [e \in Directory |-> files[e]] /\ Write(d, k, rows)
    BY <1>1 DEF FilesInv
  <2>. QED
    BY <1>3, <2>1, WriteNumbers
<1>5. Numbered(d, n)' \/ Numbered(d, n + 1)'
  BY <1>2, <1>4 DEF Numbered
<1>6. \A e \in Directory : \E i \in Nat : Numbered(e, i)'
  <2>1. ASSUME NEW e \in Directory, e # d
        PROVE  \E i \in Nat : Numbered(e, i)'
    BY <1>4, <2>1 DEF FilesInv, Numbered
  <2>. QED
    BY <1>5, <2>1
<1>. QED
  BY <1>6, <1>4 DEF FilesInv

\* Crashes included, the numbers stay without gaps and every waiting command's
\* number within or one past them.
LEMMA FilesStep ==
  ASSUME LogTypeOK, FilesInv, [AdminNodeNext]_avars
  PROVE  FilesInv'
<1>1. CASE Sign \/ Play \/ OthersStep \/ UNCHANGED avars
  BY <1>1, FilesStand DEF Sign, Play, OthersStep, avars
<1>2. CASE Crash
  <2>1. \A l \in Line : command'[l].stage # "checked"
    BY <1>2 DEF Crash, Prompt
  <2>2. CASE UNCHANGED files
    BY <2>1, <2>2, FilesStand
  <2>3. ASSUME NEW l \in Line, command[l].stage = "checked", NEW some,
               Write(command[l].type, command[l].number, some)
        PROVE  FilesInv'
    <3>1. command[l].type \in Directory
      BY <2>3 DEF LogTypeOK, Command
    <3>. QED
      BY <2>1, <2>3, <3>1, WriteKeepsNumbers
  <2>. QED
    BY <1>2, <2>2, <2>3 DEF Crash
<1>3. ASSUME NEW l \in Line, NEW d \in Directory, NEW rows \in List, Check(l, d, rows)
      PROVE  FilesInv'
  <2>. DEFINE c == [stage |-> "checked", type |-> d, rows |-> rows, number |-> NextNumber(d)]
  <2>1. /\ files' = files /\ command'[l] = c
        /\ \A m \in Line \ {l} : command'[m] = command[m]
    BY <1>3 DEF Check, LogTypeOK
  <2>2. c.type = d /\ c.number = NextNumber(d)
    OBVIOUS
  <2>. HIDE DEF c
  <2>3. ASSUME NEW e \in Directory
        PROVE  \E n \in Nat : Numbered(e, n)'
    <3>1. PICK n \in Nat : Numbered(e, n)
      BY DEF FilesInv
    <3>2. e = d => NextNumber(d) = n + 1
      BY <3>1, NextNumberIsNew DEF Numbered
    <3>3. Numbered(e, n)'
      BY <2>1, <2>2, <3>1, <3>2 DEF Numbered
    <3>. QED
      BY <3>3
  <2>. QED
    BY <2>1, <2>3 DEF FilesInv
<1>4. ASSUME NEW l \in Line, Record(l)
      PROVE  FilesInv'
  <2>1. command[l].type \in Directory /\ command'[l].stage = "sending"
    BY <1>4 DEF Record, LogTypeOK, Command
  <2>2. \A m \in Line : command'[m].stage = "checked" => command'[m] = command[m]
    BY <1>4, <2>1 DEF Record, LogTypeOK
  <2>. QED
    BY <1>4, <2>1, <2>2, WriteKeepsNumbers DEF Record
<1>5. ASSUME NEW l \in Line, NEW type \in Type \ Directory, NEW to \in Address,
             Order(l, type, to)
      PROVE  FilesInv'
  BY <1>5, FilesStand DEF Order, LogTypeOK
<1>6. ASSUME NEW l \in Line, NEW a \in Address, Send(l, a)
      PROVE  FilesInv'
  <2>1. command'[l].stage # "checked"
    BY <1>6 DEF Send, Done, LogTypeOK, Command, Prompt
  <2>. QED
    BY <1>6, <2>1, FilesStand DEF Send, LogTypeOK
<1>7. ASSUME NEW l \in Line, AppendThrows(l)
      PROVE  FilesInv'
  BY <1>7, FilesStand DEF AppendThrows, LogTypeOK, Prompt
<1>. QED
  BY <1>1, <1>2, <1>3, <1>4, <1>5, <1>6, <1>7 DEF AdminNodeNext

-----------------------------------------------------------------------------
(* Rows and messages *)

Recorded(d, a) == \E n \in DOMAIN files[d] : a \in files[d][n]
WasSent(d, a) == \E i \in DOMAIN log : log[i].type = d /\ log[i].to = a

\* What stands while a command waits: the number it chose is free and its rows
\* are in no file; later its rows are in a file and have not been sent.
Stands(c) ==
  /\ c.stage = "checked" => c.number = NextNumber(c.type) /\ NotMigrated(c.type, c.rows)
  /\ c.stage = "sending" /\ c.type \in Directory =>
       \A a \in c.rows : Recorded(c.type, a) /\ ~WasSent(c.type, a)

\* What was sent is in a file.
RowsInv ==
  /\ \A d \in Directory : \A a \in Address : WasSent(d, a) => Recorded(d, a)
  /\ \A l \in Line : Stands(command[l])
  /\ RowsRunOnce

\* Writing a file under a number of its own forgets no row and records the
\* rows written.
LEMMA WriteRecords ==
  ASSUME FilesInv, NEW d \in Directory, NEW rows, Write(d, NextNumber(d), rows)
  PROVE  /\ \A e \in Directory : \A a : Recorded(e, a) => Recorded(e, a)'
         /\ \A a \in rows : Recorded(d, a)'
<1>1. PICK n \in Nat : DOMAIN files[d] = 1 .. n
  BY DEF FilesInv, Numbered
<1>2. NextNumber(d) = n + 1
  BY <1>1, NextNumberIsNew
<1>3. /\ DOMAIN files'[d] = 1 .. n + 1
      /\ files'[d][n + 1] = rows
      /\ \A i \in 1 .. n : files'[d][i] = files[d][i]
      /\ \A e \in Directory \ {d} : files'[e] = files[e]
  <2>1. files = [e \in Directory |-> files[e]] /\ Write(d, n + 1, rows)
    BY <1>2 DEF FilesInv
  <2>2. n + 1 \in 1 .. n + 1 /\ \A i \in 1 .. n : i # n + 1
    OBVIOUS
  <2>. QED
    BY <1>1, <2>1, <2>2, WriteNumbers
<1>4. ASSUME NEW e \in Directory, NEW a, Recorded(e, a)
      PROVE  Recorded(e, a)'
  <2>1. PICK k \in DOMAIN files[e] : a \in files[e][k]
    BY <1>4 DEF Recorded
  <2>2. CASE e = d
    <3>1. k \in 1 .. n /\ k \in 1 .. n + 1
      BY <1>1, <2>1, <2>2
    <3>. QED
      BY <1>3, <2>1, <2>2, <3>1 DEF Recorded
  <2>3. CASE e # d
    BY <1>3, <2>1, <2>3 DEF Recorded
  <2>. QED
    BY <2>2, <2>3
<1>5. ASSUME NEW a \in rows
      PROVE  Recorded(d, a)'
  BY <1>3, n + 1 \in 1 .. n + 1 DEF Recorded
<1>. QED
  BY <1>4, <1>5

\* Nothing of this depends on the ledger or the signed view.
LEMMA RowsStand ==
  ASSUME RowsInv, UNCHANGED <<files, command, log>>
  PROVE  RowsInv'
<1>1. \A d, a : (Recorded(d, a)' <=> Recorded(d, a)) /\ (WasSent(d, a)' <=> WasSent(d, a))
  BY DEF Recorded, WasSent
<1>2. \A c : Stands(c)' <=> Stands(c)
  BY <1>1 DEF Stands, NextNumber, NotMigrated
<1>. QED
  BY <1>1, <1>2 DEF RowsInv, RowsRunOnce

\* A command line that waits for input claims nothing.
LEMMA PromptStands == Stands(Prompt)
  BY DEF Stands, Prompt

\* A command that starts, ends or gives up leaves files and log alone.
LEMMA CommandStands ==
  ASSUME RowsInv, LogTypeOK, NEW l \in Line, Line = {l}, NEW c,
         UNCHANGED <<files, log>>, command' = [command EXCEPT ![l] = c], Stands(c)
  PROVE  RowsInv'
<1>1. \A d, a : (Recorded(d, a)' <=> Recorded(d, a)) /\ (WasSent(d, a)' <=> WasSent(d, a))
  BY DEF Recorded, WasSent
<1>2. \A e : Stands(e)' <=> Stands(e)
  BY <1>1 DEF Stands, NextNumber, NotMigrated
<1>3. command'[l] = c
  BY DEF LogTypeOK
<1>. QED
  BY <1>1, <1>2, <1>3 DEF RowsInv, RowsRunOnce

\* A command that records its rows has given none of them a message yet.
LEMMA RecordRows ==
  ASSUME RowsInv, FilesInv, LogTypeOK, NEW l \in Line, Line = {l}, Record(l)
  PROVE  RowsInv'
<1>1. PICK d, rows, txv :
        /\ d \in Directory /\ rows \subseteq Address
        /\ d = command[l].type /\ rows = command[l].rows /\ txv = indexers
  BY DEF Record, LogTypeOK, Command
<1>. DEFINE sending == [stage |-> "sending", type |-> d, rows |-> rows, txv |-> txv]
<1>2. /\ command[l].stage = "checked" /\ command[l].number = NextNumber(d)
      /\ command' = [command EXCEPT ![l] = sending] /\ log' = log
      /\ Write(d, NextNumber(d), rows)
  BY <1>1 DEF Record, RowsInv, Stands
<1>3. NotMigrated(d, rows)
  BY <1>1, <1>2 DEF RowsInv, Stands
<1>4. /\ \A e \in Directory : \A a : Recorded(e, a) => Recorded(e, a)'
      /\ \A a \in rows : Recorded(d, a)'
  BY <1>1, <1>2, WriteRecords
<1>5. \A e, a : WasSent(e, a)' <=> WasSent(e, a)
  BY <1>2 DEF WasSent
<1>6. \A a \in rows : ~WasSent(d, a)
  BY <1>1, <1>3 DEF RowsInv, NotMigrated, Recorded
<1>7. Stands(sending)' /\ command'[l] = sending
  BY <1>2, <1>4, <1>5, <1>6 DEF Stands, LogTypeOK
<1>8. /\ RowsRunOnce'
      /\ \A e \in Directory : \A a \in Address : WasSent(e, a)' => Recorded(e, a)'
  BY <1>2, <1>4, <1>5 DEF RowsInv, RowsRunOnce
<1>. QED
  BY <1>4, <1>7, <1>8 DEF RowsInv

\* Appending a message that was not sent yet, of an address that is recorded
LEMMA AppendRows ==
  ASSUME RowsRunOnce, log \in Seq(Message), NEW m \in Message, log' = Append(log, m),
         m.type \in Directory => ~WasSent(m.type, m.to)
  PROVE  /\ RowsRunOnce'
         /\ \A d, a : WasSent(d, a)' => WasSent(d, a) \/ (d = m.type /\ a = m.to)
<1>1. /\ DOMAIN log' = DOMAIN log \union {Len(log) + 1}
      /\ \A i \in DOMAIN log : log'[i] = log[i]
      /\ log'[Len(log) + 1] = m
  <2>1. Len(log') = Len(log) + 1 /\ \A i \in 1 .. Len(log) : log'[i] = log[i]
    OBVIOUS
  <2>. QED
    BY <2>1
<1>2. ASSUME NEW i \in DOMAIN log', NEW j \in DOMAIN log',
             log'[i].type \in Directory, log'[j].type = log'[i].type, log'[j].to = log'[i].to
      PROVE  i = j
  <2>1. CASE i \in DOMAIN log /\ j \in DOMAIN log
    BY <1>1, <1>2, <2>1 DEF RowsRunOnce
  <2>2. CASE i \notin DOMAIN log \/ j \notin DOMAIN log
    BY <1>1, <1>2, <2>2 DEF WasSent
  <2>. QED
    BY <2>1, <2>2
<1>3. ASSUME NEW d, NEW a, WasSent(d, a)'
      PROVE  WasSent(d, a) \/ (d = m.type /\ a = m.to)
  BY <1>1, <1>3 DEF WasSent
<1>. QED
  BY <1>2, <1>3 DEF RowsRunOnce

\* A row that is sent leaves the rows of its command, which is why it cannot be
\* sent a second time.
LEMMA SendRows ==
  ASSUME RowsInv, LogTypeOK, NEW l \in Line, Line = {l}, NEW a \in Address, Send(l, a)
  PROVE  RowsInv'
<1>. DEFINE c == command[l]
            m == [type |-> c.type, to |-> a, txv |-> c.txv]
<1>1. /\ c.stage = "sending" /\ a \in c.rows /\ c.type \in Type /\ m \in Message
      /\ command' = [command EXCEPT ![l] = Done(c, a)] /\ files' = files
      /\ log' = log \/ log' = Append(log, m)
  BY DEF Send, LogTypeOK, Command, Message
<1>2. c.type \in Directory =>
        \A b \in c.rows : Recorded(c.type, b) /\ ~WasSent(c.type, b)
  BY <1>1 DEF RowsInv, Stands
<1>3. \A d, b : Recorded(d, b)' <=> Recorded(d, b)
  BY <1>1 DEF Recorded
<1>4. /\ RowsRunOnce'
      /\ \A d, b : WasSent(d, b)' => WasSent(d, b) \/ (d = c.type /\ b = a)
  <2>1. CASE log' = log
    BY <2>1 DEF RowsInv, RowsRunOnce, WasSent
  <2>2. CASE log' = Append(log, m)
    <3>1. m.type = c.type /\ m.to = a
      OBVIOUS
    <3>2. RowsRunOnce /\ log \in Seq(Message)
      BY DEF RowsInv, LogTypeOK
    <3>. HIDE DEF m
    <3>. QED
      BY <1>1, <1>2, <2>2, <3>1, <3>2, AppendRows
  <2>. QED
    BY <1>1, <2>1, <2>2
<1>5. \A d \in Directory : \A b \in Address : WasSent(d, b)' => Recorded(d, b)'
  BY <1>1, <1>2, <1>3, <1>4 DEF RowsInv
<1>6. PICK left : left = Done(c, a)
  OBVIOUS
<1>7. Stands(left)' /\ command'[l] = left
  <2>1. CASE c.rows = {a}
    BY <1>1, <1>6, <2>1 DEF Done, Stands, Prompt, LogTypeOK
  <2>2. CASE c.rows # {a}
    <3>1. /\ left.stage = "sending" /\ left.type = c.type
          /\ left.rows = c.rows \ {a}
      BY <1>1, <1>6, <2>2 DEF Done, LogTypeOK, Command
    <3>2. left.type \in Directory =>
            \A b \in left.rows : Recorded(left.type, b)' /\ ~WasSent(left.type, b)'
      BY <1>2, <1>3, <1>4, <3>1
    <3>3. Stands(left)'
      BY <3>1, <3>2 DEF Stands
    <3>. QED
      BY <1>1, <1>6, <3>3 DEF LogTypeOK
  <2>. QED
    BY <2>1, <2>2
<1>. QED
  BY <1>1, <1>4, <1>5, <1>7 DEF RowsInv

\* A crash forgets what is left to send, never what was sent.
LEMMA CrashRows ==
  ASSUME RowsInv, FilesInv, LogTypeOK, Crash
  PROVE  RowsInv'
<1>1. log' = log /\ command' = [l \in Line |-> Prompt]
  BY DEF Crash
<1>2. \A d, a : WasSent(d, a)' <=> WasSent(d, a)
  BY <1>1 DEF WasSent
<1>3. \A d \in Directory : \A a : Recorded(d, a) => Recorded(d, a)'
  <2>1. CASE UNCHANGED files
    BY <2>1 DEF RowsInv, Recorded
  <2>2. ASSUME NEW l \in Line, command[l].stage = "checked", NEW some,
               Write(command[l].type, command[l].number, some)
        PROVE  <1>3!:
    <3>1. command[l].type \in Directory /\ command[l].number = NextNumber(command[l].type)
      BY <2>2 DEF RowsInv, Stands, LogTypeOK, Command
    <3>. QED
      BY <2>2, <3>1, WriteRecords
  <2>. QED
    BY <2>1, <2>2 DEF Crash
<1>4. \A l \in Line : Stands(command[l])'
  BY <1>1 DEF Stands, Prompt
<1>5. RowsRunOnce'
  BY <1>1 DEF RowsInv, RowsRunOnce
<1>. QED
  BY <1>2, <1>3, <1>4, <1>5 DEF RowsInv

-----------------------------------------------------------------------------
(* The invariant *)

\* Commands and messages keep their form.
LEMMA LogTypeStep ==
  ASSUME Inv, LogTypeOK, FilesInv, [AdminNodeNext]_avars
  PROVE  LogTypeOK'
<1>1. indexers \subseteq Key
  BY DEF Inv, TypeOK, LedgerTypeOK
<1>2. \A d \in Directory : NextNumber(d) \in Nat
  <2>1. ASSUME NEW d \in Directory
        PROVE  NextNumber(d) \in Nat
    <3>1. PICK n \in Nat : DOMAIN files[d] = 1 .. n
      BY DEF FilesInv, Numbered
    <3>. QED
      BY <3>1, NextNumberIsNew
  <2>. QED
    BY <2>1
<1>3. CASE Sign \/ OthersStep \/ UNCHANGED avars
  BY <1>3 DEF Sign, OthersStep, avars, LogTypeOK
<1>4. CASE Play
  BY <1>4 DEF Play, LogTypeOK
<1>5. CASE Crash
  BY <1>5 DEF Crash, LogTypeOK, Command, Prompt
<1>6. ASSUME NEW l \in Line, NEW d \in Directory, NEW rows \in List, Check(l, d, rows)
      PROVE  LogTypeOK'
  <2>1. [stage |-> "checked", type |-> d, rows |-> rows, number |-> NextNumber(d)] \in Command
    BY <1>2, AdminNodeAssumption DEF Command
  <2>. QED
    BY <1>6, <2>1 DEF Check, LogTypeOK
<1>7. ASSUME NEW l \in Line, Record(l)
      PROVE  LogTypeOK'
  <2>1. command[l].type \in Type /\ command[l].rows \subseteq Address
    BY <1>7 DEF Record, LogTypeOK, Command, Directory, Type, AdminControl
  <2>2. [stage |-> "sending", type |-> command[l].type, rows |-> command[l].rows,
         txv |-> indexers] \in Command
    BY <1>1, <2>1 DEF Command
  <2>. QED
    BY <1>7, <2>2 DEF Record, LogTypeOK
<1>8. ASSUME NEW l \in Line, NEW type \in Type \ Directory, NEW to \in Address,
             Order(l, type, to)
      PROVE  LogTypeOK'
  <2>1. TxValidity(type) \subseteq Key
    BY <1>1, KeyAssumption DEF TxValidity
  <2>2. [stage |-> "sending", type |-> type, rows |-> {to}, txv |-> TxValidity(type)] \in Command
    BY <2>1 DEF Command
  <2>. QED
    BY <1>8, <2>2 DEF Order, LogTypeOK
<1>9. ASSUME NEW l \in Line, NEW a \in Address, Send(l, a)
      PROVE  LogTypeOK'
  <2>1. [type |-> command[l].type, to |-> a, txv |-> command[l].txv] \in Message
    BY <1>9 DEF Send, LogTypeOK, Command, Message
  <2>2. Done(command[l], a) \in Command
    BY <1>9 DEF Done, Send, LogTypeOK, Command, Prompt
  <2>3. command' \in [Line -> Command]
    BY <1>9, <2>2 DEF Send, LogTypeOK
  <2>4. log' \in Seq(Message) /\ Len(log') <= MaxLog /\ played \in 0 .. Len(log')
    BY <1>9, <2>1, AdminNodeAssumption DEF Send, LogTypeOK
  <2>. QED
    BY <1>9, <2>3, <2>4 DEF Send, LogTypeOK
<1>10. ASSUME NEW l \in Line, AppendThrows(l)
      PROVE  LogTypeOK'
  BY <1>10 DEF AppendThrows, LogTypeOK, Command, Prompt
<1>. QED
  BY <1>3, <1>4, <1>5, <1>6, <1>7, <1>8, <1>9, <1>10 DEF AdminNodeNext

\* Each step keeps what is recorded ahead of what is sent.
LEMMA RowsStep ==
  ASSUME LogTypeOK, FilesInv, RowsInv, NEW line, Line = {line}, [AdminNodeNext]_avars
  PROVE  RowsInv'
<1>1. CASE Sign \/ Play \/ OthersStep \/ UNCHANGED avars
  BY <1>1, RowsStand DEF Sign, Play, OthersStep, avars
<1>2. CASE Crash
  BY <1>2, CrashRows
<1>3. ASSUME NEW l \in Line, NEW d \in Directory, NEW rows \in List, Check(l, d, rows)
      PROVE  RowsInv'
  <2>1. PICK c : c = [stage |-> "checked", type |-> d, rows |-> rows,
                      number |-> NextNumber(d)]
    OBVIOUS
  <2>2. Stands(c)
    BY <1>3, <2>1 DEF Check, MayMigrate, Stands
  <2>. QED
    BY <1>3, <2>1, <2>2, CommandStands DEF Check
<1>4. ASSUME NEW l \in Line, Record(l)
      PROVE  RowsInv'
  BY <1>4, RecordRows
<1>5. ASSUME NEW l \in Line, NEW type \in Type \ Directory, NEW to \in Address,
             Order(l, type, to)
      PROVE  RowsInv'
  <2>1. PICK c : c = [stage |-> "sending", type |-> type, rows |-> {to},
                      txv |-> TxValidity(type)]
    OBVIOUS
  <2>2. Stands(c)
    BY <2>1 DEF Stands
  <2>. QED
    BY <1>5, <2>1, <2>2, CommandStands DEF Order
<1>6. ASSUME NEW l \in Line, NEW a \in Address, Send(l, a)
      PROVE  RowsInv'
  BY <1>6, SendRows
<1>7. ASSUME NEW l \in Line, AppendThrows(l)
      PROVE  RowsInv'
  BY <1>7, PromptStands, CommandStands DEF AppendThrows
<1>. QED
  BY <1>1, <1>2, <1>3, <1>4, <1>5, <1>6, <1>7 DEF AdminNodeNext

\* What holds however many command lines there are
NodeInv == Inv /\ EntryInv /\ LogTypeOK /\ FilesInv

\* The machine starts without files, messages and commands.
LEMMA InitNode ==
  Init /\ AdminNodeInit([d \in Directory |-> <<>>]) => NodeInv /\ RowsInv
<1>. SUFFICES ASSUME Init, AdminNodeInit([d \in Directory |-> <<>>])
              PROVE  NodeInv /\ RowsInv
  OBVIOUS
<1>1. Inv /\ EntryInv
  BY InitInv, InitEntries
<1>2. LogTypeOK
  BY AdminNodeAssumption DEF AdminNodeInit, LogTypeOK, Command, Prompt
<1>3. FilesInv
  <2>1. files = [d \in Directory |-> <<>>] /\ \A l \in Line : command[l].stage # "checked"
    BY DEF AdminNodeInit, Prompt
  <2>2. \A d \in Directory : DOMAIN files[d] = 1 .. 0
    BY <2>1
  <2>3. \A d \in Directory : Numbered(d, 0)
    BY <2>1, <2>2 DEF Numbered
  <2>. QED
    BY <2>1, <2>3 DEF FilesInv
<1>4. \A d, a : ~WasSent(d, a)
  BY DEF AdminNodeInit, WasSent
<1>5. \A l \in Line : Stands(command[l])
  BY PromptStands DEF AdminNodeInit
<1>6. RowsRunOnce
  BY DEF AdminNodeInit, RowsRunOnce
<1>7. RowsInv
  BY <1>4, <1>5, <1>6 DEF RowsInv
<1>. QED
  BY <1>1, <1>2, <1>3, <1>7 DEF NodeInv

\* Each step keeps the ledger's invariants and the numbers of the files.
LEMMA NodeStep ==
  ASSUME NodeInv, [AdminNodeNext]_avars
  PROVE  NodeInv'
<1>1. Inv' /\ EntryInv'
  BY AdminNodeStep, NextInv, NextEntries DEF NodeInv
<1>. QED
  BY <1>1, LogTypeStep, FilesStep DEF NodeInv

\* The invariant that holds with any number of command lines
LEMMA NodeIsKept == AdminNodeSpec => []NodeInv
<1>1. NodeInv /\ [AdminNodeNext]_avars => NodeInv'
  BY NodeStep
<1>. QED
  BY InitNode, <1>1, PTL DEF AdminNodeSpec

\* The invariant of what was sent needs one command line.
LEMMA RowsAreKept ==
  ASSUME NEW line, Line = {line}
  PROVE  AdminNodeSpec => []RowsInv
<1>1. NodeInv /\ RowsInv /\ [AdminNodeNext]_avars => RowsInv'
  BY RowsStep DEF NodeInv
<1>. QED
  BY InitNode, NodeIsKept, <1>1, PTL DEF AdminNodeSpec

-----------------------------------------------------------------------------
(* What the ledger may do under a row that waits *)

\* Who the admin is does not change, and its key is replaced by a fresh one.
AdminMoves ==
  /\ HasAdmin => admin'.addr = admin.addr
  /\ admin'.wk = admin.wk \/ owner[admin'.wk] = NoAddress

\* A step adds at most the hash tx.
Applies(tx) == applied' \subseteq applied \union {tx}

\* The admin's operations keep the admin, at most at a key that nobody had, and
\* use up one hash.
LEMMA AdminOperationMoves ==
  ASSUME NEW tx, NEW r, AdminOperation(tx, r)
  PROVE  AdminMoves /\ Applies(tx)
<1>. DEFINE Stays == admin' = admin /\ Applies(tx)
<1>1. \A s : Refused(s) => Stays
  BY DEF Refused, ledger, Applies
<1>2. \A s : Stored(tx, s) => s = "SUCCESS" /\ Applies(tx)
  BY DEF Stored, Applies
<1>3. Stays => AdminMoves /\ Applies(tx)
  BY DEF AdminMoves
<1>4. CASE DisableInitialization(tx, r)
  <2>1. Stays
    BY <1>1, <1>2, <1>4, Zenon DEF DisableInitialization
  <2>. QED
    BY <1>3, <2>1
<1>5. ASSUME NEW to, NEW amount, InitializeBalance(tx, r, to, amount)
      PROVE  Stays
  BY <1>1, <1>2, <1>5, Zenon DEF InitializeBalance
<1>6. ASSUME NEW iw, AddAdmin(tx, r, iw)
      PROVE  AdminMoves /\ Applies(tx)
  <2>1. CASE Refused(AddAdminStatus(tx, iw))
    BY <1>1, <1>3, <2>1
  <2>2. CASE ~Refused(AddAdminStatus(tx, iw))
    <3>1. /\ Stored(tx, AddAdminStatus(tx, iw))
          /\ admin' = [addr |-> r, wk |-> iw]
      BY <1>6, <2>2, Zenon DEF AddAdmin
    <3>2. ~HasAdmin /\ owner[iw] = NoAddress
      BY <3>1, <1>2 DEF AddAdminStatus
    <3>. QED
      BY <1>2, <3>1, <3>2 DEF AdminMoves
  <2>. QED
    BY <2>1, <2>2
<1>7. ASSUME NEW to, AppendWhitelist(tx, r, to)
      PROVE  Stays
  BY <1>1, <1>2, <1>7, Zenon DEF AppendWhitelist
<1>8. ASSUME NEW to, AddIndexer(tx, r, to) \/ RemoveIndexer(tx, r, to)
      PROVE  Stays
  BY <1>1, <1>2, <1>8, Zenon DEF AddIndexer, RemoveIndexer
<1>9. ASSUME NEW to, BanValidator(tx, r, to)
      PROVE  Stays
  BY <1>1, <1>2, <1>9, Zenon DEF BanValidator
<1>. HIDE DEF Stays
<1>. QED
  BY <1>3, <1>4, <1>5, <1>6, <1>7, <1>8, <1>9 DEF AdminOperation

\* So do the operations that a validator signs.
LEMMA CosignedOperationMoves ==
  ASSUME NEW tx, NEW r, NEW v, CosignedOperation(tx, r, v)
  PROVE  AdminMoves /\ Applies(tx)
<1>. DEFINE Stays == admin' = admin /\ Applies(tx)
<1>1. \A s : Refused(s) => Stays
  BY DEF Refused, ledger, Applies
<1>2. \A s : Stored(tx, s) => s = "SUCCESS" /\ Applies(tx)
  BY DEF Stored, Applies
<1>3. Stays => AdminMoves /\ Applies(tx)
  BY DEF AdminMoves
<1>4. ASSUME NEW iw, AdminRecovery(tx, r, iw, v)
      PROVE  AdminMoves /\ Applies(tx)
  <2>1. CASE Refused(AdminRecoveryStatus(tx, r, iw, v))
    BY <1>1, <1>3, <2>1
  <2>2. CASE ~Refused(AdminRecoveryStatus(tx, r, iw, v))
    <3>1. /\ Stored(tx, AdminRecoveryStatus(tx, r, iw, v))
          /\ admin' = [addr |-> r, wk |-> iw]
      BY <1>4, <2>2, Zenon DEF AdminRecovery
    <3>2. admin.addr = r /\ owner[iw] = NoAddress
      BY <3>1, <1>2 DEF AdminRecoveryStatus
    <3>. QED
      BY <1>2, <3>1, <3>2 DEF AdminMoves
  <2>. QED
    BY <2>1, <2>2
<1>5. ASSUME NEW iw, AddWriter(tx, r, iw, v) \/ RemoveWriter(tx, r, iw, v)
      PROVE  Stays
  BY <1>1, <1>2, <1>5, Zenon DEF AddWriter, RemoveWriter
<1>6. ASSUME NEW bs, BootstrapDeployment(tx, r, bs, v) \/ TxOperation(tx, r, bs, v)
      PROVE  Stays
  BY <1>1, <1>2, <1>6, Zenon DEF BootstrapDeployment, TxOperation
<1>7. ASSUME NEW to, NEW amount, Transfer(tx, r, to, amount, v)
      PROVE  Stays
  <2>1. Throw => Stays
    BY DEF Throw, ledger, Applies
  <2>. QED
    BY <1>1, <1>2, <1>7, <2>1, Zenon DEF Transfer
<1>. HIDE DEF Stays
<1>. QED
  BY <1>3, <1>4, <1>5, <1>6, <1>7 DEF CosignedOperation

\* The ends of a batch change neither admin nor hashes.
LEMMA BatchStepMoves ==
  ASSUME \/ EndBatch
         \/ \E k \in Key : StartBatch(k) \/ OversizedBatch(k)
         \/ MalformedOperation
         \/ UNCHANGED vars
  PROVE  admin' = admin /\ applied' = applied
  BY DEF EndBatch, StartBatch, OversizedBatch, ValidatorPenalty, MalformedOperation,
     Refused, vars, ledger

\* Others use other hashes, and as long as the admin works from this machine
\* they whitelist nobody.
LEMMA OthersMove ==
  ASSUME NodeInv, OthersStep
  PROVE  /\ AdminMoves
         /\ applied' \intersect (1 .. MaxLog) \subseteq applied
         /\ HasAdmin /\ admin.wk = OwnKey => AdmitsOnly({})
<1>0. TypeOK /\ Inv /\ EntryInv
  BY DEF NodeInv, Inv
<1>1. CASE \/ EndBatch
           \/ \E k \in Key : StartBatch(k) \/ OversizedBatch(k)
  BY <1>0, <1>1, BatchStepMoves, BatchStepEntries DEF AdminMoves
<1>2. CASE MalformedOperation
  BY <1>0, <1>2, BatchStepMoves, RefusedStep DEF AdminMoves, MalformedOperation
<1>3. ASSUME NEW tx \in Tx \ (1 .. MaxLog), NEW r \in Address, ~OwnBatch, AdminOperation(tx, r)
      PROVE  /\ AdminMoves /\ Applies(tx)
             /\ HasAdmin /\ admin.wk = OwnKey => AdmitsOnly({})
  <2>1. batch.from # OwnKey
    BY <1>3, AdminNodeAssumption, KeyAssumption DEF OwnBatch, Open
  <2>. QED
    BY <1>0, <1>3, <2>1, AdminOperationMoves, AdminOperationEntries
<1>4. ASSUME NEW tx \in Tx \ (1 .. MaxLog), NEW r \in Address, NEW v \in Address,
             CosignedOperation(tx, r, v)
      PROVE  AdminMoves /\ Applies(tx) /\ AdmitsOnly({})
  BY <1>0, <1>4, CosignedOperationMoves, CosignedOperationEntries
<1>5. ASSUME NEW tx \in Tx \ (1 .. MaxLog), Applies(tx)
      PROVE  applied' \intersect (1 .. MaxLog) \subseteq applied
  BY <1>5 DEF Applies
<1>. QED
  BY <1>1, <1>2, <1>3, <1>4, <1>5 DEF OthersStep

\* A message of the log uses the hash of its position, and only a whitelisting
\* whitelists, nobody but the address it names.
LEMMA PlayMoves ==
  ASSUME NodeInv, Play
  PROVE  LET m == log[played + 1] IN
         /\ AdminMoves
         /\ Applies(played + 1)
         /\ HasAdmin => AdmitsOnly(IF m.type = "appendWhitelist" THEN {m.to} ELSE {})
<1>. DEFINE m == log[played + 1]
            tx == played + 1
            Goal == /\ AdminMoves
                    /\ Applies(tx)
                    /\ HasAdmin => AdmitsOnly(IF m.type = "appendWhitelist" THEN {m.to} ELSE {})
<1>. SUFFICES Goal
  OBVIOUS
<1>0. TypeOK /\ Inv /\ EntryInv
  BY DEF NodeInv, Inv
<1>1. m \in Message /\ tx \in Tx /\ Self \in Address /\ OwnKey \in Key
  BY AdminNodeAssumption DEF NodeInv, LogTypeOK, Play
<1>2. m.to \in Address
  BY <1>1 DEF Message
<1>3. CASE Refused("FAILURE")
  <2>1. AdminMoves /\ Applies(tx)
    BY <1>3 DEF Refused, ledger, AdminMoves, Applies
  <2>. QED
    BY <1>0, <1>3, <2>1, RefusedStep, AdmitsNobody
<1>4. CASE Perform(tx, m)
  <2>1. AdminOperation(tx, Self)
    BY <1>1, <1>2, <1>4 DEF Perform, AdminOperation
  <2>2. AdminMoves /\ Applies(tx)
    BY <2>1, AdminOperationMoves
  <2>. HIDE DEF m, tx
  <2>3. CASE m.type = "appendWhitelist" /\ AppendWhitelist(tx, Self, m.to)
    BY <1>0, <1>1, <1>2, <2>2, <2>3, AppendWhitelistEntries
  <2>4. CASE m.type = "addAdmin" /\ AddAdmin(tx, Self, OwnKey)
    BY <1>0, <1>1, <2>2, <2>4, AddAdminEntries
  <2>5. CASE m.type = "disableInitialization" /\ DisableInitialization(tx, Self)
    BY <1>0, <1>1, <2>2, <2>5, DisableInitializationEntries
  <2>6. CASE /\ m.type = "balanceInitialization"
             /\ \E amount \in Grant : InitializeBalance(tx, Self, m.to, amount)
    BY <1>0, <1>1, <1>2, <2>2, <2>6, InitializeBalanceEntries
  <2>7. CASE m.type = "addIndexer" /\ AddIndexer(tx, Self, m.to)
    BY <1>0, <1>1, <1>2, <2>2, <2>7, AddIndexerEntries
  <2>8. CASE m.type = "removeIndexer" /\ RemoveIndexer(tx, Self, m.to)
    BY <1>0, <1>1, <1>2, <2>2, <2>8, RemoveIndexerEntries
  <2>9. CASE m.type = "banValidator" /\ BanValidator(tx, Self, m.to)
    BY <1>0, <1>1, <1>2, <2>2, <2>9, BanValidatorEntries
  <2>. QED
    BY <1>4, <2>3, <2>4, <2>5, <2>6, <2>7, <2>8, <2>9 DEF Perform
<1>. QED
  BY <1>3, <1>4 DEF Play

-----------------------------------------------------------------------------
(* A row that waits still fits *)

\* The admin's key was this machine's at some time.
Assigned == owner[OwnKey] = Self /\ admin.addr = Self

\* What the check of the row found still holds, as long as the admin works
\* from this machine.
Fits(d, a) ==
  IF d = "appendWhitelist" THEN admin.wk = OwnKey => ~IsWhitelisted(a)
                           ELSE a # Self /\ (admin.wk = OwnKey => node[a].license = 0)

Migrating(c) == c.stage \in {"checked", "sending"} /\ c.type \in Directory

Unplayed(i, d) == i \in DOMAIN log /\ played < i /\ log[i].type = d

\* The signed view is behind, but never wrong about who the admin is.
SignedInv ==
  /\ signed.admin.addr # NoAddress => admin.addr = signed.admin.addr
  /\ IsAdmin(signed) => owner[OwnKey] = Self

\* No message that is still to be applied has been applied under its hash.
HashesInv == applied \intersect (1 .. MaxLog) \subseteq 1 .. played

\* A balance migration starts when no whitelisting is under way.
MayGoOn(c) ==
  Migrating(c) =>
    /\ Assigned
    /\ \A a \in c.rows : Fits(c.type, a)
    /\ c.type = "balanceInitialization" /\ admin.wk = OwnKey
       => \A i : ~Unplayed(i, "appendWhitelist")

CommandsInv == \A l \in Line : MayGoOn(command[l])

MessagesInv ==
  /\ \A d \in Directory : \A i : Unplayed(i, d) => Assigned /\ Fits(d, log[i].to)
  /\ admin.wk = OwnKey =>
       \A i, j : Unplayed(i, "appendWhitelist") /\ Unplayed(j, "balanceInitialization")
                 => j < i

MigrationInv == SignedInv /\ HashesInv /\ CommandsInv /\ MessagesInv

\* An address has no two messages of one migration, and those of a command
\* that waits have not been sent at all.
LEMMA PlayedIsNotWaiting ==
  ASSUME RowsInv, NEW i \in DOMAIN log, log[i].type \in Directory, log[i].to \in Address
  PROVE  /\ \A j \in DOMAIN log : log[j].type = log[i].type /\ j # i => log[j].to # log[i].to
         /\ \A l \in Line : Migrating(command[l]) /\ command[l].type = log[i].type
              => log[i].to \notin command[l].rows
<1>1. \A j \in DOMAIN log : log[j].type = log[i].type /\ j # i => log[j].to # log[i].to
  BY DEF RowsInv, RowsRunOnce
<1>2. ASSUME NEW l \in Line, Migrating(command[l]), command[l].type = log[i].type
      PROVE  log[i].to \notin command[l].rows
  <2>1. WasSent(log[i].type, log[i].to) /\ Recorded(log[i].type, log[i].to)
    BY DEF WasSent, RowsInv
  <2>2. Stands(command[l])
    BY DEF RowsInv
  <2>3. CASE command[l].stage = "sending"
    BY <1>2, <2>1, <2>2, <2>3 DEF Stands
  <2>4. CASE command[l].stage = "checked"
    BY <1>2, <2>1, <2>2, <2>4 DEF Stands, NotMigrated, Recorded
  <2>. QED
    BY <1>2, <2>3, <2>4 DEF Migrating
<1>. QED
  BY <1>1, <1>2

\* While the admin's batch from this machine is open, this machine has the
\* admin's key: a recovery would have ended it.
LEMMA InOffice ==
  ASSUME NodeInv, OwnBatch, Assigned
  PROVE  AdminRequest(Self) /\ admin.wk = OwnKey
<1>1. HasAdmin /\ OwnKey \in writers
  BY AdminNodeAssumption, AddressAssumption
  DEF NodeInv, Inv, BatchOfWriter, OwnBatch, Assigned, HasAdmin
<1>2. node[Self].wk = OwnKey /\ node[admin.addr].wk = admin.wk
  BY <1>1 DEF NodeInv, Inv, WritersAreValidators, AdminStaysInOffice, Assigned
<1>. QED
  BY <1>1, <1>2 DEF Assigned, AdminRequest, OwnBatch

\* What no step takes back
LEMMA AssignedStands ==
  ASSUME NodeInv, [Next]_vars, AdminMoves, Assigned
  PROVE  Assigned' /\ HasAdmin /\ (admin'.wk = OwnKey => admin.wk = OwnKey)
<1>1. HasAdmin /\ owner[OwnKey] # NoAddress
  BY AdminNodeAssumption, AddressAssumption DEF Assigned, HasAdmin
<1>2. owner'[OwnKey] = owner[OwnKey]
  BY <1>1, NextEntries, AdminNodeAssumption DEF NodeInv, Careful
<1>. QED
  BY <1>1, <1>2 DEF Assigned, AdminMoves

\* A row fits on unless it was whitelisted.
LEMMA FitsStands ==
  ASSUME NodeInv, [Next]_vars, AdminMoves, Assigned, NEW S,
         admin.wk = OwnKey => AdmitsOnly(S),
         NEW d \in Directory, NEW a \in Address, a \notin S, Fits(d, a)
  PROVE  Fits(d, a)'
<1>1. admin'.wk = OwnKey => admin.wk = OwnKey
  BY AssignedStands
<1>2. ASSUME admin.wk = OwnKey
      PROVE  /\ IsWhitelisted(a)' => IsWhitelisted(a)
             /\ node[a].license = 0 => node'[a].license = 0
  BY <1>2 DEF AdmitsOnly
<1>. QED
  BY <1>1, <1>2 DEF Fits

\* The admin that a lagging view shows is still the admin.
LEMMA SignedStands ==
  ASSUME NodeInv, [Next]_vars, AdminMoves, SignedInv, UNCHANGED signed
  PROVE  SignedInv'
<1>1. signed.admin.addr # NoAddress => admin'.addr = admin.addr
  BY DEF SignedInv, AdminMoves, HasAdmin
<1>2. owner[OwnKey] = Self => owner'[OwnKey] = Self
  BY NextEntries, AdminNodeAssumption, AddressAssumption DEF NodeInv, Careful
<1>. QED
  BY <1>1, <1>2 DEF SignedInv, IsAdmin

\* Rows and recipients are addresses.
LEMMA RowTypes ==
  ASSUME LogTypeOK
  PROVE  /\ \A l \in Line : Migrating(command[l]) => command[l].rows \subseteq Address
         /\ \A i \in DOMAIN log : log[i].to \in Address
<1>1. ASSUME NEW l \in Line, Migrating(command[l]) PROVE command[l].rows \subseteq Address
  BY <1>1 DEF LogTypeOK, Migrating, Command
<1>2. ASSUME NEW i \in DOMAIN log PROVE log[i].to \in Address
  <2>1. log[i] \in Message
    BY DEF LogTypeOK
  <2>. QED
    BY <2>1 DEF Message
<1>. QED
  BY <1>1, <1>2

\* The ledger goes on under what waits here: what it whitelists, if anything,
\* is in S, and nobody in S waits to be whitelisted or initialized.
LEMMA LedgerMigration ==
  ASSUME NodeInv, [Next]_vars, AdminMoves, MigrationInv,
         UNCHANGED <<command, log, signed>>, played' \in Nat, played' >= played,
         NEW S, admin.wk = OwnKey /\ HasAdmin => AdmitsOnly(S),
         \A l \in Line : Migrating(command[l]) /\ admin.wk = OwnKey =>
           command[l].rows \intersect S = {},
         \A d \in Directory : \A i : Unplayed(i, d)' /\ admin.wk = OwnKey => log[i].to \notin S
  PROVE  SignedInv' /\ CommandsInv' /\ MessagesInv'
<1>1. \A i, d : Unplayed(i, d)' => Unplayed(i, d)
  BY DEF Unplayed, NodeInv, LogTypeOK
<1>2. SignedInv'
  BY SignedStands DEF MigrationInv
<1>3. ASSUME NEW d \in Directory, NEW a \in Address, Assigned, Fits(d, a),
             admin.wk = OwnKey => a \notin S
      PROVE  Assigned' /\ Fits(d, a)'
  <2>1. Assigned' /\ HasAdmin /\ (admin'.wk = OwnKey => admin.wk = OwnKey)
    BY <1>3, AssignedStands
  <2>2. CASE a \notin S
    BY <1>3, <2>1, <2>2, FitsStands
  <2>3. CASE admin.wk # OwnKey
    BY <1>3, <2>1, <2>3 DEF Fits
  <2>. QED
    BY <1>3, <2>1, <2>2, <2>3
<1>4. ASSUME NEW l \in Line, NEW c, c = command[l]
      PROVE  MayGoOn(c)'
  <2>. SUFFICES ASSUME Migrating(c)
                PROVE  /\ Assigned'
                       /\ \A a \in c.rows : Fits(c.type, a)'
                       /\ c.type = "balanceInitialization" /\ admin'.wk = OwnKey
                          => \A i : ~Unplayed(i, "appendWhitelist")'
    BY DEF MayGoOn, Migrating
  <2>1. /\ c.type \in Directory /\ c.rows \subseteq Address
        /\ admin.wk = OwnKey => c.rows \intersect S = {}
    BY <1>4, RowTypes DEF Migrating, NodeInv
  <2>2. /\ Assigned
        /\ \A a \in c.rows : Fits(c.type, a)
        /\ c.type = "balanceInitialization" /\ admin.wk = OwnKey
           => \A i : ~Unplayed(i, "appendWhitelist")
    BY <1>4 DEF MigrationInv, CommandsInv, MayGoOn
  <2>3. Assigned' /\ (admin'.wk = OwnKey => admin.wk = OwnKey)
    BY <2>2, AssignedStands
  <2>4. ASSUME NEW a \in c.rows PROVE Fits(c.type, a)'
    <3>1. a \in Address /\ (admin.wk = OwnKey => a \notin S) /\ Fits(c.type, a)
      BY <2>1, <2>2
    <3>. QED
      BY <1>3, <2>1, <2>2, <3>1
  <2>. QED
    BY <1>1, <2>2, <2>3, <2>4
<1>5. ASSUME NEW d \in Directory, NEW i, Unplayed(i, d)', NEW a, a = log[i].to
      PROVE  Assigned' /\ Fits(d, a)'
  <2>1. Unplayed(i, d) /\ i \in DOMAIN log
    BY <1>1, <1>5 DEF Unplayed
  <2>2. Assigned /\ Fits(d, a) /\ a \in Address /\ (admin.wk = OwnKey => a \notin S)
    BY <1>5, <2>1, RowTypes DEF MigrationInv, MessagesInv, NodeInv
  <2>. QED
    BY <1>3, <2>2
<1>6. ASSUME admin'.wk = OwnKey, NEW i, NEW j,
             Unplayed(i, "appendWhitelist")', Unplayed(j, "balanceInitialization")'
      PROVE  j < i
  <2>1. Unplayed(i, "appendWhitelist") /\ Unplayed(j, "balanceInitialization")
    BY <1>1, <1>6
  <2>2. Assigned
    BY <2>1 DEF MigrationInv, MessagesInv, Directory
  <2>. QED
    BY <1>6, <2>1, <2>2, AssignedStands DEF MigrationInv, MessagesInv
<1>7. CommandsInv'
  BY <1>4 DEF CommandsInv
<1>8. \A d \in Directory : \A i : Unplayed(i, d)' => Assigned' /\ Fits(d, log[i].to)'
  <2>1. ASSUME NEW d \in Directory, NEW i, Unplayed(i, d)'
        PROVE  Assigned' /\ Fits(d, log[i].to)'
    <3>1. PICK a : a = log[i].to
      OBVIOUS
    <3>2. Fits(d, a)' /\ Assigned' /\ a = log'[i].to
      BY <1>5, <2>1, <3>1
    <3>. QED
      BY <3>2
  <2>. QED
    BY <2>1
<1>9. MessagesInv'
  BY <1>6, <1>8 DEF MessagesInv
<1>. QED
  BY <1>2, <1>7, <1>9

\* Nothing of this but the commands themselves changes with the commands, the
\* files or the signed view.
LEMMA MigrationStands ==
  ASSUME MigrationInv, UNCHANGED <<vars, log, played>>
  PROVE  /\ HashesInv' /\ MessagesInv'
         /\ UNCHANGED signed => SignedInv'
         /\ \A c : MayGoOn(c)' <=> MayGoOn(c)
<1>1. /\ Assigned' <=> Assigned
      /\ \A d, a : Fits(d, a)' <=> Fits(d, a)
      /\ \A i, d : Unplayed(i, d)' <=> Unplayed(i, d)
      /\ admin' = admin /\ owner' = owner
  BY DEF Assigned, Fits, IsWhitelisted, Unplayed, vars, ledger
<1>2. HashesInv'
  BY DEF MigrationInv, HashesInv, vars, ledger
<1>3. UNCHANGED signed => SignedInv'
  BY <1>1 DEF MigrationInv, SignedInv, IsAdmin
<1>4. MessagesInv'
  BY <1>1 DEF MigrationInv, MessagesInv
<1>5. ASSUME NEW c PROVE MayGoOn(c)' <=> MayGoOn(c)
  BY <1>1 DEF MayGoOn, Migrating
<1>. QED
  BY <1>2, <1>3, <1>4, <1>5

\* A step of one command line that sends nothing
LEMMA CommandMigrates ==
  ASSUME NodeInv, MigrationInv, NEW l \in Line, NEW c, MayGoOn(c),
         command' = [command EXCEPT ![l] = c], UNCHANGED <<vars, log, played, signed>>
  PROVE  MigrationInv'
<1>1. ASSUME NEW k \in Line, NEW b, b = command'[k] PROVE MayGoOn(b)
  BY <1>1 DEF NodeInv, LogTypeOK, MigrationInv, CommandsInv
<1>2. ASSUME NEW k \in Line PROVE MayGoOn(command[k])'
  <2>1. PICK b : b = command'[k]
    OBVIOUS
  <2>2. MayGoOn(b)'
    BY <1>1, <2>1, MigrationStands
  <2>. QED
    BY <2>1, <2>2 DEF MayGoOn, Migrating
<1>. QED
  BY <1>2, MigrationStands DEF MigrationInv, CommandsInv

\* A command line that waits for input may go on.
LEMMA PromptMayGoOn == MayGoOn(Prompt)
  BY DEF MayGoOn, Migrating, Prompt

\* The check sees to it that the admin's key is this machine's, that every row
\* fits, and that the machine's own log has been applied.
LEMMA CheckMigrates ==
  ASSUME NodeInv, MigrationInv, NEW l \in Line, NEW d \in Directory, NEW rows \in List,
         Check(l, d, rows)
  PROVE  MigrationInv'
<1>1. PICK c : c = [stage |-> "checked", type |-> d, rows |-> rows,
                    number |-> NextNumber(d)]
  OBVIOUS
<1>2. Awake /\ MayMigrate(signed, d, rows)
  BY DEF Check
<1>3. Assigned
  BY <1>2, AdminNodeAssumption, AddressAssumption
  DEF MayMigrate, IsAdmin, MigrationInv, SignedInv, Assigned
<1>4. \A a \in rows : Fits(d, a)
  BY <1>2 DEF MayMigrate, IsAdmin, Incoming, Fits
<1>5. ASSUME admin.wk = OwnKey, NEW i, Unplayed(i, "appendWhitelist")
      PROVE  FALSE
  <2>1. HasAdmin
    BY <1>3, AdminNodeAssumption, AddressAssumption DEF Assigned, HasAdmin
  <2>2. OwnKey \in writers
    BY <1>5, <2>1 DEF NodeInv, Inv, AdminStaysInOffice
  <2>. QED
    BY <1>2, <1>5, <2>2 DEF Awake, Unplayed, NodeInv, LogTypeOK
<1>6. MayGoOn(c)
  BY <1>1, <1>3, <1>4, <1>5 DEF MayGoOn
<1>. QED
  BY <1>1, <1>6, CommandMigrates DEF Check

\* Recording gives the checked rows the txv of this moment.
LEMMA RecordMigrates ==
  ASSUME NodeInv, MigrationInv, NEW l \in Line, Record(l)
  PROVE  MigrationInv'
<1>1. PICK b, c : /\ b = command[l]
                  /\ c = [stage |-> "sending", type |-> b.type, rows |-> b.rows,
                          txv |-> indexers]
  OBVIOUS
<1>2. b.stage = "checked" /\ b.type \in Directory
  BY <1>1 DEF Record, NodeInv, LogTypeOK, Command
<1>3. MayGoOn(b)
  BY <1>1 DEF MigrationInv, CommandsInv
<1>4. MayGoOn(c)
  <2>1. Migrating(b) /\ c.type = b.type /\ c.rows = b.rows
    BY <1>1, <1>2 DEF Migrating
  <2>. QED
    BY <1>3, <2>1 DEF MayGoOn
<1>. QED
  BY <1>1, <1>4, CommandMigrates DEF Record

\* A message is appended while nothing of the other kind waits to be applied
\* before it.
LEMMA SendMigrates ==
  ASSUME NodeInv, MigrationInv, NEW l \in Line, Line = {l}, NEW a \in Address, Send(l, a)
  PROVE  MigrationInv'
<1>1. PICK c, m, b : /\ c = command[l]
                     /\ m = [type |-> c.type, to |-> a, txv |-> c.txv]
                     /\ b = Done(c, a)
  OBVIOUS
<1>2. /\ c.stage = "sending" /\ a \in c.rows /\ m.type = c.type /\ m.to = a
      /\ m \in Message
      /\ command' = [command EXCEPT ![l] = b]
      /\ log' = log \/ log' = Append(log, m)
      /\ UNCHANGED <<vars, played, signed>>
  BY <1>1 DEF Send, NodeInv, LogTypeOK, Command, Message
<1>3. MayGoOn(c)
  BY <1>1 DEF MigrationInv, CommandsInv
<1>4. b = Prompt \/ (b.stage = "sending" /\ b.type = c.type /\ b.rows \subseteq c.rows)
  BY <1>1, <1>2 DEF Done, NodeInv, LogTypeOK, Command
<1>5. MayGoOn(b)
  <2>1. CASE b = Prompt
    BY <2>1, PromptMayGoOn
  <2>2. CASE b.stage = "sending" /\ b.type = c.type /\ b.rows \subseteq c.rows
    BY <1>2, <1>3, <2>2 DEF MayGoOn, Migrating
  <2>. QED
    BY <1>4, <2>1, <2>2
<1>6. CASE log' = log
  BY <1>2, <1>5, <1>6, CommandMigrates
<1>7. CASE log' = Append(log, m)
  <2>1. /\ Assigned' <=> Assigned
        /\ \A d, e : Fits(d, e)' <=> Fits(d, e)
        /\ admin' = admin
    BY <1>2 DEF Assigned, Fits, IsWhitelisted, vars, ledger
  <2>2. /\ log \in Seq(Message) /\ Len(log) \in Nat /\ played \in 0 .. Len(log)
        /\ DOMAIN log = 1 .. Len(log)
        /\ DOMAIN log' = 1 .. Len(log) + 1
        /\ \A i \in DOMAIN log : log'[i] = log[i]
        /\ log'[Len(log) + 1] = m
    BY <1>2, <1>7 DEF NodeInv, LogTypeOK
  <2>3. \A i, d : Unplayed(i, d)' => Unplayed(i, d) \/ (i = Len(log) + 1 /\ d = c.type)
    BY <1>2, <2>2 DEF Unplayed
  <2>4. SignedInv' /\ HashesInv'
    BY <1>2 DEF MigrationInv, SignedInv, HashesInv, IsAdmin, vars, ledger
  <2>5. ASSUME NEW d \in Directory, NEW i, Unplayed(i, d)'
        PROVE  Assigned' /\ Fits(d, log[i].to)'
    <3>1. PICK e : e = log'[i].to
      OBVIOUS
    <3>2. CASE Unplayed(i, d)
      <4>1. e = log[i].to /\ Assigned /\ Fits(d, e)
        BY <2>2, <3>1, <3>2 DEF MigrationInv, MessagesInv, Unplayed
      <4>2. Assigned' /\ Fits(d, e)'
        BY <2>1, <4>1
      <4>. QED
        BY <3>1, <4>2 DEF Fits, IsWhitelisted
    <3>3. CASE i = Len(log) + 1 /\ d = c.type
      <4>1. Assigned /\ Fits(d, a) /\ e = a
        BY <1>2, <1>3, <2>2, <3>1, <3>3 DEF MayGoOn, Migrating
      <4>2. Assigned' /\ Fits(d, e)'
        BY <2>1, <4>1
      <4>. QED
        BY <3>1, <4>2 DEF Fits, IsWhitelisted
    <3>. QED
      BY <2>3, <2>5, <3>2, <3>3
  <2>6. c.type = "balanceInitialization" /\ admin.wk = OwnKey
        => \A i : ~Unplayed(i, "appendWhitelist")
    BY <1>2, <1>3 DEF MayGoOn, Migrating, Directory
  <2>7. ASSUME admin'.wk = OwnKey, NEW i, NEW j,
               Unplayed(i, "appendWhitelist")', Unplayed(j, "balanceInitialization")'
        PROVE  j < i
    <3>1. CASE Unplayed(i, "appendWhitelist") /\ Unplayed(j, "balanceInitialization")
      BY <2>1, <2>7, <3>1 DEF MigrationInv, MessagesInv
    <3>2. CASE i = Len(log) + 1 /\ c.type = "appendWhitelist"
      <4>1. Unplayed(j, "balanceInitialization")
        BY <2>3, <2>7, <3>2
      <4>. QED
        BY <2>2, <3>2, <4>1 DEF Unplayed
    <3>3. CASE j = Len(log) + 1 /\ c.type = "balanceInitialization"
      BY <2>1, <2>3, <2>6, <2>7, <3>3
    <3>. QED
      BY <2>3, <2>7, <3>1, <3>2, <3>3
  <2>8. MessagesInv'
    BY <2>5, <2>7 DEF MessagesInv
  <2>9. MayGoOn(b)'
    <3>1. Migrating(b) => b.type = c.type
      BY <1>4 DEF Migrating, Prompt
    <3>2. b.type = c.type /\ c.type = "balanceInitialization" /\ admin'.wk = OwnKey
          => \A i : ~Unplayed(i, "appendWhitelist")'
      BY <2>1, <2>3, <2>6
    <3>. QED
      BY <1>5, <2>1, <3>1, <3>2 DEF MayGoOn, Migrating
  <2>10. CommandsInv'
    <3>1. command'[l] = b
      BY <1>2 DEF NodeInv, LogTypeOK
    <3>. QED
      BY <2>9, <3>1 DEF CommandsInv, MayGoOn, Migrating
  <2>. QED
    BY <2>4, <2>8, <2>10 DEF MigrationInv
<1>. QED
  BY <1>2, <1>6, <1>7

\* What is played is neither waiting any more nor waiting a second time, and a
\* whitelisting is played only when no balance row waits for it.
LEMMA PlayMigrates ==
  ASSUME NodeInv, RowsInv, MigrationInv, Play
  PROVE  MigrationInv'
<1>1. PICK m, next : m = log[played + 1] /\ next = played + 1
  OBVIOUS
<1>2. PICK S : S = IF m.type = "appendWhitelist" THEN {m.to} ELSE {}
  OBVIOUS
<1>3. /\ played \in Nat /\ next = played + 1 /\ next \in DOMAIN log /\ m = log[next]
      /\ played' = next /\ UNCHANGED <<command, log, signed>>
  BY <1>1 DEF Play, NodeInv, LogTypeOK
<1>4. AdminMoves /\ Applies(next) /\ (HasAdmin => AdmitsOnly(S))
  BY <1>1, <1>2, PlayMoves
<1>5. [Next]_vars
  BY PlayIsLedgerStep DEF NodeInv
<1>6. m.to \in Address
  BY <1>3, RowTypes DEF NodeInv
<1>7. ASSUME m.type = "appendWhitelist"
      PROVE  Unplayed(next, "appendWhitelist")
  BY <1>3, <1>7 DEF Unplayed
<1>8. ASSUME NEW l \in Line, Migrating(command[l]), admin.wk = OwnKey
      PROVE  command[l].rows \intersect S = {}
  <2>1. CASE m.type = "appendWhitelist"
    <3>1. command[l].type # "balanceInitialization"
      BY <1>7, <1>8, <2>1 DEF MigrationInv, CommandsInv, MayGoOn
    <3>2. command[l].type = m.type
      BY <1>8, <2>1, <3>1 DEF Migrating, Directory
    <3>3. m.to \notin command[l].rows
      BY <1>3, <1>6, <1>8, <2>1, <3>2, PlayedIsNotWaiting DEF Directory
    <3>. QED
      BY <1>2, <3>3
  <2>. QED
    BY <1>2, <2>1
<1>9. ASSUME NEW d \in Directory, NEW i, Unplayed(i, d)', admin.wk = OwnKey
      PROVE  log[i].to \notin S
  <2>1. Unplayed(i, d) /\ i \in DOMAIN log /\ next < i
    BY <1>3, <1>9 DEF Unplayed, NodeInv, LogTypeOK
  <2>2. CASE m.type = "appendWhitelist"
    <3>1. d # "balanceInitialization"
      <4>1. d = "balanceInitialization" => i < next
        BY <1>7, <1>9, <2>1, <2>2 DEF MigrationInv, MessagesInv
      <4>2. i \in Nat
        BY <2>1 DEF NodeInv, LogTypeOK
      <4>. QED
        BY <1>3, <2>1, <4>1, <4>2
    <3>2. log[i].type = m.type /\ i # next
      BY <1>3, <2>1, <2>2, <3>1 DEF Unplayed, Directory
    <3>3. log[i].to # m.to
      BY <1>3, <1>6, <2>1, <2>2, <3>2, PlayedIsNotWaiting DEF Directory
    <3>. QED
      BY <1>2, <3>3
  <2>. QED
    BY <1>2, <2>2
<1>10. SignedInv' /\ CommandsInv' /\ MessagesInv'
  <2>1. played' \in Nat /\ played' >= played
    BY <1>3
  <2>. QED
    BY <1>3, <1>4, <1>5, <1>8, <1>9, <2>1, LedgerMigration
<1>11. HashesInv'
  <2>1. applied' \subseteq applied \union {next}
    BY <1>4 DEF Applies
  <2>2. applied \intersect (1 .. MaxLog) \subseteq 1 .. played
    BY DEF MigrationInv, HashesInv
  <2>3. 1 .. played \subseteq 1 .. next /\ next \in 1 .. next
    BY <1>3
  <2>. QED
    BY <1>3, <2>1, <2>2, <2>3 DEF HashesInv
<1>. QED
  BY <1>10, <1>11 DEF MigrationInv

\* Nobody else can whitelist, initialize or let join what a command of this
\* machine is about to send.
LEMMA OthersMigrate ==
  ASSUME NodeInv, MigrationInv, OthersStep
  PROVE  MigrationInv'
<1>1. /\ AdminMoves
      /\ applied' \intersect (1 .. MaxLog) \subseteq applied
      /\ HasAdmin /\ admin.wk = OwnKey => AdmitsOnly({})
  BY OthersMove
<1>2. UNCHANGED <<command, log, played, signed>>
  BY DEF OthersStep
<1>3. [Next]_vars
  BY AdminNodeStep DEF NodeInv, AdminNodeNext
<1>4. SignedInv' /\ CommandsInv' /\ MessagesInv'
  <2>1. played' \in Nat /\ played' >= played
    BY <1>2 DEF NodeInv, LogTypeOK
  <2>2. \A d \in Directory : \A i : log[i].to \notin {}
    OBVIOUS
  <2>. QED
    BY <1>1, <1>2, <1>3, <2>1, <2>2, LedgerMigration
<1>5. HashesInv'
  BY <1>1, <1>2 DEF MigrationInv, HashesInv
<1>. QED
  BY <1>4, <1>5 DEF MigrationInv

\* Each step keeps what a migration rests on.
LEMMA MigrationStep ==
  ASSUME NodeInv, RowsInv, MigrationInv, NEW line, Line = {line}, [AdminNodeNext]_avars
  PROVE  MigrationInv'
<1>1. CASE Sign
  <2>1. UNCHANGED <<vars, command, log, played>> /\ signed' = View
    BY <1>1 DEF Sign
  <2>2. SignedInv'
    <3>1. signed'.admin = admin /\ admin' = admin /\ owner' = owner
      BY <2>1 DEF View, vars, ledger
    <3>2. admin.addr = Self /\ admin.wk = OwnKey => owner[OwnKey] = Self
      <4>1. HasAdmin => node[admin.addr].wk = admin.wk
        BY DEF NodeInv, Inv, AdminStaysInOffice
      <4>. QED
        BY <4>1, AdminNodeAssumption, AddressAssumption, KeyAssumption
        DEF HasAdmin, NodeInv, Inv, KeysBelongToNodes
    <3>. QED
      BY <3>1, <3>2 DEF SignedInv, IsAdmin
  <2>3. CommandsInv'
    <3>1. ASSUME NEW l \in Line PROVE MayGoOn(command[l])'
      <4>1. PICK c : c = command[l]
        OBVIOUS
      <4>2. MayGoOn(c)'
        BY <2>1, <4>1, MigrationStands DEF MigrationInv, CommandsInv
      <4>. QED
        BY <2>1, <4>1, <4>2 DEF MayGoOn, Migrating
    <3>. QED
      BY <3>1 DEF CommandsInv
  <2>. QED
    BY <2>1, <2>2, <2>3, MigrationStands DEF MigrationInv
<1>2. CASE Crash
  <2>1. UNCHANGED <<vars, log, played, signed>> /\ command' = [l \in Line |-> Prompt]
    BY <1>2 DEF Crash
  <2>2. CommandsInv'
    BY <2>1 DEF CommandsInv, MayGoOn, Migrating, Prompt
  <2>. QED
    BY <2>1, <2>2, MigrationStands DEF MigrationInv
<1>3. ASSUME NEW l \in Line, NEW d \in Directory, NEW rows \in List, Check(l, d, rows)
      PROVE  MigrationInv'
  BY <1>3, CheckMigrates
<1>4. ASSUME NEW l \in Line, Record(l)
      PROVE  MigrationInv'
  BY <1>4, RecordMigrates
<1>5. ASSUME NEW l \in Line, NEW type \in Type \ Directory, NEW to \in Address,
             Order(l, type, to)
      PROVE  MigrationInv'
  <2>1. PICK c : c = [stage |-> "sending", type |-> type, rows |-> {to},
                      txv |-> TxValidity(type)]
    OBVIOUS
  <2>2. MayGoOn(c)
    BY <2>1 DEF MayGoOn, Migrating
  <2>. QED
    BY <1>5, <2>1, <2>2, CommandMigrates DEF Order
<1>6. ASSUME NEW l \in Line, NEW a \in Address, Send(l, a)
      PROVE  MigrationInv'
  BY <1>6, SendMigrates
<1>7. ASSUME NEW l \in Line, AppendThrows(l)
      PROVE  MigrationInv'
  BY <1>7, PromptMayGoOn, CommandMigrates DEF AppendThrows
<1>8. CASE UNCHANGED avars
  <2>1. UNCHANGED <<vars, command, log, played, signed>>
    BY <1>8 DEF avars
  <2>2. command' = [command EXCEPT ![line] = command[line]]
    BY <2>1 DEF NodeInv, LogTypeOK
  <2>3. line \in Line /\ MayGoOn(command[line])
    BY DEF MigrationInv, CommandsInv
  <2>. QED
    BY <2>1, <2>2, <2>3, CommandMigrates
<1>. QED
  BY <1>1, <1>2, <1>3, <1>4, <1>5, <1>6, <1>7, <1>8, PlayMigrates, OthersMigrate
  DEF AdminNodeNext

\* All of the machine's invariants, with one command line
LEMMA MigrationIsKept ==
  ASSUME NEW line, Line = {line}
  PROVE  AdminNodeSpec => [](NodeInv /\ RowsInv /\ MigrationInv)
<1>1. ASSUME Init, AdminNodeInit([d \in Directory |-> <<>>])
      PROVE  MigrationInv
  <2>1. SignedInv
    BY <1>1, AdminNodeAssumption, AddressAssumption
    DEF Init, AdminNodeInit, SignedInv, View, IsAdmin
  <2>2. HashesInv
    BY <1>1 DEF Init, HashesInv
  <2>3. CommandsInv
    BY <1>1, PromptMayGoOn DEF AdminNodeInit, CommandsInv
  <2>4. MessagesInv
    BY <1>1 DEF AdminNodeInit, MessagesInv, Unplayed
  <2>. QED
    BY <2>1, <2>2, <2>3, <2>4 DEF MigrationInv
<1>2. NodeInv /\ RowsInv /\ MigrationInv /\ [AdminNodeNext]_avars => MigrationInv'
  BY MigrationStep
<1>. QED
  BY NodeIsKept, RowsAreKept, <1>1, <1>2, PTL DEF AdminNodeSpec

\* Only Play applies a message of the log, the next one.
LEMMA PlayedOne ==
  ASSUME NodeInv, [AdminNodeNext]_avars, NEW i \in played + 1 .. played'
  PROVE  Play /\ i = played + 1 /\ i \in DOMAIN log
<1>1. played \in Nat /\ played' # played
  BY DEF NodeInv, LogTypeOK
<1>2. Play
  BY <1>1 DEF AdminNodeNext, Sign, Check, Record, Order, Send, AppendThrows, Crash,
     OthersStep, avars
<1>. QED
  BY <1>1, <1>2 DEF Play, NodeInv, LogTypeOK

\* A row is played while its sender is still the admin at this machine, under
\* a hash of its own, and what its check found still holds.
LEMMA PlayedRowFits ==
  ASSUME NodeInv, MigrationInv, Play, NEW d \in Directory, log[played + 1].type = d
  PROVE  /\ AdminRequest(Self) /\ admin.wk = OwnKey /\ admin.addr = Self
         /\ played + 1 \notin applied
         /\ Fits(d, log[played + 1].to)
<1>1. Unplayed(played + 1, d) /\ OwnBatch
  BY DEF Play, Unplayed, NodeInv, LogTypeOK
<1>2. Assigned /\ Fits(d, log[played + 1].to)
  BY <1>1 DEF MigrationInv, MessagesInv
<1>3. played + 1 \in 1 .. MaxLog /\ played + 1 \notin 1 .. played
  BY AdminNodeAssumption DEF Play, NodeInv, LogTypeOK
<1>4. played + 1 \notin applied
  BY <1>3 DEF MigrationInv, HashesInv
<1>. QED
  BY <1>1, <1>2, <1>4, InOffice DEF Assigned

-----------------------------------------------------------------------------
(* The messages of the log *)

\* What is hashed is hashed field by field.
LEMMA SameHash ==
  ASSUME NEW type, NEW fields, NEW body, NEW other,
         \A i \in DOMAIN fields : body[fields[i]] = other[fields[i]]
  PROVE  CreateMessage(type, fields, body) = CreateMessage(type, fields, other)
  BY DEF CreateMessage

\* The builder and #apply list the same fields, and only those of a message
\* the wallet alone signs.
LEMMA AdminFields ==
  ASSUME NEW p \in {"cao", "aco", "bio"}
  PROVE  /\ Built[p] = Applied[p]
         /\ \A i \in DOMAIN Built[p] : Built[p][i] \in Own[p] \union {"txv", "in"}
         /\ Own[p] \intersect {"tx", "is", "txv", "in", "mbs"} = {}
         /\ "am" \in Own[p] <=> p = "bio"
         /\ ~NeedsValidator(p)
<1>1. CASE p = "cao"
  BY <1>1 DEF Built, Applied, Own, NeedsValidator
<1>2. CASE p = "aco"
  BY <1>2 DEF Built, Applied, Own, NeedsValidator
<1>3. CASE p = "bio"
  BY <1>3 DEF Built, Applied, Own, NeedsValidator
<1>. QED
  BY <1>1, <1>2, <1>3

\* A message that the builder makes of one of the admin's operations is taken
\* for well formed and signed exactly while its txv is the current one.
LEMMA BuiltVerifies ==
  ASSUME NEW wallet, NEW type, Payload(type) \in {"cao", "aco", "bio"},
         NEW given, Payload(type) = "bio" => given["am"] # 0,
         NEW txv, NEW nonce, NEW current
  PROVE  Verifies(Decoded(RequesterMessage(wallet, type, given, txv, nonce)), current)
           <=> txv = current
<1>. DEFINE p == Payload(type)
            content == Own[p] \union {"txv", "in"}
            values == [f \in content |->
                         CASE f = "txv" -> txv [] f = "in" -> nonce [] OTHER -> given[f]]
            tx == CreateMessage(type, Built[p], values)
            body == [f \in Fields(p) |-> CASE f = "tx" -> tx
                                           [] f = "is" -> Signature(wallet, tx)
                                           [] OTHER -> values[f]]
            m == [type |-> type, address |-> wallet, nulls |-> {}, body |-> body]
            hashed == [f \in DOMAIN body |-> IF f = "mbs" THEN MsbBootstrap ELSE body[f]]
<1>1. RequesterMessage(wallet, type, given, txv, nonce) = m
  BY DEF RequesterMessage
<1>2. p \in {"cao", "aco", "bio"} /\ (p = "bio" => given["am"] # 0)
  OBVIOUS
<1>. HIDE DEF p
<1>3. /\ values["txv"] = txv
      /\ p = "bio" => values["am"] # 0
  BY <1>2, AdminFields
<1>. HIDE DEF values
<1>. HIDE DEF tx
<1>4. /\ DOMAIN body = Fields(p)
      /\ body["tx"] = tx /\ body["is"] = Signature(wallet, tx)
      /\ \A f \in content : f \notin {"tx", "is", "mbs"} /\ body[f] = values[f]
                            /\ f \in Fields(p)
      /\ "tx" \in Fields(p)
  BY <1>2, AdminFields DEF Fields
<1>. HIDE DEF body
<1>5. \A f \in content : hashed[f] = values[f]
  BY <1>4
<1>. HIDE DEF hashed
<1>6. tx = CreateMessage(type, Applied[p], hashed)
  BY <1>2, <1>5, AdminFields, SameHash DEF tx
<1>7. body["txv"] = txv /\ (p = "bio" => body["am"] # 0)
  BY <1>2, <1>3, <1>4, AdminFields
<1>8. Decoded(m) = m
  BY <1>2, AdminFields DEF Decoded, p
<1>9. SchemaValid(m)
  BY <1>4, <1>7 DEF SchemaValid, p
<1>10. Verifies(m, current) <=> txv = current
  BY <1>2, <1>4, <1>6, <1>7, <1>9, AdminFields DEF Verifies, p, hashed
<1>. QED
  BY <1>1, <1>8, <1>10

-----------------------------------------------------------------------------
(* Theorems *)

\* With one command line, every address gets at most one message of each kind
\* of migration from this machine, whatever crashes, is refused or is run
\* again: a file is written before its rows are sent, its number is new, and
\* no row of a new command is in a file.
THEOREM MigrationsRunOnce ==
  ASSUME NEW line, Line = {line}
  PROVE  AdminNodeSpec => []RowsRunOnce
<1>1. RowsInv => RowsRunOnce
  BY DEF RowsInv
<1>. QED
  BY RowsAreKept, <1>1, PTL

\* The ledger this machine works on is the ledger of the network, however many
\* command lines run on it: what it appends is one of the messages the
\* ledger's specification allows, so every theorem of LedgerProofs and
\* LedgerEntryProofs holds here.
THEOREM MachineKeepsLedger == AdminNodeSpec => Spec
<1>1. NodeInv /\ [AdminNodeNext]_avars => [Next]_vars
  BY AdminNodeStep DEF NodeInv
<1>. QED
  BY NodeIsKept, <1>1, PTL DEF AdminNodeSpec, Spec

\* A command that the wallet may give over the ledger its message is applied
\* to succeeds: what the command checks covers what the handler checks but for
\* the exceptions the property names.
THEOREM OrdersGoThrough == AdminNodeSpec => []OrdersSucceed
<1>1. ASSUME NodeInv PROVE OrdersSucceed
  <2>. SUFFICES ASSUME OwnBatch, NextNode, NEW tx \in Tx \ applied,
                       NEW type \in Type \ Directory, NEW to \in Address,
                       MayOrder(View, type, to),
                       type \in AdminControl => IsAdmin(View) /\ AdminCanPay,
                       type = "banValidator" /\ IsWriter(to) => CanWithdraw(node[to])
                PROVE  OrderStatus(tx, type, to) = "SUCCESS"
    BY DEF OrdersSucceed
  <2>1. type \in {"addAdmin", "disableInitialization", "addIndexer", "removeIndexer",
                  "banValidator"}
    BY DEF Type, AdminControl, Directory
  <2>2. IsAdmin(View) => AdminRequest(Self)
    BY AdminNodeAssumption, AddressAssumption
    DEF IsAdmin, View, AdminRequest, HasAdmin, OwnBatch
  <2>3. CASE type = "addAdmin"
    <3>1. ~HasAdmin /\ OwnKey = Bootstrap /\ batch.from = Bootstrap
      BY <2>3 DEF MayOrder, View, HasAdmin, OwnBatch
    <3>2. owner[OwnKey] = NoAddress
      BY <1>1, <3>1, AdminNodeAssumption DEF NodeInv, Inv, BeforeLaunch
    <3>. QED
      BY <2>3, <3>1, <3>2 DEF OrderStatus, AddAdminStatus
  <2>4. CASE type = "disableInitialization"
    BY <2>2, <2>4 DEF MayOrder, View, OrderStatus, AdminStatus
  <2>5. CASE type = "addIndexer"
    BY <2>2, <2>5 DEF MayOrder, View, OrderStatus, AddIndexerStatus, AdminStatus,
       AdminControl, IsWriter, IsIndexer
  <2>6. CASE type = "removeIndexer"
    BY <2>2, <2>6 DEF MayOrder, View, OrderStatus, RemoveIndexerStatus, AdminStatus,
       AdminControl, IsIndexer
  <2>7. CASE type = "banValidator"
    BY <2>2, <2>7 DEF MayOrder, MayBan, View, OrderStatus, BanValidatorStatus, AdminStatus,
       AdminControl, IsWriter, IsIndexer, IsWhitelisted
  <2>. QED
    BY <2>1, <2>3, <2>4, <2>5, <2>6, <2>7
<1>. QED
  BY NodeIsKept, <1>1, PTL

\* With one command line, no balance initialization overwrites the balance of
\* the admin or of a node that was ever whitelisted: between the check of a
\* row and its application lie a file, a log, crashes, the signed view's delay
\* and the steps of everybody else, and only a whitelisting from this very
\* machine could let the row's address join, which cannot be ahead of the row
\* in its log.
THEOREM MigrationsSpareNodes ==
  ASSUME NEW line, Line = {line}
  PROVE  AdminNodeSpec => MigrationKeepsOffNodes
<1>. DEFINE Kind == \A m \in {log[i] : i \in played + 1 .. played'} :
              m.type = "balanceInitialization" /\ applied' # applied
              => m.to # Self /\ node[m.to].license = 0
<1>1. ASSUME NodeInv, RowsInv, MigrationInv, [AdminNodeNext]_avars
      PROVE  [Kind]_avars
  <2>. SUFFICES ASSUME NEW i \in played + 1 .. played',
                       log[i].type = "balanceInitialization"
                PROVE  log[i].to # Self /\ node[log[i].to].license = 0
    OBVIOUS
  <2>1. Play /\ i = played + 1
    BY <1>1, PlayedOne
  <2>2. admin.wk = OwnKey /\ Fits("balanceInitialization", log[i].to)
    BY <1>1, <2>1, PlayedRowFits DEF Directory
  <2>. QED
    BY <2>2 DEF Fits
<1>. QED
  BY MigrationIsKept, <1>1, PTL DEF AdminNodeSpec, MigrationKeepsOffNodes

\* With one command line, a row that passed its check is refused only because
\* the indexers changed under its txv, the admin's balance ran out, or the
\* initialization was disabled meanwhile: it never finds its hash used, the
\* sender out of office or the address whitelisted already.
THEOREM RowsFailOnlyForCause ==
  ASSUME NEW line, Line = {line}
  PROVE  AdminNodeSpec => RowsFailForCause
<1>. DEFINE Cause == \A m \in {log[i] : i \in played + 1 .. played'} :
              m.type \in Directory /\ batch'.invalid > batch.invalid
              => \/ m.txv # indexers
                 \/ m.type = "appendWhitelist" /\ node[Self].balance < WhitelistFee
                 \/ m.type = "balanceInitialization" /\ initialization = "disabled"
<1>1. ASSUME NodeInv, RowsInv, MigrationInv, [AdminNodeNext]_avars
      PROVE  [Cause]_avars
  <2>. SUFFICES ASSUME NEW i \in played + 1 .. played', NEW m, m = log[i],
                       m.type \in Directory, batch'.invalid > batch.invalid,
                       m.txv = indexers
                PROVE  \/ m.type = "appendWhitelist" /\ node[Self].balance < WhitelistFee
                       \/ m.type = "balanceInitialization" /\ initialization = "disabled"
    OBVIOUS
  <2>1. Play /\ i = played + 1 /\ m \in Message
    BY <1>1, PlayedOne DEF NodeInv, LogTypeOK
  <2>2. /\ AdminRequest(Self) /\ admin.wk = OwnKey /\ admin.addr = Self
        /\ i \notin applied /\ Fits(m.type, m.to)
    BY <1>1, <2>1, PlayedRowFits
  <2>3. Perform(i, m)
    BY <2>1 DEF Play
  <2>4. ASSUME Stored(i, "SUCCESS") PROVE FALSE
    BY <1>1, <2>4 DEF Stored, Count, NodeInv, Inv, TypeOK, BatchTypeOK
  <2>5. CASE m.type = "appendWhitelist"
    <3>1. AppendWhitelistStatus(i, Self, m.to) # "SUCCESS"
      BY <2>3, <2>4, <2>5 DEF Perform, AppendWhitelist, Refused, AdminControl, Stored
    <3>2. ~(node[Self].balance >= WhitelistFee)
      BY <2>2, <2>5, <3>1 DEF AppendWhitelistStatus, AdminStatus, Fits
    <3>3. node[Self].balance \in Int /\ WhitelistFee \in Int
      BY <1>1, AdminNodeAssumption, FeeType
      DEF NodeInv, Inv, TypeOK, LedgerTypeOK, NodeEntry, WhitelistFee
    <3>. QED
      BY <2>5, <3>2, <3>3
  <2>6. CASE m.type = "balanceInitialization"
    <3>1. InitializeBalanceStatus(i, Self) # "SUCCESS"
      BY <2>3, <2>4, <2>6 DEF Perform, InitializeBalance, Refused, Stored
    <3>. QED
      BY <2>2, <2>6, <3>1 DEF InitializeBalanceStatus, AdminStatus
  <2>. QED
    BY <2>5, <2>6 DEF Directory
<1>. QED
  BY MigrationIsKept, <1>1, PTL DEF AdminNodeSpec, RowsFailForCause

\* However long a message waited in a command, what is in the log is what
\* #apply takes for well formed and signed by the wallet, as long as the
\* indexers are those of its txv.
THEOREM LogAlwaysVerifies == AdminNodeSpec => []LogVerifies
<1>1. ASSUME NodeInv PROVE LogVerifies
  <2>. SUFFICES ASSUME NEW i \in DOMAIN log, NEW amount \in Grant \ {0}
                PROVE  Verifies(Decoded(RequesterMessage(Self, log[i].type,
                                  Given(log[i], amount), log[i].txv, i)), indexers)
                         <=> log[i].txv = indexers
    BY DEF LogVerifies
  <2>1. log[i].type \in Type
    <3>1. log[i] \in Message
      BY <1>1 DEF NodeInv, LogTypeOK
    <3>. QED
      BY <3>1 DEF Message
  <2>2. Payload(log[i].type) \in {"cao", "aco", "bio"}
    BY <2>1 DEF Type, AdminControl, Payload, IsCoreAdmin, IsAdminControl, IsRoleAccess
  <2>3. Payload(log[i].type) = "bio" => Given(log[i], amount)["am"] # 0
    BY <2>1 DEF Type, AdminControl, Payload, IsCoreAdmin, IsAdminControl, IsRoleAccess,
       Given
  <2>. QED
    BY <2>2, <2>3, BuiltVerifies
<1>. QED
  BY NodeIsKept, <1>1, PTL
=============================================================================
