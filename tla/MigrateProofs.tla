--------------------------- MODULE MigrateProofs ---------------------------
(***************************************************************************)
(* What the move from the state file to SQLite keeps, for every set of     *)
(* agents, every configuration, and any number of boots that fail or crash *)
(* on the way.                                                             *)
(***************************************************************************)
EXTENDS Migrate, JsonProofs, SqliteProofs

(***************************************************************************)
(* The inductive invariant                                                 *)
(***************************************************************************)

(* Where a boot is tells whether the database is in place; until it is,    *)
(* the database is empty, and nothing is under way before it is opened.    *)
Boots ==
  /\ stage \in {"json", "boot", "sqlite"}
  /\ step \in 1..5
  /\ exists \in BOOLEAN
  /\ stage # "boot" => step = 1
  /\ stage = "json" => ~exists
  /\ stage = "sqlite" => exists
  /\ retired => exists
  /\ stage = "boot" => /\ ~up
                       /\ step \in {2, 3} => ~exists
                       /\ step \in {4, 5} => exists
  /\ ~exists => db = EmptyDatabase
  /\ ~closing
  /\ stage # "sqlite" => NothingInFlight

\* The state file that the JSON backend has left.
FileKept ==
  /\ Sound(file)
  /\ receipts \subseteq Key \X Entry
  /\ Answered(file, receipts, answeredAcks, clock)

\* What the tables of the SQLite backend hold.
TablesKept ==
  /\ Types /\ JobsType /\ TakenUpNotRedelivered
  /\ exists => \A r \in receipts : Finds(r, db, clock)
  /\ up => KnownKeys(db.idempotency, idempotency, clock)

MigrateInv ==
  /\ Boots
  /\ stage = "json" => JsonInv
  /\ stage # "json" => FileKept /\ TablesKept

(***************************************************************************)
(* What is imported                                                        *)
(***************************************************************************)

\* The deliveries of a sound state file: one for each event that is still
\* to be delivered.
LEMMA ImportedRows ==
  ASSUME NEW f, Sound(f)
  PROVE  /\ ImportedDeliveries(f) \in [DOMAIN ImportedDeliveries(f) -> Delivery]
         /\ \A id \in DOMAIN ImportedDeliveries(f) :
              id \in DOMAIN f.messages /\ ~TakenUp(f.messages[id])
<1> DEFINE places == UNION {{<<a, k>> : k \in deliverable(f, a)} : a \in DOMAIN f.inboxes}
           id(p) == f.inboxes[p[1]].events[p[2]].msg
           row(i) == LET p == CHOOSE q \in places : id(q) = i
                     IN  ImportedDelivery(f, p[1], p[2])
           ids == {id(p) : p \in places}
<1>1. ImportedDeliveries(f) = [i \in ids |-> row(i)]
  BY DEF ImportedDeliveries
<1>2. \A p \in places : p[1] \in DOMAIN f.inboxes /\ p[2] \in deliverable(f, p[1])
  OBVIOUS
<1>3. ASSUME NEW a \in DOMAIN f.inboxes, NEW k \in deliverable(f, a)
      PROVE  /\ k \in DOMAIN f.inboxes[a].events
             /\ f.inboxes[a].events[k].msg \in DOMAIN f.messages
             /\ ~TakenUp(f.messages[f.inboxes[a].events[k].msg])
  BY <1>3 DEF deliverable
<1>4. ASSUME NEW a \in DOMAIN f.inboxes, NEW k \in deliverable(f, a)
      PROVE  ImportedDelivery(f, a, k) \in Delivery
  <2> DEFINE m == f.messages[f.inboxes[a].events[k].msg]
             before == {j \in deliverable(f, a) : j < k}
  <2>1. a \in Agents /\ f.inboxes[a] \in Inbox
    BY DEF Sound
  <2>2. f.inboxes[a].base \in Nat /\ f.inboxes[a].events \in Seq(Event)
    BY <2>1 DEF Inbox
  <2>3. IsFiniteSet(before) /\ Cardinality(before) \in Nat
    <3>1. /\ DOMAIN f.inboxes[a].events = 1..Len(f.inboxes[a].events)
          /\ Len(f.inboxes[a].events) \in Nat
      BY <2>2, LenProperties
    <3>2. IsFiniteSet(1..Len(f.inboxes[a].events))
      BY <3>1, FS_Interval
    <3>3. before \subseteq 1..Len(f.inboxes[a].events)
      BY <3>1 DEF deliverable
    <3> HIDE DEF before
    <3> QED
      BY <3>2, <3>3, FS_Subset, FS_CardinalityType
  <2>4. m \in Message
    BY <1>3 DEF Sound
  <2>5. m.createdAt \in Nat /\ m.ttlAt \in Nat /\ m.graceUntil \in Nat
    BY <2>4, MessageTypes
  <2>6. deliveryExpiry(m) \in Nat
    BY <2>5 DEF deliveryExpiry
  <2> HIDE DEF m, before
  <2>7. ImportedDelivery(f, a, k) =
          [target |-> a, seq |-> f.inboxes[a].base + Cardinality(before),
           status |-> "pending", nextAttemptAt |-> m.createdAt,
           expiresAt |-> deliveryExpiry(m)]
    BY DEF ImportedDelivery, m, before
  <2>8. f.inboxes[a].base + Cardinality(before) \in Nat
    BY <2>2, <2>3
  <2> QED
    BY <2>1, <2>5, <2>6, <2>7, <2>8 DEF Delivery, Open
<1>5. ASSUME NEW i \in ids
      PROVE  /\ row(i) \in Delivery
             /\ i \in DOMAIN f.messages /\ ~TakenUp(f.messages[i])
  <2>1. PICK p : p = CHOOSE q \in places : id(q) = i
    OBVIOUS
  <2>2. p \in places /\ id(p) = i
    BY <2>1
  <2>3. row(i) = ImportedDelivery(f, p[1], p[2])
    BY <2>1
  <2> HIDE DEF places, row
  <2>4. p[1] \in DOMAIN f.inboxes /\ p[2] \in deliverable(f, p[1])
    BY <1>2, <2>2
  <2> QED
    BY <1>3, <1>4, <2>2, <2>3, <2>4
<1> HIDE DEF ids, row, places
<1>6. DOMAIN ImportedDeliveries(f) = ids
  BY <1>1
<1> QED
  BY <1>1, <1>5, <1>6


\* The tables of an imported database.
LEMMA ImportedTables ==
  ASSUME NEW f
  PROVE  LET d == Imported(f)
         IN  /\ d = [agents |-> d.agents, messages |-> d.messages,
                     deliveries |-> d.deliveries, idempotency |-> d.idempotency,
                     conversations |-> d.conversations, links |-> d.links,
                     counters |-> d.counters, cursors |-> d.cursors]
             /\ d.agents = f.agents /\ d.messages = f.messages
             /\ d.deliveries = ImportedDeliveries(f)
             /\ d.idempotency = f.idempotency
             /\ d.counters = [conv |-> f.nextConversationID, msg |-> f.nextMessageID]
             /\ d.cursors = [a \in DOMAIN f.inboxes |->
                               [next  |-> f.inboxes[a].base
                                            + Cardinality(deliverable(f, a)),
                                acked |-> f.inboxes[a].base]]
BY DEF Imported

\* The cursor rows of a sound state file.
LEMMA ImportedCursors ==
  ASSUME NEW f, Sound(f), NEW a \in DOMAIN f.inboxes
  PROVE  /\ f.inboxes[a].base \in Nat
         /\ IsFiniteSet(deliverable(f, a)) /\ Cardinality(deliverable(f, a)) \in Nat
<1>1. f.inboxes[a] \in Inbox
  BY DEF Sound
<1>2. f.inboxes[a].base \in Nat /\ f.inboxes[a].events \in Seq(Event)
  BY <1>1 DEF Inbox
<1>3. /\ DOMAIN f.inboxes[a].events = 1..Len(f.inboxes[a].events)
      /\ Len(f.inboxes[a].events) \in Nat
  BY <1>2, LenProperties
<1>4. deliverable(f, a) \subseteq 1..Len(f.inboxes[a].events)
  BY <1>3 DEF deliverable
<1>5. IsFiniteSet(1..Len(f.inboxes[a].events))
  BY <1>3, FS_Interval
<1> QED
  BY <1>2, <1>4, <1>5, FS_Subset, FS_CardinalityType

\* An imported database is well typed, and delivers nothing that was taken up.
LEMMA InstalledTables ==
  ASSUME Sound(file), db' = Imported(file)
  PROVE  DatabaseType' /\ TakenUpNotRedelivered'
<1> DEFINE d == Imported(file)
<1>1. /\ d = [agents |-> d.agents, messages |-> d.messages,
              deliveries |-> d.deliveries, idempotency |-> d.idempotency,
              conversations |-> d.conversations, links |-> d.links,
              counters |-> d.counters, cursors |-> d.cursors]
      /\ d.agents = file.agents /\ d.messages = file.messages
      /\ d.deliveries = ImportedDeliveries(file)
      /\ d.idempotency = file.idempotency
      /\ d.counters = [conv |-> file.nextConversationID, msg |-> file.nextMessageID]
      /\ d.cursors = [a \in DOMAIN file.inboxes |->
                        [next  |-> file.inboxes[a].base
                                     + Cardinality(deliverable(file, a)),
                         acked |-> file.inboxes[a].base]]
  BY ImportedTables
<1> HIDE DEF d
<1>2. /\ d.agents \in [DOMAIN d.agents -> Agent]
      /\ d.messages \in [DOMAIN d.messages -> Message]
      /\ DOMAIN d.messages \subseteq MessageIDs
      /\ d.counters \in [conv : Nat, msg : Nat]
  BY <1>1, Bounds DEF Sound, MessageIDs
<1>3. d.idempotency \in [DOMAIN d.idempotency -> Issued]
  <2>1. \A e \in Entry : e \in Issued
    BY Bounds DEF Entry, Issued, MessageIDs
  <2>2. file.idempotency \in [DOMAIN file.idempotency -> Entry]
    BY DEF Sound
  <2>3. \A k \in DOMAIN file.idempotency : file.idempotency[k] \in Issued
    BY <2>1, <2>2
  <2> QED
    BY <1>1, <2>2, <2>3
<1>4. d.cursors \in [DOMAIN d.cursors -> CursorPair]
  <2>1. ASSUME NEW a \in DOMAIN file.inboxes
        PROVE  file.inboxes[a].base \in Nat
               /\ file.inboxes[a].base + Cardinality(deliverable(file, a)) \in Nat
    BY ImportedCursors
  <2> QED
    BY <1>1, <2>1 DEF CursorPair
<1>5. /\ d.deliveries \in [DOMAIN d.deliveries -> Delivery]
      /\ \A id \in DOMAIN d.deliveries :
           id \in DOMAIN d.messages /\ ~TakenUp(d.messages[id])
  BY <1>1, ImportedRows
<1>6. db' = d
  BY DEF d
<1>7. DatabaseType'
  BY <1>1, <1>2, <1>3, <1>4, <1>5, <1>6 DEF DatabaseType
<1>8. TakenUpNotRedelivered'
  BY <1>5, <1>6 DEF TakenUpNotRedelivered, TakenUp, isTerminal
<1> QED
  BY <1>7, <1>8

(***************************************************************************)
(* The steps of the move                                                   *)
(***************************************************************************)

\* The numbers of the steps of a boot.
LEMMA StepNumbers ==
  /\ Len(Steps) = 5
  /\ Steps[1] = "check" /\ Steps[2] = "import" /\ Steps[3] = "install"
  /\ Steps[4] = "retire" /\ Steps[5] = "open"
BY DEF Steps

LEMMA BootAt ==
  ASSUME Boots
  PROVE  /\ At("check") => stage = "boot" /\ step = 1
         /\ At("import") => stage = "boot" /\ step = 2
         /\ At("install") => stage = "boot" /\ step = 3
         /\ At("retire") => stage = "boot" /\ step = 4
         /\ At("open") => stage = "boot" /\ step = 5
<1>1. step \in {1, 2, 3, 4, 5}
  BY DEF Boots
<1> QED
  BY <1>1, StepNumbers DEF At

\* What was found stays found as time goes on.
LEMMA FindsLater ==
  ASSUME receipts \subseteq Key \X Entry, NEW r \in receipts, NEW s,
         NEW t \in Nat, NEW u \in Nat, t <= u, Finds(r, s, t)
  PROVE  Finds(r, s, u)
<1>1. r[2].at \in Nat /\ IdempotencyWindow \in Nat
  BY RetentionTypes DEF Entry
<1> QED
  BY <1>1 DEF Finds

\* The state file, which nobody writes any more, keeps what was answered.
LEMMA FileStays ==
  ASSUME FileKept, UNCHANGED <<file, receipts, answeredAcks>>,
         clock \in Nat, clock' \in Nat, clock <= clock'
  PROVE  FileKept'
<1>1. \A r \in receipts : Finds(r, file, clock')
  BY FindsLater DEF FileKept, Answered
<1> QED
  BY <1>1 DEF FileKept, Answered


\* The database before there is one.
LEMMA EmptyTables ==
  ASSUME db' = EmptyDatabase
  PROVE  DatabaseType' /\ TakenUpNotRedelivered'
<1>1. db' = [agents |-> << >>, messages |-> << >>, deliveries |-> << >>,
             idempotency |-> << >>, conversations |-> << >>, links |-> << >>,
             counters |-> [conv |-> 0, msg |-> 0], cursors |-> << >>]
  BY DEF EmptyDatabase
<1>2. /\ db'.agents = << >> /\ db'.messages = << >> /\ db'.deliveries = << >>
      /\ db'.idempotency = << >> /\ db'.conversations = << >> /\ db'.links = << >>
      /\ db'.counters = [conv |-> 0, msg |-> 0] /\ db'.cursors = << >>
  BY <1>1
<1> QED
  BY <1>1, <1>2, EmptyTypes DEF DatabaseType, TakenUpNotRedelivered

\* The JSON backend is stopped for good.
LEMMA SwitchStep ==
  ASSUME MigrateInv, SwitchBackend
  PROVE  MigrateInv'
<1>1. /\ Boots /\ JsonInv /\ stage = "json" /\ stage' = "boot"
      /\ ~up' /\ messages' = << >> /\ agents' = << >> /\ idempotency' = << >>
      /\ nextMessageID' = 0 /\ nextConversationID' = 0
      /\ UNCHANGED <<clock, now, cursors, file, receipts, answeredAcks, step, retired,
                     exists, db, closing, saves, creations, polls, claimed, jobs>>
  BY DEF MigrateInv, SwitchBackend, jsonOnly
<1>2. /\ ~exists /\ ~retired /\ ~closing /\ NothingInFlight /\ db = EmptyDatabase
      /\ step = 1 /\ exists \in BOOLEAN
  BY <1>1 DEF Boots
<1>3. TypeOK /\ ClientTypes /\ Sound(file) /\ Answered(file, receipts, answeredAcks, clock)
  BY <1>1 DEF JsonInv, StoreInv
<1>4. FileKept'
  BY <1>1, <1>3 DEF FileKept, ClientTypes
<1>5. /\ clock \in Nat /\ now \in Nat /\ now <= clock
  BY <1>3, Bounds DEF TypeOK
<1>6. cursors \in [Agents -> SUBSET Nat]
  BY <1>3, Bounds DEF ClientTypes
<1>7. RuntimeType'
  BY <1>1, <1>5, EmptyTypes DEF RuntimeType
<1>8. /\ saves' = {} /\ creations' = {} /\ polls' = {} /\ claimed' = {}
      /\ jobs' = << >> /\ NothingInFlight'
  BY <1>1, <1>2 DEF NothingInFlight
<1>9. FlightType' /\ JobsType'
  BY <1>1, <1>6, <1>8 DEF FlightType, JobsType
<1>10. DatabaseType' /\ TakenUpNotRedelivered'
  <2>1. db' = EmptyDatabase
    BY <1>1, <1>2
  <2> QED
    BY <2>1, EmptyTables
<1>11. Boots'
  BY <1>1, <1>2, <1>8 DEF Boots
<1> QED
  BY <1>1, <1>2, <1>4, <1>7, <1>9, <1>10, <1>11 DEF MigrateInv, TablesKept, Types

\* A step of a boot that leaves the tables and the file alone.
LEMMA BootKeeps ==
  ASSUME FileKept, TablesKept,
         UNCHANGED <<vars, up, db, inFlight, cursors, jsonOnly, exists>>
  PROVE  FileKept' /\ TablesKept'
<1>1. UNCHANGED <<clock, now, agents, messages, idempotency, nextMessageID,
                  nextConversationID, saves, creations, polls, claimed, jobs,
                  file, receipts, answeredAcks>>
  BY DEF vars, inFlight, jsonOnly
<1>2. FileKept'
  BY <1>1 DEF FileKept
<1>3. Types' /\ JobsType' /\ TakenUpNotRedelivered'
  BY <1>1 DEF TablesKept, Types, RuntimeType, DatabaseType, FlightType, JobsType,
              TakenUpNotRedelivered
<1>4. (exists => \A r \in receipts : Finds(r, db, clock))'
  BY <1>1 DEF TablesKept
<1>5. (up => KnownKeys(db.idempotency, idempotency, clock))'
  BY <1>1 DEF TablesKept
<1> QED
  BY <1>2, <1>3, <1>4, <1>5 DEF TablesKept

\* The renaming that puts the imported database in place, or fails.
LEMMA InstallStep ==
  ASSUME Boots, stage # "json", FileKept, TablesKept, NEW ok \in BOOLEAN, InstallDatabase(ok)
  PROVE  FileKept' /\ TablesKept'
<1>1. stage = "boot" /\ step = 3 /\ ~exists /\ ~up
  BY BootAt DEF InstallDatabase, Boots
<1>2. /\ UNCHANGED <<vars, up, cursors, file, receipts, answeredAcks, inFlight>>
      /\ exists' = ok /\ db' = IF ok THEN Imported(file) ELSE db
  BY <1>1 DEF InstallDatabase, jsonVars, jsonClients, inFlight
<1>3. CASE ~ok
  <2>1. exists' = exists /\ db' = db
    BY <1>1, <1>2, <1>3 DEF Boots
  <2>2. UNCHANGED jsonOnly
    BY DEF InstallDatabase, jsonVars, jsonClients, jsonOnly
  <2> QED
    BY <1>2, <2>1, <2>2, BootKeeps
<1>4. CASE ok
  <2>1. DatabaseType' /\ TakenUpNotRedelivered'
    BY <1>2, <1>4, InstalledTables DEF FileKept
  <2>2. /\ UNCHANGED <<clock, now, agents, messages, idempotency, nextMessageID,
                       nextConversationID, saves, creations, polls, claimed, jobs>>
    BY <1>2 DEF vars, inFlight
  <2>3. RuntimeType' /\ FlightType' /\ JobsType'
    BY <1>2, <2>2 DEF TablesKept, Types, RuntimeType, FlightType, JobsType
  <2>4. FileKept'
    BY <1>2, <2>2 DEF FileKept
  <2>5. db'.idempotency = file.idempotency
    BY <1>2, <1>4, ImportedTables
  <2>6. \A r \in receipts' : Finds(r, db', clock')
    BY <1>2, <2>2, <2>5 DEF FileKept, Answered, Finds
  <2> QED
    BY <1>1, <1>2, <2>1, <2>3, <2>4, <2>6 DEF TablesKept, Types
<1> QED
  BY <1>3, <1>4


(***************************************************************************)
(* The steps of the SQLite backend                                         *)
(***************************************************************************)

\* No key of the window leaves the durable table, and none changes.
KeysStay ==
  \A k \in DOMAIN db.idempotency :
    \/ k \in DOMAIN db'.idempotency /\ db'.idempotency[k] = db.idempotency[k]
    \/ clock - db.idempotency[k].at > IdempotencyWindow

\* The pruning drops the keys whose window is over.
LEMMA PrunedKeys ==
  ASSUME Types, NEW rows, db' = Pruned(rows)
  PROVE  KeysStay
<1>1. /\ db.idempotency \in [DOMAIN db.idempotency -> Issued]
      /\ clock \in Nat /\ now \in Nat /\ now <= clock /\ IdempotencyWindow \in Nat
  BY RetentionTypes DEF Types, DatabaseType, RuntimeType
<1>2. db'.idempotency = [k \in {k \in DOMAIN db.idempotency :
                                  ~StaleEntry(db.idempotency[k])} |-> db.idempotency[k]]
  BY DEF Pruned, Types, DatabaseType
<1>3. \A k \in DOMAIN db.idempotency :
        /\ db.idempotency[k].at \in Nat
        /\ StaleEntry(db.idempotency[k]) =>
             clock - db.idempotency[k].at > IdempotencyWindow
  BY <1>1 DEF StaleEntry, Issued
<1> QED
  BY <1>2, <1>3 DEF KeysStay

\* What the SQLite backend keeps of the tables.
LEMMA TablesStep ==
  ASSUME FileKept, TablesKept, [SqliteNext]_sqliteVars, KeysStay,
         UNCHANGED <<jsonOnly, exists>>
  PROVE  FileKept' /\ TablesKept'
<1>1. Types /\ JobsType /\ TakenUpNotRedelivered
  BY DEF TablesKept
<1>2. Types' /\ JobsType' /\ SqliteKinds
  BY <1>1, StepLemma, JobsStep
<1>3. TakenUpNotRedelivered'
  <2>1. \A id \in DOMAIN db'.deliveries :
          WasTakenUp(db'.messages[id]) => db'.deliveries[id].status \notin Open
    BY <1>1, <1>2, TakenUpStep
  <2> QED
    BY <2>1 DEF TakenUpNotRedelivered, WasTakenUp
<1>4. up' => KnownKeys(db'.idempotency, idempotency', clock')
  BY <1>1, <1>2, KeysStep DEF TablesKept
<1>5. clock \in Nat /\ clock' \in Nat /\ clock <= clock'
  <2>1. clock <= clock'
    BY <1>1, <1>2
       DEF SqliteKinds, AcceptsDurably, Replies, MovesMemory, MovesRows, PrunesRows,
           Prunes, Stops, Starts, TimeGoesOn, vars, Types, RuntimeType
  <2> QED
    BY <1>1, <1>2, <2>1 DEF Types, RuntimeType
<1>6. UNCHANGED <<file, receipts, answeredAcks, exists>>
  BY DEF jsonOnly
<1>7. FileKept'
  BY <1>5, <1>6, FileStays
<1>8. ASSUME exists, NEW r \in receipts
      PROVE  Finds(r, db', clock')
  <2>1. Finds(r, db, clock)
    BY <1>8 DEF TablesKept
  <2>2. r[2].at \in Nat /\ IdempotencyWindow \in Nat
    BY RetentionTypes DEF FileKept, Entry
  <2> SUFFICES ASSUME clock' - r[2].at <= IdempotencyWindow
               PROVE  r[1] \in DOMAIN db'.idempotency /\ db'.idempotency[r[1]] = r[2]
    BY DEF Finds
  <2>3. clock - r[2].at <= IdempotencyWindow
    BY <1>5, <2>2
  <2>4. r[1] \in DOMAIN db.idempotency /\ db.idempotency[r[1]] = r[2]
    BY <2>1, <2>3 DEF Finds
  <2>5. ~(clock - db.idempotency[r[1]].at > IdempotencyWindow)
    BY <1>5, <2>2, <2>3, <2>4
  <2> QED
    BY <2>4, <2>5 DEF KeysStay
<1> QED
  BY <1>2, <1>3, <1>4, <1>6, <1>7, <1>8 DEF TablesKept

\* Opening the database is a start of the SQLite backend.
LEMMA OpenStep ==
  ASSUME Boots, TablesKept, OpenStore
  PROVE  /\ [SqliteNext]_sqliteVars /\ KeysStay
         /\ UNCHANGED <<jsonOnly, exists>>
<1>1. Restart /\ exists
  BY BootAt DEF OpenStore, Boots
<1>2. KeysStay
  BY <1>1, PrunedKeys DEF Restart, TablesKept
<1>3. exists' = exists
  BY <1>1 DEF OpenStore, Boots
<1> QED
  BY <1>1, <1>2, <1>3 DEF SqliteNext, OpenStore

\* Time goes on during a boot.
LEMMA WaitStep ==
  ASSUME Tick, UNCHANGED <<jsonOnly, up, crashes, cursors, boot, sqliteOnly>>
  PROVE  /\ [SqliteNext]_sqliteVars /\ KeysStay
         /\ UNCHANGED <<jsonOnly, exists>>
<1>1. UNCHANGED <<db, process, inFlight, clients, exists>>
  BY DEF sqliteOnly, boot, process, clients
<1> QED
  BY <1>1 DEF SqliteNext, KeysStay

\* What the backend does with what it has imported.
LEMMA OnImportStep ==
  ASSUME Types, up, ~closing, OnImport
  PROVE  [SqliteNext]_sqliteVars /\ KeysStay /\ ~closing'
<1>1. CASE (Tick \/ Sweep) /\ UNCHANGED <<up, crashes, cursors, sqliteOnly>>
  <2>1. UNCHANGED <<db, process, inFlight, clients>> /\ ~closing'
    BY <1>1 DEF sqliteOnly, process, clients
  <2> QED
    BY <1>1, <2>1 DEF SqliteNext, Runtime, KeysStay
<1>2. CASE \E a \in Agents, id \in MessageIDs :
             \/ \E status \in {"accepted", "rejected"} : DurableAck(a, id, status)
             \/ \E type \in {"progress", "final", "error"} : DurableEvent(a, id, type)
  <2>1. db'.idempotency = db.idempotency /\ ~closing'
    <3>1. db'.idempotency = db.idempotency
      BY <1>2, ReplyStep DEF Replies
    <3>2. UNCHANGED process
      BY <1>2 DEF DurableAck, DurableEvent
    <3> QED
      BY <3>1, <3>2 DEF process
  <2>2. Runtime
    BY <1>2 DEF Runtime
  <2> QED
    BY <2>1, <2>2 DEF SqliteNext, KeysStay
<1>3. CASE \E a \in Agents, limit \in Limits : \E cursor \in cursors[a] :
             BeginPoll(a, cursor, limit)
  <2>1. db' = db /\ ~closing'
    BY <1>3 DEF BeginPoll, process
  <2> QED
    BY <1>3, <2>1 DEF SqliteNext, Runtime, KeysStay
<1>4. CASE \E p \in polls : readDurableInbox(p)
  <2>1. db'.idempotency = db.idempotency /\ ~closing'
    <3>1. db'.idempotency = db.idempotency
      BY <1>4, ReadStep DEF MovesRows
    <3>2. UNCHANGED process
      BY <1>4 DEF readDurableInbox
    <3> QED
      BY <3>1, <3>2 DEF process
  <2> QED
    BY <1>4, <2>1 DEF SqliteNext, Runtime, KeysStay
<1>5. CASE \E p \in polls, arrives \in BOOLEAN : FinishPoll(p, arrives)
  <2>1. db' = db /\ ~closing'
    BY <1>5 DEF FinishPoll, process
  <2>2. Runtime
    BY <1>5 DEF Runtime
  <2> QED
    BY <2>1, <2>2 DEF SqliteNext, KeysStay
<1>6. CASE claimDuePushes
  <2>1. db'.idempotency = db.idempotency /\ ~closing'
    BY <1>6 DEF claimDuePushes, process, Types, DatabaseType
  <2> QED
    BY <1>6, <2>1 DEF SqliteNext, Background, KeysStay
<1>7. CASE pruneDB
  <2>1. KeysStay /\ ~closing'
    BY <1>7, PrunedKeys DEF pruneDB, process
  <2> QED
    BY <1>7, <2>1 DEF SqliteNext, Background
<1>8. CASE Crash
  <2>1. db' = db /\ ~closing'
    BY <1>8 DEF Crash, LoseMemory
  <2> QED
    BY <1>8, <2>1 DEF SqliteNext, KeysStay
<1> QED
  BY <1>1, <1>2, <1>3, <1>4, <1>5, <1>6, <1>7, <1>8 DEF OnImport
\* A step either leaves the process running or empties it.
LEMMA RunsOrStops ==
  ASSUME up, OnImport
  PROVE  up' \/ NothingInFlight'
<1>1. CASE (Tick \/ Sweep) /\ UNCHANGED <<up, crashes, cursors, sqliteOnly>>
  BY <1>1
<1>2. CASE Crash
  BY <1>2 DEF Crash, LoseMemory, NothingInFlight
<1>3. CASE ~((Tick \/ Sweep) /\ UNCHANGED <<up, crashes, cursors, sqliteOnly>>) /\ ~Crash
  <2>1. UNCHANGED process
    BY <1>3 DEF OnImport, DurableAck, DurableEvent, BeginPoll, readDurableInbox,
                FinishPoll, claimDuePushes, pruneDB
  <2> QED
    BY <2>1 DEF process
<1> QED
  BY <1>1, <1>2, <1>3

(***************************************************************************)
(* The invariant                                                           *)
(***************************************************************************)

\* The JSON backend before the move.
LEMMA JsonStageStep ==
  ASSUME MigrateInv, stage = "json", JsonNext, UNCHANGED <<boot, sqliteOnly>>
  PROVE  MigrateInv'
<1>1. JsonInv'
  BY JsonNextStep DEF MigrateInv
<1>2. UNCHANGED <<stage, step, retired, exists, db, closing, saves, creations,
                  polls, claimed, jobs>>
  BY DEF boot, sqliteOnly, inFlight
<1>3. Boots'
  BY <1>2 DEF MigrateInv, Boots, NothingInFlight
<1> QED
  BY <1>1, <1>2, <1>3 DEF MigrateInv

\* The steps of a boot keep the invariant.
LEMMA BootStep ==
  ASSUME MigrateInv,
         \/ CheckFiles \/ CrashInBoot
         \/ \E ok \in BOOLEAN :
              ImportState(ok) \/ InstallDatabase(ok) \/ RetireState(ok)
  PROVE  MigrateInv'
<1>1. /\ stage = "boot" /\ ~up /\ ~closing /\ NothingInFlight
      /\ exists \in BOOLEAN /\ (retired => exists) /\ (~exists => db = EmptyDatabase)
      /\ Boots /\ FileKept /\ TablesKept /\ step \in 1..5
  BY BootAt DEF MigrateInv, Boots, At, CheckFiles, CrashInBoot, ImportState,
                InstallDatabase, RetireState
<1>2. CASE CheckFiles
  <2>1. step = 1 /\ stage' = stage
    BY <1>1, <1>2, BootAt DEF CheckFiles
  <2>2. UNCHANGED <<vars, up, db, inFlight, cursors, jsonOnly, exists, retired, closing>>
    BY <1>2 DEF CheckFiles, jsonVars, jsonClients, jsonOnly, sqliteOnly
  <2>3. step' = IF exists THEN 5 ELSE 2
    BY <1>1, <1>2, <2>1, StepNumbers DEF CheckFiles
  <2>4. NothingInFlight'
    BY <1>1, <2>2 DEF NothingInFlight, inFlight
  <2>5. Boots'
    BY <1>1, <2>1, <2>2, <2>3, <2>4 DEF Boots
  <2>6. FileKept' /\ TablesKept'
    BY <1>1, <2>2, BootKeeps
  <2> QED
    BY <1>1, <2>1, <2>5, <2>6 DEF MigrateInv
<1>3. CASE CrashInBoot
  <2>1. step' = 1 /\ stage' = stage
    BY <1>3 DEF CrashInBoot, GiveUp
  <2>2. UNCHANGED <<vars, up, db, inFlight, cursors, jsonOnly, exists, retired, closing>>
    BY <1>3 DEF CrashInBoot, sqliteOnly
  <2>3. NothingInFlight'
    BY <1>1, <2>2 DEF NothingInFlight, inFlight
  <2>4. Boots'
    BY <1>1, <2>1, <2>2, <2>3 DEF Boots
  <2>5. FileKept' /\ TablesKept'
    BY <1>1, <2>2, BootKeeps
  <2> QED
    BY <1>1, <2>1, <2>4, <2>5 DEF MigrateInv
<1>4. ASSUME NEW ok \in BOOLEAN, ImportState(ok)
      PROVE  MigrateInv'
  <2>1. step = 2 /\ ~exists /\ stage' = stage /\ step' = IF ok THEN 3 ELSE 1
    BY <1>1, <1>4, BootAt DEF ImportState, GoOn, GiveUp, Boots
  <2>2. UNCHANGED <<vars, up, db, inFlight, cursors, jsonOnly, exists, retired, closing>>
    BY <1>4 DEF ImportState, jsonVars, jsonClients, jsonOnly, sqliteOnly
  <2>3. NothingInFlight'
    BY <1>1, <2>2 DEF NothingInFlight, inFlight
  <2>4. Boots'
    BY <1>1, <2>1, <2>2, <2>3 DEF Boots
  <2>5. FileKept' /\ TablesKept'
    BY <1>1, <2>2, BootKeeps
  <2> QED
    BY <1>1, <2>1, <2>4, <2>5 DEF MigrateInv
<1>5. ASSUME NEW ok \in BOOLEAN, InstallDatabase(ok)
      PROVE  MigrateInv'
  <2>1. step = 3 /\ ~exists /\ stage' = stage /\ step' = IF ok THEN 4 ELSE 1
    BY <1>1, <1>5, BootAt DEF InstallDatabase, GoOn, GiveUp, Boots
  <2>2. /\ UNCHANGED <<up, retired, closing, saves, creations, polls, claimed, jobs>>
        /\ exists' = (exists \/ ok) /\ db' = IF ok THEN Imported(file) ELSE db
    BY <1>5 DEF InstallDatabase, jsonVars
  <2>3. NothingInFlight'
    BY <1>1, <2>2 DEF NothingInFlight
  <2>4. Boots'
    BY <1>1, <2>1, <2>2, <2>3 DEF Boots
  <2>5. FileKept' /\ TablesKept'
    BY <1>1, <1>5, InstallStep
  <2> QED
    BY <1>1, <2>1, <2>4, <2>5 DEF MigrateInv
<1>6. ASSUME NEW ok \in BOOLEAN, RetireState(ok)
      PROVE  MigrateInv'
  <2>1. step = 4 /\ exists /\ stage' = stage /\ step' = IF ok THEN 5 ELSE 1
    BY <1>1, <1>6, BootAt DEF RetireState, GoOn, GiveUp, Boots
  <2>2. UNCHANGED <<vars, up, db, inFlight, cursors, jsonOnly, exists, closing>>
    BY <1>6 DEF RetireState, jsonVars, jsonClients, jsonOnly, sqliteOnly
  <2>3. NothingInFlight'
    BY <1>1, <2>2 DEF NothingInFlight, inFlight
  <2>4. Boots'
    BY <1>1, <2>1, <2>2, <2>3 DEF Boots
  <2>5. FileKept' /\ TablesKept'
    BY <1>1, <2>2, BootKeeps
  <2> QED
    BY <1>1, <2>1, <2>4, <2>5 DEF MigrateInv
<1> QED
  BY <1>2, <1>3, <1>4, <1>5, <1>6

\* Every step of the deployment keeps the invariant.
LEMMA MigrateNextInv ==
  ASSUME MigrateInv, [MigrateNext]_migrateVars
  PROVE  MigrateInv'
<1>1. CASE stage = "json" /\ JsonNext /\ UNCHANGED <<boot, sqliteOnly>>
  BY <1>1, JsonStageStep
<1>2. CASE SwitchBackend
  BY <1>2, SwitchStep
<1>3. CASE \/ CheckFiles \/ CrashInBoot
           \/ \E ok \in BOOLEAN :
                ImportState(ok) \/ InstallDatabase(ok) \/ RetireState(ok)
  BY <1>3, BootStep
<1>4. CASE OpenStore
  <2>1. stage = "boot" /\ step = 5 /\ exists /\ ~closing
    BY <1>4, BootAt DEF OpenStore, MigrateInv, Boots
  <2>2. FileKept' /\ TablesKept'
    BY <1>4, <2>1, OpenStep, TablesStep DEF MigrateInv
  <2>3. /\ stage' = "sqlite" /\ step' = 1 /\ exists' = TRUE
        /\ closing' = closing
    BY <1>4 DEF OpenStore, Restart
  <2>4. Boots'
    BY <2>1, <2>3 DEF Boots
  <2> QED
    BY <2>2, <2>3, <2>4 DEF MigrateInv
<1>5. CASE stage = "boot" /\ Tick
           /\ UNCHANGED <<jsonOnly, up, crashes, cursors, boot, sqliteOnly>>
  <2>1. FileKept' /\ TablesKept'
    BY <1>5, WaitStep, TablesStep DEF MigrateInv
  <2>2. UNCHANGED <<up, stage, step, retired, exists, db, closing, saves,
                    creations, polls, claimed, jobs>>
    BY <1>5 DEF boot, sqliteOnly, inFlight
  <2>3. Boots'
    BY <2>2 DEF MigrateInv, Boots, NothingInFlight
  <2> QED
    BY <1>5, <2>1, <2>2, <2>3 DEF MigrateInv
<1>6. CASE /\ stage = "sqlite" /\ up
           /\ OnImport
           /\ stage' = IF up' THEN "sqlite" ELSE "boot"
           /\ UNCHANGED <<jsonOnly, step, imported, retired, exists>>
  <2>1. /\ exists /\ exists' /\ exists' \in BOOLEAN /\ ~closing /\ step = 1
        /\ step' = 1
    BY <1>6 DEF MigrateInv, Boots
  <2>2. [SqliteNext]_sqliteVars /\ KeysStay /\ ~closing'
    BY <1>6, <2>1, OnImportStep DEF MigrateInv, TablesKept
  <2>3. FileKept' /\ TablesKept'
    BY <1>6, <2>2, TablesStep DEF MigrateInv
  <2>4. up' \/ NothingInFlight'
    BY <1>6, RunsOrStops
  <2>5. Boots'
    BY <1>6, <2>1, <2>2, <2>4 DEF Boots
  <2> QED
    BY <1>6, <2>3, <2>5 DEF MigrateInv
<1>7. CASE UNCHANGED migrateVars
  <2>1. UNCHANGED <<jsonVars, boot, sqliteOnly>>
    BY <1>7 DEF migrateVars
  <2>2. UNCHANGED <<vars, up, cursors, jsonOnly, stage, step, retired, exists, db,
                    closing, inFlight>>
    BY <2>1 DEF jsonVars, jsonClients, jsonOnly, boot, sqliteOnly
  <2>3. Boots'
    BY <2>2 DEF MigrateInv, Boots, NothingInFlight, inFlight
  <2>4. CASE stage = "json"
    <3>1. JsonInv'
      BY <2>1, <2>4, JsonNextStep DEF MigrateInv
    <3> QED
      BY <2>2, <2>3, <2>4, <3>1 DEF MigrateInv
  <2>5. CASE stage # "json"
    <3>1. FileKept' /\ TablesKept'
      BY <2>2, <2>5, BootKeeps DEF MigrateInv
    <3> QED
      BY <2>2, <2>3, <2>5, <3>1 DEF MigrateInv
  <2> QED
    BY <2>4, <2>5
<1> QED
  BY <1>1, <1>2, <1>3, <1>4, <1>5, <1>6, <1>7 DEF MigrateNext

LEMMA MigrateInitInv ==
  ASSUME MigrateInit
  PROVE  MigrateInv
<1>1. JsonInv
  BY JsonInitHolds DEF MigrateInit
<1>2. Boots
  <2>1. /\ stage = "json" /\ step = 1 /\ exists = FALSE /\ retired = FALSE
        /\ db = EmptyDatabase /\ closing = FALSE /\ NothingInFlight
    BY DEF MigrateInit
  <2>2. step \in 1..5
    BY <2>1
  <2> QED
    BY <2>1, <2>2, Zenon DEF Boots
<1> QED
  BY <1>1, <1>2 DEF MigrateInit, MigrateInv

LEMMA MigrateInvariant == MigrateSpec => []MigrateInv
<1>1. MigrateInit => MigrateInv
  BY MigrateInitInv
<1>2. MigrateInv /\ [MigrateNext]_migrateVars => MigrateInv'
  BY MigrateNextInv
<1> QED
  BY <1>1, <1>2, PTL DEF MigrateSpec

(***************************************************************************)
(* What waits in the state file                                            *)
(***************************************************************************)

\* The messages that wait in an inbox of the state file.
Ids(a) == {e.msg : e \in Range(file.inboxes[a].events)}

\* The inboxes whose events are all imported, of clients that have every
\* answer they act on.
Trusted == {a \in DOMAIN file.inboxes \ unwritten : Ids(a) \subseteq Waiting}

\* The delivery of a message is open, over, or no longer needed.
StillWaits(id, a) ==
  \/ id \in arrived
  \/ deliveryExpiry(file.messages[id]) <= clock
  \/ /\ id \in DOMAIN db.deliveries
     /\ db.deliveries[id].target = a
     /\ db.deliveries[id].status \in Open
     /\ db.deliveries[id].expiresAt = deliveryExpiry(file.messages[id])

\* The deliveries to the clients that are promised them.
RowsKept ==
  \A a \in Trusted :
    /\ a \in DOMAIN db.cursors
    /\ \A id \in Ids(a) : StillWaits(id, a)
    /\ \A c \in cursors[a] : CoveredTo(db.deliveries, a, c, arrived, clock)

\* Polls under way, and the cursors they are going to bring.
OnTheWay ==
  \A p \in polls :
    /\ p.cursor \in cursors[p.agent]
    /\ p.agent \in Trusted /\ p.phase = "apply" =>
         CoveredTo(db.deliveries, p.agent, p.next, arrived \cup ToSet(p.batch), clock)

\* Before the import the state file honours the cursors, after it the rows do.
FileWaits ==
  \A a \in Agents \ unwritten : \A c \in cursors[a] : Reaches(c, file, a, arrived)

RowsWait == CursorsInOrder /\ Numbering /\ RowsKept /\ OnTheWay

WaitInv ==
  /\ stage = "json" => CursorInv
  /\ stage # "json" => /\ InboxesIn(file)
                       /\ ~exists => FileWaits
                       /\ exists => RowsWait

(***************************************************************************)
(* What waits is imported                                                  *)
(***************************************************************************)

\* How many events of an inbox that are delivered come before the k-th.
Offset(f, a, k) == Cardinality({j \in deliverable(f, a) : j < k})

LEMMA OffsetType ==
  ASSUME NEW f, Sound(f), NEW a \in DOMAIN f.inboxes, NEW k
  PROVE  /\ Offset(f, a, k) \in Nat
         /\ IsFiniteSet({j \in deliverable(f, a) : j < k})
<1> DEFINE S == deliverable(f, a)
           T == {j \in S : j < k}
<1>1. IsFiniteSet(S)
  BY ImportedCursors
<1>2. T \subseteq S
  OBVIOUS
<1> HIDE DEF S, T
<1>3. IsFiniteSet(T) /\ Cardinality(T) \in Nat
  BY <1>1, <1>2, FS_Subset, FS_CardinalityType
<1> QED
  BY <1>3 DEF Offset, T, S

\* The new numbers are in the order of the old ones, below the next one.
LEMMA OffsetOrder ==
  ASSUME NEW f, Sound(f), NEW a \in DOMAIN f.inboxes, NEW j \in deliverable(f, a)
  PROVE  /\ Offset(f, a, j) < Cardinality(deliverable(f, a))
         /\ \A k \in deliverable(f, a) : j < k => Offset(f, a, j) < Offset(f, a, k)
<1>1. deliverable(f, a) \subseteq Nat
  <2>1. f.inboxes[a].events \in Seq(Event)
    BY DEF Sound, Inbox
  <2>2. DOMAIN f.inboxes[a].events \subseteq Nat
    BY <2>1, LenProperties
  <2> QED
    BY <2>2 DEF deliverable
<1>2. ASSUME NEW T, IsFiniteSet(T), {i \in deliverable(f, a) : i < j} \subseteq T, j \in T
      PROVE  Offset(f, a, j) < Cardinality(T)
  <2> DEFINE B == {i \in deliverable(f, a) : i < j}
  <2>1. j \notin B
    BY <1>1
  <2>2. B # T /\ B \subseteq T
    BY <1>2, <2>1
  <2> HIDE DEF B
  <2>3. /\ Cardinality(B) <= Cardinality(T) /\ Cardinality(B) # Cardinality(T)
        /\ IsFiniteSet(B)
    BY <1>2, <2>2, FS_Subset
  <2>4. Cardinality(B) \in Nat /\ Cardinality(T) \in Nat
    BY <1>2, <2>3, FS_CardinalityType
  <2>5. Cardinality(B) < Cardinality(T)
    BY <2>3, <2>4
  <2> QED
    BY <2>5 DEF Offset, B
<1>3. Offset(f, a, j) < Cardinality(deliverable(f, a))
  <2>1. IsFiniteSet(deliverable(f, a))
    BY ImportedCursors
  <2> QED
    BY <1>2, <2>1
<1>4. ASSUME NEW k \in deliverable(f, a), j < k
      PROVE  Offset(f, a, j) < Offset(f, a, k)
  <2> DEFINE T == {i \in deliverable(f, a) : i < k}
  <2>1. IsFiniteSet(T)
    BY OffsetType
  <2>2. \A i \in deliverable(f, a) : i < j => i < k
    BY <1>1, <1>4
  <2>3. {i \in deliverable(f, a) : i < j} \subseteq T /\ j \in T
    BY <1>4, <2>2
  <2> HIDE DEF T
  <2>4. Offset(f, a, j) < Cardinality(T)
    BY <1>2, <2>1, <2>3
  <2> QED
    BY <2>4 DEF Offset, T
<1> QED
  BY <1>3, <1>4

\* The row of the event at position k.
LEMMA ImportedFields ==
  ASSUME NEW f, NEW a, NEW k
  PROVE  LET row == ImportedDelivery(f, a, k)
         IN  /\ row.target = a
             /\ row.seq = f.inboxes[a].base + Offset(f, a, k)
             /\ row.status = "pending"
             /\ row.expiresAt = deliveryExpiry(f.messages[f.inboxes[a].events[k].msg])
BY DEF ImportedDelivery, Offset

\* Every row stands for one event that is to be delivered ...
LEMMA RowHasEvent ==
  ASSUME NEW f, NEW id \in DOMAIN ImportedDeliveries(f)
  PROVE  \E a \in DOMAIN f.inboxes : \E k \in deliverable(f, a) :
           /\ f.inboxes[a].events[k].msg = id
           /\ ImportedDeliveries(f)[id] = ImportedDelivery(f, a, k)
<1> DEFINE places == UNION {{<<a, k>> : k \in deliverable(f, a)} : a \in DOMAIN f.inboxes}
           msg(p) == f.inboxes[p[1]].events[p[2]].msg
           ids == {msg(p) : p \in places}
           row(i) == LET p == CHOOSE q \in places : msg(q) = i
                     IN  ImportedDelivery(f, p[1], p[2])
<1>1. ImportedDeliveries(f) = [i \in ids |-> row(i)]
  BY DEF ImportedDeliveries
<1>2. \A p \in places : p[1] \in DOMAIN f.inboxes /\ p[2] \in deliverable(f, p[1])
  OBVIOUS
<1>3. PICK p : p = CHOOSE q \in places : msg(q) = id
  OBVIOUS
<1>4. row(id) = ImportedDelivery(f, p[1], p[2])
  BY <1>3
<1> HIDE DEF places, row
<1>5. id \in ids /\ ImportedDeliveries(f)[id] = row(id)
  BY <1>1
<1>6. p \in places /\ msg(p) = id
  BY <1>3, <1>5
<1> QED
  BY <1>2, <1>4, <1>5, <1>6

\* ... and every such event has its row.
LEMMA EventHasRow ==
  ASSUME NEW f, InboxesIn(f), NEW a \in DOMAIN f.inboxes, NEW k \in deliverable(f, a)
  PROVE  LET id == f.inboxes[a].events[k].msg
         IN  /\ id \in DOMAIN ImportedDeliveries(f)
             /\ ImportedDeliveries(f)[id] = ImportedDelivery(f, a, k)
<1> DEFINE places == UNION {{<<b, j>> : j \in deliverable(f, b)} : b \in DOMAIN f.inboxes}
           msg(p) == f.inboxes[p[1]].events[p[2]].msg
           ids == {msg(p) : p \in places}
           id == f.inboxes[a].events[k].msg
<1>1. id \in DOMAIN ImportedDeliveries(f)
  <2>1. <<a, k>> \in places /\ msg(<<a, k>>) = id
    OBVIOUS
  <2>2. DOMAIN ImportedDeliveries(f) = ids
    BY DEF ImportedDeliveries
  <2> HIDE DEF places, id
  <2> QED
    BY <2>1, <2>2
<1> HIDE DEF places, ids
<1>2. PICK b \in DOMAIN f.inboxes : \E j \in deliverable(f, b) :
           /\ f.inboxes[b].events[j].msg = id
           /\ ImportedDeliveries(f)[id] = ImportedDelivery(f, b, j)
  BY <1>1, RowHasEvent
<1>3. PICK j \in deliverable(f, b) :
           /\ f.inboxes[b].events[j].msg = id
           /\ ImportedDeliveries(f)[id] = ImportedDelivery(f, b, j)
  BY <1>2
<1>4. /\ id \in DOMAIN f.messages
      /\ k \in DOMAIN f.inboxes[a].events /\ j \in DOMAIN f.inboxes[b].events
  BY DEF deliverable
<1>5. /\ Holds(f.inboxes[a].events, a, f.messages, f.nextMessageID)
      /\ Holds(f.inboxes[b].events, b, f.messages, f.nextMessageID)
  BY DEF InboxesIn
<1>6. PICK i : i = id
  OBVIOUS
<1>7. f.inboxes[a].events[k].msg = i /\ f.inboxes[b].events[j].msg = i
  BY <1>3, <1>6
<1>8. a = b
  <2>1. f.messages[i].to = a
    BY <1>4, <1>5, <1>6, <1>7 DEF Holds
  <2>2. f.messages[i].to = b
    BY <1>4, <1>5, <1>6, <1>7 DEF Holds
  <2> QED
    BY <2>1, <2>2
<1>9. j = k
  BY <1>4, <1>5, <1>7, <1>8 DEF Holds, Once
<1> QED
  BY <1>1, <1>3, <1>8, <1>9

\* No two rows of an inbox have the same number, and nothing is acknowledged.
LEMMA ImportOrders ==
  ASSUME Sound(file), InboxesIn(file), db' = Imported(file)
  PROVE  CursorsInOrder' /\ Numbering'
<1> DEFINE base(a) == file.inboxes[a].base
           next(a) == base(a) + Cardinality(deliverable(file, a))
<1>1. /\ db'.deliveries = ImportedDeliveries(file)
      /\ db'.cursors = [a \in DOMAIN file.inboxes |-> [next |-> next(a), acked |-> base(a)]]
  BY ImportedTables
<1>2. \A a \in DOMAIN file.inboxes :
        base(a) \in Nat /\ Cardinality(deliverable(file, a)) \in Nat
  BY ImportedCursors
<1>3. ASSUME NEW id \in DOMAIN db'.deliveries
      PROVE  \E a \in DOMAIN file.inboxes : \E k \in deliverable(file, a) :
               /\ file.inboxes[a].events[k].msg = id
               /\ db'.deliveries[id].target = a
               /\ db'.deliveries[id].seq = base(a) + Offset(file, a, k)
  BY <1>1, <1>3, RowHasEvent, ImportedFields
<1> HIDE DEF base, next
<1>4. ASSUME NEW a \in DOMAIN db'.cursors
      PROVE  /\ a \in DOMAIN file.inboxes
             /\ db'.cursors[a].acked = base(a) /\ db'.cursors[a].next = next(a)
  BY <1>1, <1>4
<1>5. CursorsInOrder'
  <2>1. ASSUME NEW a \in DOMAIN db'.cursors
        PROVE  db'.cursors[a].acked <= db'.cursors[a].next
    BY <1>2, <1>4, <2>1 DEF next
  <2>2. ASSUME NEW a \in DOMAIN db'.cursors, NEW id \in DOMAIN db'.deliveries,
               db'.deliveries[id].target = a
        PROVE  ~(db'.deliveries[id].seq < db'.cursors[a].acked)
    <3>1. PICK k \in deliverable(file, a) :
                 db'.deliveries[id].seq = base(a) + Offset(file, a, k)
      BY <1>3, <2>2
    <3>2. Offset(file, a, k) \in Nat /\ base(a) \in Nat
      BY <1>2, <1>4, OffsetType
    <3> QED
      BY <1>4, <3>1, <3>2
  <2> QED
    BY <2>1, <2>2 DEF CursorsInOrder
<1>6. Numbering'
  <2>1. ASSUME NEW i \in DOMAIN db'.deliveries
        PROVE  db'.deliveries[i].seq < NextSeq(db'.cursors, db'.deliveries[i].target)
    <3>0. PICK a \in DOMAIN file.inboxes : \E k \in deliverable(file, a) :
                 /\ db'.deliveries[i].target = a
                 /\ db'.deliveries[i].seq = base(a) + Offset(file, a, k)
      BY <1>3
    <3>1. PICK k \in deliverable(file, a) :
                 /\ db'.deliveries[i].target = a
                 /\ db'.deliveries[i].seq = base(a) + Offset(file, a, k)
      BY <3>0
    <3>2. NextSeq(db'.cursors, a) = next(a)
      BY <1>1, <1>4 DEF NextSeq
    <3>3. /\ Offset(file, a, k) \in Nat
          /\ Offset(file, a, k) < Cardinality(deliverable(file, a))
      BY OffsetType, OffsetOrder
    <3> QED
      BY <1>2, <3>1, <3>2, <3>3 DEF next
  <2>2. ASSUME NEW i \in DOMAIN db'.deliveries, NEW j \in DOMAIN db'.deliveries,
               db'.deliveries[i].target = db'.deliveries[j].target,
               db'.deliveries[i].seq = db'.deliveries[j].seq
        PROVE  i = j
    <3>0. PICK a \in DOMAIN file.inboxes : \E k \in deliverable(file, a) :
                 /\ file.inboxes[a].events[k].msg = i
                 /\ db'.deliveries[i].target = a
                 /\ db'.deliveries[i].seq = base(a) + Offset(file, a, k)
      BY <1>3
    <3>1. PICK k \in deliverable(file, a) :
                 /\ file.inboxes[a].events[k].msg = i
                 /\ db'.deliveries[i].target = a
                 /\ db'.deliveries[i].seq = base(a) + Offset(file, a, k)
      BY <3>0
    <3>2. \E n \in deliverable(file, a) :
                 /\ file.inboxes[a].events[n].msg = j
                 /\ db'.deliveries[j].seq = base(a) + Offset(file, a, n)
      <4>1. PICK b \in DOMAIN file.inboxes : \E n \in deliverable(file, b) :
                 /\ file.inboxes[b].events[n].msg = j
                 /\ db'.deliveries[j].target = b
                 /\ db'.deliveries[j].seq = base(b) + Offset(file, b, n)
        BY <1>3
      <4>2. a = b
        BY <2>2, <3>1, <4>1
      <4> QED
        BY <4>1, <4>2
    <3>2a. PICK n \in deliverable(file, a) :
                 /\ file.inboxes[a].events[n].msg = j
                 /\ db'.deliveries[j].seq = base(a) + Offset(file, a, n)
      BY <3>2
    <3>3. /\ Offset(file, a, k) \in Nat /\ Offset(file, a, n) \in Nat
          /\ base(a) \in Nat
      BY <1>2, OffsetType
    <3>4. Offset(file, a, k) = Offset(file, a, n)
      <4>1. base(a) + Offset(file, a, k) = base(a) + Offset(file, a, n)
        BY <2>2, <3>1, <3>2a
      <4> QED
        BY <3>3, <4>1
    <3>5. ~(k < n) /\ ~(n < k)
      BY <3>3, <3>4, OffsetOrder
    <3>6. k \in Nat /\ n \in Nat
      <4>1. file.inboxes[a].events \in Seq(Event)
        BY DEF Sound, Inbox
      <4> QED
        BY <4>1, LenProperties DEF deliverable
    <3>7. k = n
      BY <3>5, <3>6
    <3> QED
      BY <3>1, <3>2a, <3>7
  <2> QED
    BY <2>1, <2>2 DEF Numbering
<1> QED
  BY <1>5, <1>6

\* An inbox that is imported whole keeps its numbers.
LEMMA WholeInbox ==
  ASSUME Sound(file), NEW a \in Trusted
  PROVE  /\ a \in DOMAIN file.inboxes /\ a \notin unwritten
         /\ deliverable(file, a) = DOMAIN file.inboxes[a].events
         /\ \A k \in DOMAIN file.inboxes[a].events :
              /\ k \in Nat /\ k > 0 /\ Offset(file, a, k) = k - 1
              /\ file.inboxes[a].events[k].msg \in Ids(a)
         /\ \A id \in Ids(a) : \E k \in DOMAIN file.inboxes[a].events :
              id = file.inboxes[a].events[k].msg
<1> DEFINE events == file.inboxes[a].events
<1>1. a \in DOMAIN file.inboxes /\ a \notin unwritten /\ Ids(a) \subseteq Waiting
  BY DEF Trusted
<1>2. events \in Seq(Event)
  BY <1>1 DEF Sound, Inbox
<1>3. DOMAIN events = 1..Len(events) /\ Len(events) \in Nat
  BY <1>2, LenProperties
<1>4. /\ \A k \in DOMAIN events : events[k].msg \in Ids(a)
      /\ \A id \in Ids(a) : \E k \in DOMAIN events : id = events[k].msg
  BY DEF Ids, Range
<1>5. ASSUME NEW id \in Waiting
      PROVE  id \in DOMAIN file.messages /\ ~TakenUp(file.messages[id])
  <2>1. /\ id \in DOMAIN file.messages
        /\ file.messages[id].type = "request" =>
             file.messages[id].state \in {"pending", "waiting_ack"}
    BY <1>5 DEF Waiting
  <2> QED
    BY <2>1 DEF TakenUp, isTerminal, TerminalStates
<1>6. deliverable(file, a) = DOMAIN events
  BY <1>1, <1>4, <1>5 DEF deliverable
<1>7. ASSUME NEW k \in DOMAIN events
      PROVE  k \in Nat /\ k > 0 /\ Offset(file, a, k) = k - 1
  <2>1. k \in Nat /\ k > 0 /\ k <= Len(events)
    BY <1>3
  <2>2. {j \in deliverable(file, a) : j < k} = 1..(k - 1)
    <3> HIDE DEF events
    <3> QED
      BY <1>3, <1>6, <2>1
  <2>3. Cardinality(1..(k - 1)) = k - 1
    BY <2>1, FS_Interval
  <2> QED
    BY <2>1, <2>2, <2>3 DEF Offset
<1> QED
  BY <1>1, <1>4, <1>6, <1>7

\* The import keeps what the state file promised.
LEMMA ImportKeeps ==
  ASSUME Sound(file), InboxesIn(file), FileWaits, cursors \in [Agents -> SUBSET Nat],
         db' = Imported(file),
         UNCHANGED <<file, unwritten, cursors, arrived, clock>>
  PROVE  RowsKept'
<1>1. /\ db'.deliveries = ImportedDeliveries(file)
      /\ DOMAIN db'.cursors = DOMAIN file.inboxes
  <2>1. PICK d : d = Imported(file)
    OBVIOUS
  <2>2. /\ d.deliveries = ImportedDeliveries(file)
        /\ d.cursors = [a \in DOMAIN file.inboxes |->
                          [next  |-> file.inboxes[a].base
                                       + Cardinality(deliverable(file, a)),
                           acked |-> file.inboxes[a].base]]
    BY <2>1, ImportedTables
  <2>3. DOMAIN d.cursors = DOMAIN file.inboxes
    BY <2>2
  <2> QED
    BY <2>1, <2>2, <2>3
<1>2. ASSUME NEW a \in Trusted
      PROVE  /\ a \in DOMAIN db'.cursors
             /\ \A id \in Ids(a) :
                  /\ id \in DOMAIN db'.deliveries
                  /\ db'.deliveries[id].target = a
                  /\ db'.deliveries[id].status \in Open
                  /\ db'.deliveries[id].expiresAt = deliveryExpiry(file.messages[id])
             /\ \A c \in cursors[a] : CoveredTo(db'.deliveries, a, c, arrived, clock)
  <2>1. a \in DOMAIN file.inboxes /\ a \notin unwritten /\ a \in Agents
    BY WholeInbox DEF Sound
  <2>2. ASSUME NEW id \in Ids(a)
        PROVE  /\ id \in DOMAIN db'.deliveries
               /\ db'.deliveries[id].target = a
               /\ db'.deliveries[id].status \in Open
               /\ db'.deliveries[id].expiresAt = deliveryExpiry(file.messages[id])
    <3>1. PICK k \in DOMAIN file.inboxes[a].events :
                 id = file.inboxes[a].events[k].msg
      BY WholeInbox
    <3>2. k \in deliverable(file, a)
      BY WholeInbox
    <3>3. /\ id \in DOMAIN db'.deliveries
          /\ db'.deliveries[id] = ImportedDelivery(file, a, k)
      BY <1>1, <2>1, <3>1, <3>2, EventHasRow
    <3> QED
      BY <3>1, <3>3, ImportedFields DEF Open
  <2>3. ASSUME NEW c \in cursors[a], NEW id \in DOMAIN db'.deliveries,
               db'.deliveries[id].target = a, db'.deliveries[id].seq < c
        PROVE  id \in arrived
    <3>1. PICK b \in DOMAIN file.inboxes : \E k \in deliverable(file, b) :
                 /\ file.inboxes[b].events[k].msg = id
                 /\ db'.deliveries[id] = ImportedDelivery(file, b, k)
      BY <1>1, RowHasEvent
    <3>2. PICK k \in deliverable(file, b) :
                 /\ file.inboxes[b].events[k].msg = id
                 /\ db'.deliveries[id] = ImportedDelivery(file, b, k)
      BY <3>1
    <3>3. b = a /\ db'.deliveries[id].seq = file.inboxes[b].base + Offset(file, b, k)
      BY <2>3, <3>2, ImportedFields
    <3>4. /\ k \in DOMAIN file.inboxes[a].events /\ k \in Nat /\ k > 0
          /\ Offset(file, a, k) = k - 1
      BY <3>3, WholeInbox
    <3>5. file.inboxes[a].base \in Nat /\ c \in Nat
      BY <2>1, ImportedCursors
    <3>6. file.inboxes[a].base + (k - 1) < c
      BY <2>3, <3>3, <3>4
    <3>7. file.inboxes[a].base + k <= c /\ c # 0
      BY <3>4, <3>5, <3>6
    <3>8. Covered(c, file.inboxes[a], arrived)
      BY <2>1, <3>7 DEF FileWaits, Reaches
    <3>9. file.inboxes[a].events[k].msg \in arrived
      BY <3>4, <3>7, <3>8 DEF Covered
    <3> QED
      BY <3>2, <3>3, <3>9
  <2>4. \A c \in cursors[a] : CoveredTo(db'.deliveries, a, c, arrived, clock)
    BY <2>3 DEF CoveredTo
  <2> QED
    BY <1>1, <2>1, <2>2, <2>4
<1>3. Trusted' = Trusted /\ \A a : Ids(a)' = Ids(a)
  BY DEF Trusted, Ids, Waiting
<1>4. ASSUME NEW a \in Trusted, NEW id \in Ids(a)
      PROVE  StillWaits(id, a)'
  BY <1>2, <1>4 DEF StillWaits
<1> QED
  BY <1>2, <1>3, <1>4 DEF RowsKept

(***************************************************************************)
(* What waits goes on waiting on SQLite                                    *)
(***************************************************************************)

\* Messages that may count as received: those of other inboxes are not followed.
Got == arrived' \cup {id \in DOMAIN db.deliveries : db.deliveries[id].target \notin Trusted}

\* A step that receives less receives no more.
LEMMA MovedMore ==
  ASSUME RowsMove
  PROVE  RowsMoved(Got)
BY DEF RowsMove, RowsMoved, RowStep, Got

\* A covered prefix stays covered when rows move.
LEMMA CoveredMoves ==
  ASSUME Types, Types', RowsMoved(Got), NEW a, NEW c \in Nat, NEW got, NEW more,
         got \subseteq more, CoveredTo(db.deliveries, a, c, got, clock)
  PROVE  CoveredTo(db'.deliveries, a, c, more, clock')
<1>1. /\ clock \in Nat
      /\ \A id \in DOMAIN db.deliveries : db.deliveries[id].expiresAt \in Nat
  BY RowTypes
<1>2. ASSUME NEW id \in DOMAIN db'.deliveries,
             db'.deliveries[id].target = a, db'.deliveries[id].seq < c,
             db'.deliveries[id].status \in Open
      PROVE  id \in more \/ db'.deliveries[id].expiresAt <= clock'
  <2>1. /\ id \in DOMAIN db.deliveries /\ clock <= clock' /\ clock' \in Nat
        /\ db.deliveries[id].target = a /\ db.deliveries[id].seq < c
        /\ db'.deliveries[id].expiresAt = db.deliveries[id].expiresAt
        /\ db.deliveries[id].status \in Open
    BY <1>2 DEF RowsMoved, RowStep, Types, RuntimeType
  <2>2. id \in got \/ db.deliveries[id].expiresAt <= clock
    BY <2>1 DEF CoveredTo
  <2> QED
    BY <1>1, <2>1, <2>2
<1> QED
  BY <1>2 DEF CoveredTo

\* A delivery that waits goes on waiting when rows move.
LEMMA WaitsOn ==
  ASSUME Types, Types', Sound(file), RowsMoved(Got), UNCHANGED <<file, unwritten>>,
         NEW a \in Trusted, NEW id \in Ids(a), StillWaits(id, a)
  PROVE  StillWaits(id, a)'
<1> DEFINE e == deliveryExpiry(file.messages[id])
<1>1. e \in Nat
  <2>1. id \in DOMAIN file.messages
    BY DEF Trusted, Waiting
  <2>2. file.messages[id] \in Message
    BY <2>1 DEF Sound
  <2> QED
    BY <2>2, MessageTypes DEF deliveryExpiry
<1>2. /\ clock \in Nat /\ clock' \in Nat /\ clock <= clock' /\ arrived \subseteq arrived'
      /\ DOMAIN db'.deliveries \subseteq DOMAIN db.deliveries
  BY DEF RowsMoved, Types, RuntimeType
<1>3. e' = e
  OBVIOUS
<1> HIDE DEF e
<1>4. CASE id \in arrived \/ e <= clock
  <2>1. id \in arrived' \/ e' <= clock'
    BY <1>1, <1>2, <1>3, <1>4
  <2> QED
    BY <2>1 DEF StillWaits, e
<1>5. CASE /\ id \in DOMAIN db.deliveries
           /\ db.deliveries[id].target = a /\ db.deliveries[id].status \in Open
           /\ db.deliveries[id].expiresAt = e
  <2>1. CASE id \notin DOMAIN db'.deliveries
    <3>1. e <= clock
      BY <1>5, <2>1 DEF RowsMoved
    <3> QED
      BY <1>4, <3>1
  <2>2. CASE id \in DOMAIN db'.deliveries
    <3>1. RowStep(id, db.deliveries[id], db'.deliveries[id], Got, clock)
      BY <2>2 DEF RowsMoved
    <3>2. db'.deliveries[id].target = a /\ db'.deliveries[id].expiresAt = e
      BY <1>5, <3>1 DEF RowStep
    <3>3. db'.deliveries[id].status \in Open \cup {"received", "failed"}
      BY <2>2 DEF Types, DatabaseType, Delivery
    <3>4. CASE db'.deliveries[id].status \in Open
      BY <1>3, <2>2, <3>2, <3>4 DEF StillWaits, e
    <3>5. CASE db'.deliveries[id].status = "received"
      <4>1. id \in Got \/ e <= clock
        BY <1>5, <3>1, <3>5 DEF RowStep
      <4>2. id \in arrived' \/ e <= clock
        BY <1>5, <4>1 DEF Got
      <4>3. id \in arrived' => StillWaits(id, a)'
        BY DEF StillWaits
      <4> QED
        BY <1>4, <4>2, <4>3
    <3>6. CASE db'.deliveries[id].status = "failed"
      <4>1. e <= clock
        BY <1>5, <3>1, <3>6 DEF RowStep
      <4> QED
        BY <1>4, <4>1
    <3> QED
      BY <3>3, <3>4, <3>5, <3>6
  <2> QED
    BY <2>1, <2>2
<1> QED
  BY <1>4, <1>5 DEF StillWaits, e

\* What a step on SQLite does to the deliveries and to the clients.
WaitKinds ==
  \/ RowsMoved(Got) /\ KeepsClients
  \/ ReadsAs(Got)
  \/ Answers

\* What waits goes on waiting, below the cursors that clients have or get.
LEMMA RowsWaitStep ==
  ASSUME Types, Types', Sound(file), RowsWait, CursorsInOrder', CursorsGrow, WaitKinds,
         UNCHANGED <<file, unwritten>>
  PROVE  RowsWait'
<1>1. RowsMoved(Got)
  BY MovedMore DEF WaitKinds, ReadsAs, Answers
<1>2. /\ arrived \subseteq arrived'
      /\ cursors \in [Agents -> SUBSET Nat]
      /\ \A p \in polls : p.agent \in Agents /\ p.next \in Nat
      /\ Trusted' = Trusted /\ \A a : Ids(a)' = Ids(a)
      /\ Trusted \subseteq Agents
  <2>1. Trusted \subseteq Agents
    BY DEF Trusted, Sound
  <2>2. /\ cursors \in [Agents -> SUBSET Nat]
        /\ \A p \in polls : p.agent \in Agents /\ p.next \in Nat
    BY DEF Types, FlightType, PollRecord
  <2>3. arrived \subseteq arrived'
    BY <1>1 DEF RowsMoved
  <2> QED
    BY <2>1, <2>2, <2>3 DEF Trusted, Ids, Waiting
<1>3. Numbering'
  <2>1. ASSUME NEW i \in DOMAIN db'.deliveries
        PROVE  /\ i \in DOMAIN db.deliveries
               /\ db'.deliveries[i].target = db.deliveries[i].target
               /\ db'.deliveries[i].seq = db.deliveries[i].seq
               /\ NextSeq(db'.cursors, db.deliveries[i].target)
                    = NextSeq(db.cursors, db.deliveries[i].target)
    <3>1. i \in DOMAIN db.deliveries
      BY <1>1 DEF RowsMoved
    <3>2. db.deliveries[i].target \in Agents
      BY <3>1, RowTypes
    <3> QED
      BY <1>1, <3>1, <3>2 DEF RowsMoved, RowStep
  <2>2. Numbering
    BY DEF RowsWait
  <2> QED
    BY <2>1, <2>2 DEF Numbering
<1>4. ASSUME NEW a \in Trusted
      PROVE  /\ a \in DOMAIN db'.cursors
             /\ \A id \in Ids(a) : StillWaits(id, a)'
             /\ \A c \in cursors[a] : CoveredTo(db'.deliveries, a, c, arrived', clock')
  <2>1. /\ a \in DOMAIN db.cursors
        /\ \A id \in Ids(a) : StillWaits(id, a)
        /\ \A c \in cursors[a] : CoveredTo(db.deliveries, a, c, arrived, clock)
    BY DEF RowsWait, RowsKept
  <2>2. a \in DOMAIN db'.cursors
    BY <2>1 DEF CursorsGrow
  <2>3. \A id \in Ids(a) : StillWaits(id, a)'
    BY <1>1, <2>1, WaitsOn
  <2>4. \A c \in cursors[a] : c \in Nat
    BY <1>2
  <2>5. ASSUME NEW c \in cursors[a]
        PROVE  CoveredTo(db'.deliveries, a, c, arrived', clock')
    <3>1. CoveredTo(db.deliveries, a, c, arrived, clock) /\ c \in Nat
      BY <2>1, <2>4
    <3>2. PICK more : more = arrived'
      OBVIOUS
    <3>3. CoveredTo(db'.deliveries, a, c, more, clock')
      BY <1>1, <1>2, <3>1, <3>2, CoveredMoves
    <3> QED
      BY <3>2, <3>3
  <2> QED
    BY <2>2, <2>3, <2>5
<1>5. ASSUME NEW p \in polls, p.agent \in Trusted, p.phase = "apply", NEW more,
             arrived \cup ToSet(p.batch) \subseteq more
      PROVE  CoveredTo(db'.deliveries, p.agent, p.next, more, clock')
  <2>1. CoveredTo(db.deliveries, p.agent, p.next, arrived \cup ToSet(p.batch), clock)
    BY <1>5 DEF RowsWait, OnTheWay
  <2> QED
    BY <1>1, <1>2, <1>5, <2>1, CoveredMoves
<1>6. ASSUME NEW p \in polls
      PROVE  /\ p.cursor \in cursors[p.agent]
             /\ p.agent \in Trusted /\ p.phase = "apply" =>
                  CoveredTo(db'.deliveries, p.agent, p.next,
                            arrived' \cup ToSet(p.batch), clock')
  <2>1. p.cursor \in cursors[p.agent]
    BY DEF RowsWait, OnTheWay
  <2>2. arrived \cup ToSet(p.batch) \subseteq arrived' \cup ToSet(p.batch)
    BY <1>2
  <2> QED
    BY <1>5, <2>1, <2>2
<1>7. RowsKept' /\ OnTheWay'
  <2>1. CASE RowsMoved(Got) /\ KeepsClients
    <3>1. /\ cursors' = cursors
          /\ \A p \in polls' : \/ p \in polls
                               \/ p.phase = "read" /\ p.cursor \in cursors[p.agent]
      BY <2>1 DEF KeepsClients
    <3>2. RowsKept'
      BY <1>2, <1>4, <3>1 DEF RowsKept
    <3> QED
      BY <1>2, <1>6, <3>1, <3>2 DEF OnTheWay
  <2>2. CASE ReadsAs(Got)
    <3>1. PICK p, q :
            /\ cursors' = cursors
            /\ p \in polls /\ polls' = (polls \ {p}) \cup {q}
            /\ q.agent = p.agent /\ q.cursor = p.cursor
            /\ CoveredTo(db'.deliveries, q.agent, q.next, ToSet(q.batch), clock)
      BY <2>2 DEF ReadsAs
    <3>2. RowsKept'
      BY <1>2, <1>4, <3>1 DEF RowsKept
    <3>3. q.cursor \in cursors[q.agent]
      BY <1>6, <3>1
    <3>4. CoveredTo(db'.deliveries, q.agent, q.next, arrived' \cup ToSet(q.batch), clock')
      <4>1. \A id \in DOMAIN db'.deliveries : db'.deliveries[id].expiresAt \in Nat
        BY DEF Types, DatabaseType, Delivery
      <4>2. clock \in Nat /\ clock' \in Nat /\ clock <= clock'
        BY <1>1 DEF RowsMoved, Types, RuntimeType
      <4>3. \A id \in DOMAIN db'.deliveries :
              db'.deliveries[id].expiresAt <= clock => db'.deliveries[id].expiresAt <= clock'
        BY <4>1, <4>2
      <4> QED
        BY <3>1, <4>3 DEF CoveredTo
    <3>5. \A r \in polls' : r \in polls \/ r = q
      BY <3>1
    <3> QED
      BY <1>2, <1>6, <3>1, <3>2, <3>3, <3>4, <3>5 DEF OnTheWay
  <2>3. CASE Answers
    <3>1. PICK p \in polls :
            /\ p.phase = "apply" /\ polls' = polls \ {p}
            /\ \/ cursors' = cursors
               \/ /\ cursors' = [cursors EXCEPT ![p.agent] = @ \cup {p.next}]
                  /\ ToSet(p.batch) \subseteq arrived'
      BY <2>3 DEF Answers
    <3>2. ASSUME NEW a \in Agents
          PROVE  cursors[a] \subseteq cursors'[a]
      BY <1>2, <3>1
    <3>3. ASSUME NEW a \in Trusted, NEW c \in cursors'[a]
          PROVE  CoveredTo(db'.deliveries, a, c, arrived', clock')
      <4>1. CASE c \in cursors[a]
        BY <1>4, <4>1
      <4>2. CASE c \notin cursors[a]
        <5>1. /\ a = p.agent /\ c = p.next
              /\ ToSet(p.batch) \subseteq arrived'
          BY <1>2, <3>1, <3>3, <4>2
        <5> QED
          BY <1>2, <1>5, <3>1, <5>1
      <4> QED
        BY <4>1, <4>2
    <3>4. RowsKept'
      BY <1>2, <1>4, <3>3 DEF RowsKept
    <3>5. \A r \in polls' : r \in polls
      BY <3>1
    <3>6. \A r \in polls' : r.cursor \in cursors'[r.agent]
      BY <1>2, <1>6, <3>2, <3>5
    <3> QED
      BY <1>2, <1>6, <3>4, <3>5, <3>6 DEF OnTheWay
  <2> QED
    BY <2>1, <2>2, <2>3 DEF WaitKinds
<1> QED
  BY <1>3, <1>7 DEF RowsWait

\* What the backend does with the imported deliveries.
LEMMA OnImportKinds ==
  ASSUME Types, RowsWait, OnImport
  PROVE  WaitKinds
<1>1. Ordinary => WaitKinds
  BY MovedMore DEF Ordinary, WaitKinds
<1>2. CASE (Tick \/ Sweep) /\ UNCHANGED <<up, crashes, cursors, sqliteOnly>>
  <2>1. UNCHANGED <<db, process, inFlight, clients>>
    BY <1>2 DEF sqliteOnly, process, clients
  <2> QED
    BY <1>1, <1>2, <2>1, IdleOrdinary
<1>3. CASE \E a \in Agents, id \in MessageIDs :
             \/ \E status \in {"accepted", "rejected"} : DurableAck(a, id, status)
             \/ \E type \in {"progress", "final", "error"} : DurableEvent(a, id, type)
  BY <1>1, <1>3, ReplyOrdinary
<1>4. CASE \E a \in Agents, limit \in Limits : \E cursor \in cursors[a] :
             BeginPoll(a, cursor, limit)
  BY <1>1, <1>4, BeginPollOrdinary
<1>5. CASE \E p \in polls : readDurableInbox(p)
  <2>1. PICK p \in polls : readDurableInbox(p)
    BY <1>5
  <2>2. arrived' = arrived
    BY <2>1 DEF readDurableInbox, clients
  <2>3. CoveredTo(db.deliveries, p.agent, p.cursor, Got, clock)
    <3>1. CASE p.agent \in Trusted
      <4>1. CoveredTo(db.deliveries, p.agent, p.cursor, arrived, clock)
        BY <3>1 DEF RowsWait, RowsKept, OnTheWay
      <4> QED
        BY <2>2, <4>1 DEF CoveredTo, Got
    <3>2. CASE p.agent \notin Trusted
      BY <3>2 DEF CoveredTo, Got
    <3> QED
      BY <3>1, <3>2
  <2>4. ASSUME NEW got, got = Got
        PROVE  ReadsAs(got)
    BY <2>1, <2>3, <2>4, ReadAs DEF RowsWait
  <2> QED
    BY <2>4 DEF WaitKinds
<1>6. CASE \E p \in polls, arrives \in BOOLEAN : FinishPoll(p, arrives)
  BY <1>6, FinishDelivery DEF WaitKinds
<1>7. CASE claimDuePushes
  BY <1>7, ClaimDelivery, MovedMore DEF Claims, WaitKinds
<1>8. CASE pruneDB
  BY <1>1, <1>8, PruneOrdinary
<1>9. CASE Crash
  BY <1>9, StopEnds, MovedMore DEF Ends, WaitKinds
<1> QED
  BY <1>2, <1>3, <1>4, <1>5, <1>6, <1>7, <1>8, <1>9 DEF OnImport

\* A step of the SQLite backend on the imported database.
LEMMA RowsWaitNext ==
  ASSUME MigrateInv, MigrateInv', stage # "json", stage' # "json", RowsWait,
         [SqliteNext]_sqliteVars, WaitKinds, UNCHANGED <<file, unwritten>>
  PROVE  RowsWait'
<1>1. Types /\ JobsType /\ Types' /\ Sound(file)
  BY DEF MigrateInv, TablesKept, FileKept
<1>2. SqliteKinds
  BY <1>1, StepLemma
<1>3. CursorsInOrder' /\ CursorsGrow
  BY <1>1, <1>2, CursorsStep DEF RowsWait
<1> QED
  BY <1>1, <1>3, RowsWaitStep

\* What does not touch what waits.
LEMMA WaitStays ==
  ASSUME WaitInv, stage # "json", stage' # "json", exists' = exists,
         UNCHANGED <<file, unwritten, db, cursors, arrived, polls, clock>>
  PROVE  WaitInv'
BY DEF WaitInv, FileWaits, RowsWait, CursorsInOrder, Numbering, NextSeq, RowsKept, Trusted,
       Ids, Waiting, StillWaits, OnTheWay, CoveredTo

\* The steps of a boot.
LEMMA BootWaits ==
  ASSUME MigrateInv, WaitInv,
         \/ CheckFiles \/ CrashInBoot
         \/ \E ok \in BOOLEAN :
              ImportState(ok) \/ InstallDatabase(ok) \/ RetireState(ok)
  PROVE  WaitInv'
<1>1. stage = "boot" /\ stage' = "boot" /\ Boots /\ FileKept /\ TablesKept
  BY DEF MigrateInv, At, CheckFiles, CrashInBoot, ImportState, InstallDatabase,
         RetireState, GoOn, GiveUp
<1>2. CASE ~(\E ok \in BOOLEAN : InstallDatabase(ok))
  <2>1. UNCHANGED <<file, unwritten, db, cursors, arrived, polls, clock, exists>>
    BY <1>2 DEF CheckFiles, CrashInBoot, ImportState, RetireState, sqliteOnly, jsonOnly,
                jsonVars, jsonClients, vars, inFlight
  <2> QED
    BY <1>1, <2>1, WaitStays
<1>3. CASE \E ok \in BOOLEAN : InstallDatabase(ok)
  <2>1. PICK ok \in BOOLEAN : InstallDatabase(ok)
    BY <1>3
  <2>2. /\ ~exists /\ exists' = ok /\ polls = {}
        /\ UNCHANGED <<file, unwritten, cursors, arrived, polls, clock>>
        /\ db' = IF ok THEN Imported(file) ELSE db
    <3>1. ~exists /\ exists \in BOOLEAN /\ polls = {}
      BY <1>1, <2>1, BootAt DEF InstallDatabase, Boots, NothingInFlight
    <3> QED
      BY <2>1, <3>1 DEF InstallDatabase, jsonVars, jsonClients, vars
  <2>3. CASE ~ok
    <3>1. exists' = exists /\ db' = db
      BY <2>2, <2>3, <1>1 DEF Boots
    <3> QED
      BY <1>1, <2>2, <3>1, WaitStays
  <2>4. CASE ok
    <3>1. /\ Sound(file) /\ InboxesIn(file) /\ FileWaits
          /\ cursors \in [Agents -> SUBSET Nat]
      BY <1>1, <2>2 DEF WaitInv, FileKept, TablesKept, Types, FlightType
    <3>2. CursorsInOrder' /\ Numbering'
      BY <2>2, <2>4, <3>1, ImportOrders
    <3>3. RowsKept'
      BY <2>2, <2>4, <3>1, ImportKeeps
    <3>4. OnTheWay'
      BY <2>2 DEF OnTheWay
    <3>5. InboxesIn(file)'
      BY <2>2, <3>1
    <3> QED
      BY <1>1, <2>2, <2>4, <3>2, <3>3, <3>4, <3>5 DEF WaitInv, RowsWait
  <2> QED
    BY <2>3, <2>4
<1> QED
  BY <1>2, <1>3

\* Every step of the deployment, as long as the JSON backend prunes no agent.
LEMMA WaitNext ==
  ASSUME MigrateInv, MigrateInv', WaitInv, [MigrateNext]_migrateVars,
         stage = "json" /\ up' => InboxesStay
  PROVE  WaitInv'
<1>1. CASE stage = "json" /\ JsonNext /\ UNCHANGED <<boot, sqliteOnly>>
  <2>1. CursorInv' /\ stage' = stage
    BY <1>1, JsonNextCursors DEF MigrateInv, WaitInv, boot
  <2> QED
    BY <1>1, <2>1 DEF WaitInv
<1>2. CASE SwitchBackend
  <2>1. /\ stage = "json" /\ stage' = "boot" /\ ~exists' /\ CursorInv
        /\ UNCHANGED <<file, unwritten, cursors, received>>
        /\ arrived' = UNION {received[a] : a \in Agents}
    BY <1>2 DEF SwitchBackend, MigrateInv, Boots, WaitInv, jsonOnly
  <2>2. \A a \in Agents : received[a] \subseteq arrived'
    BY <2>1
  <2>3. ASSUME NEW a \in Agents \ unwritten, NEW c \in cursors[a]
        PROVE  Reaches(c, file, a, arrived')
    <3>1. Reaches(c, file, a, received[a])
      BY <2>1 DEF CursorInv, Serves
    <3> QED
      BY <2>2, <3>1, ReachesMore
  <2>4. FileWaits'
    BY <2>1, <2>3 DEF FileWaits
  <2>5. InboxesIn(file)'
    BY <2>1 DEF CursorInv
  <2> QED
    BY <2>1, <2>4, <2>5 DEF WaitInv
<1>3. CASE \/ CheckFiles \/ CrashInBoot
           \/ \E ok \in BOOLEAN :
                ImportState(ok) \/ InstallDatabase(ok) \/ RetireState(ok)
  BY <1>3, BootWaits
<1>4. CASE OpenStore
  <2>1. /\ stage = "boot" /\ stage' = "sqlite" /\ exists /\ exists'
        /\ Boots /\ TablesKept /\ Restart
    BY <1>4, BootAt DEF OpenStore, MigrateInv, Boots
  <2>2. [SqliteNext]_sqliteVars /\ UNCHANGED <<file, unwritten>>
    BY <1>4, <2>1, OpenStep DEF jsonOnly
  <2>3. WaitKinds
    BY <2>1, RestartRows, MovedMore DEF TablesKept, WaitKinds
  <2>4. RowsWait'
    BY <2>1, <2>2, <2>3, RowsWaitNext DEF WaitInv
  <2>5. InboxesIn(file)'
    BY <2>1, <2>2 DEF WaitInv
  <2> QED
    BY <2>1, <2>4, <2>5 DEF WaitInv
<1>5. CASE stage = "boot" /\ Tick
           /\ UNCHANGED <<jsonOnly, up, crashes, cursors, boot, sqliteOnly>>
  <2>1. /\ UNCHANGED <<db, process, inFlight, clients>> /\ stage' = stage
        /\ UNCHANGED <<file, unwritten, exists, cursors, arrived>>
        /\ Types
    BY <1>5 DEF jsonOnly, boot, sqliteOnly, process, clients, MigrateInv, TablesKept
  <2>2. [SqliteNext]_sqliteVars
    BY <1>5, <2>1 DEF SqliteNext
  <2>3. WaitKinds
    BY <1>5, <2>1, IdleOrdinary, MovedMore DEF Ordinary, WaitKinds
  <2>4. exists => RowsWait'
    BY <1>5, <2>1, <2>2, <2>3, RowsWaitNext DEF WaitInv
  <2>5. ~exists => FileWaits'
    BY <1>5, <2>1 DEF WaitInv, FileWaits
  <2>6. InboxesIn(file)'
    BY <1>5, <2>1 DEF WaitInv
  <2> QED
    BY <1>5, <2>1, <2>4, <2>5, <2>6 DEF WaitInv
<1>6. CASE /\ stage = "sqlite" /\ up
           /\ OnImport
           /\ stage' = IF up' THEN "sqlite" ELSE "boot"
           /\ UNCHANGED <<jsonOnly, step, imported, retired, exists>>
  <2>1. exists /\ exists' /\ ~closing /\ Types /\ RowsWait /\ stage' # "json"
    BY <1>6 DEF MigrateInv, Boots, TablesKept, WaitInv
  <2>2. UNCHANGED <<file, unwritten>>
    BY <1>6 DEF jsonOnly
  <2>3. [SqliteNext]_sqliteVars
    BY <1>6, <2>1, OnImportStep
  <2>4. WaitKinds
    BY <1>6, <2>1, OnImportKinds
  <2>5. RowsWait'
    BY <1>6, <2>1, <2>2, <2>3, <2>4, RowsWaitNext
  <2>6. InboxesIn(file)'
    BY <1>6, <2>2 DEF WaitInv
  <2> QED
    BY <2>1, <2>5, <2>6 DEF WaitInv
<1>7. CASE UNCHANGED migrateVars
  <2>1. UNCHANGED <<jsonVars, boot, sqliteOnly>>
    BY <1>7 DEF migrateVars
  <2>2. UNCHANGED <<file, unwritten, db, cursors, arrived, polls, clock, stage, exists>>
    BY <2>1 DEF jsonVars, jsonClients, boot, sqliteOnly, inFlight, vars
  <2>3. CASE stage = "json"
    <3>1. InboxesStay
      BY <2>1 DEF jsonVars, vars, InboxesStay
    <3>2. CursorInv'
      BY <2>1, <2>3, <3>1, JsonNextCursors DEF MigrateInv, WaitInv
    <3> QED
      BY <2>2, <2>3, <3>2 DEF WaitInv
  <2>4. CASE stage # "json"
    BY <2>2, <2>4, WaitStays
  <2> QED
    BY <2>3, <2>4
<1> QED
  BY <1>1, <1>2, <1>3, <1>4, <1>5, <1>6, <1>7 DEF MigrateNext

LEMMA WaitInit ==
  ASSUME MigrateInit
  PROVE  WaitInv
BY JsonInitCursors DEF MigrateInit, WaitInv

\* An open delivery does not lie below what is acknowledged.
LEMMA WaitMeansPending ==
  ASSUME MigrateInv, WaitInv
  PROVE  MigrationKeepsPending
<1> SUFFICES ASSUME Migrated, NEW a \in DOMAIN file.inboxes \ unwritten,
                    Ids(a) \subseteq Waiting, NEW id \in Ids(a)
             PROVE  \/ id \in arrived
                    \/ deliveryExpiry(file.messages[id]) <= clock
                    \/ /\ id \in DOMAIN db.deliveries
                       /\ db.deliveries[id].status \in Open
                       /\ db.deliveries[id].seq >= db.cursors[a].acked
  BY DEF MigrationKeepsPending, Ids
<1>1. RowsWait /\ Types /\ a \in Trusted
  BY DEF MigrateInv, WaitInv, Boots, TablesKept, Migrated, Trusted
<1>2. StillWaits(id, a) /\ a \in DOMAIN db.cursors
  BY <1>1 DEF RowsWait, RowsKept
<1>3. CASE /\ id \in DOMAIN db.deliveries
           /\ db.deliveries[id].target = a /\ db.deliveries[id].status \in Open
  <2>1. ~(db.deliveries[id].seq < db.cursors[a].acked)
    BY <1>1, <1>2, <1>3 DEF RowsWait, CursorsInOrder
  <2>2. db.deliveries[id].seq \in Nat /\ db.cursors[a].acked \in Nat
    BY <1>1, <1>2, <1>3 DEF Types, DatabaseType, Delivery, CursorPair
  <2> QED
    BY <1>3, <2>1, <2>2
<1> QED
  BY <1>2, <1>3 DEF StillWaits

(***************************************************************************)
(* What the move keeps                                                     *)
(***************************************************************************)

(* Work that its recipient has taken up, on the JSON backend or on SQLite, *)
(* is not delivered again by the database that importStateToSQLite built,  *)
(* however many boots it took.                                             *)
THEOREM MigrationRedeliversNothingHolds ==
  MigrateSpec => []MigrationRedeliversNothing
<1>1. MigrateInv => MigrationRedeliversNothing
  BY DEF MigrateInv, TablesKept, MigrationRedeliversNothing, Migrated
<1> QED
  BY <1>1, MigrateInvariant, PTL

(* A send that the JSON backend has answered is never forgotten: before,   *)
(* during and after the move a retry within the window finds the original, *)
(* wherever MigrateJSONStateToSQLite failed or the process crashed, so no  *)
(* boot comes up on an empty database while the state file is waiting.     *)
THEOREM AnsweredSendsOutliveMove == MigrateSpec => []AnsweredSendsAreKept
<1>1. MigrateInv => AnsweredSendsAreKept
  <2> SUFFICES ASSUME MigrateInv, up, NEW r \in receipts,
                      clock - r[2].at <= IdempotencyWindow
               PROVE  Duplicate(r[1]) /\ idempotency[r[1]] = r[2]
    BY DEF AnsweredSendsAreKept
  <2>1. /\ clock \in Nat /\ now \in Nat /\ now <= clock
        /\ receipts \subseteq Key \X Entry
        /\ r[1] \in DOMAIN idempotency /\ idempotency[r[1]] = r[2]
    <3>1. CASE stage = "json"
      <4>1. JsonInv
        BY <3>1 DEF MigrateInv
      <4> QED
        BY <4>1, SnapshotFields, Bounds DEF JsonInv, StoreInv, TypeOK, ClientTypes,
                                           Answered, Finds
    <3>2. CASE stage # "json"
      <4>1. FileKept /\ TablesKept /\ exists
        BY <3>2 DEF MigrateInv, Boots
      <4>2. r[1] \in DOMAIN db.idempotency /\ db.idempotency[r[1]] = r[2]
        BY <4>1 DEF TablesKept, Finds
      <4>3. r[1] \in DOMAIN idempotency /\ idempotency[r[1]] = r[2]
        BY <4>1, <4>2 DEF TablesKept, KnownKeys
      <4> QED
        BY <4>1, <4>3 DEF FileKept, TablesKept, Types, RuntimeType
    <3> QED
      BY <3>1, <3>2
  <2>2. r[2].at \in Nat /\ IdempotencyWindow \in Nat
    BY <2>1, RetentionTypes DEF Entry
  <2> QED
    BY <2>1, <2>2 DEF Duplicate
<1> QED
  BY <1>1, MigrateInvariant, PTL

(* Work whose ack the JSON backend had answered reaches the import as      *)
(* taken up: the state file that the boots read shows it so, and stays.    *)
THEOREM AnsweredAcksOutliveMove == MigrateSpec => []AnsweredAcksAreKept
<1>1. MigrateInv => AnsweredAcksAreKept
  <2> SUFFICES ASSUME MigrateInv
               PROVE  Answered(file, receipts, answeredAcks, clock)
    BY DEF Answered, Settled, AnsweredAcksAreKept
  <2> QED
    BY DEF MigrateInv, JsonInv, FileKept
<1> QED
  BY <1>1, MigrateInvariant, PTL
\* The JSON backend prunes no agent while it runs (see NothingPruned): the
\* inbox of one that registers again is numbered from 0.
NothingPrunedBefore == [][stage = "json" /\ up' => InboxesStay]_migrateVars

(* What waited in an inbox waits in the database, through failed boots,    *)
(* crashes, restarts, prunings, claims and polls: the renumbering of       *)
(* importStateToSQLite and the cursors that clients bring from before the  *)
(* move fit, so that no poll acknowledges a delivery its client has not    *)
(* got, and no receipt or failure is written for one that is still due.    *)
THEOREM MigrationKeepsPendingHolds ==
  MigrateSpec /\ NothingPrunedBefore => []MigrationKeepsPending
<1> DEFINE S == stage = "json" /\ up' => InboxesStay
<1>1. MigrateInit => WaitInv
  BY WaitInit
<1>2. MigrateInv /\ MigrateInv' /\ WaitInv /\ [MigrateNext]_migrateVars
        /\ [S]_migrateVars => WaitInv'
  <2> SUFFICES ASSUME MigrateInv, MigrateInv', WaitInv, [MigrateNext]_migrateVars,
                      [S]_migrateVars
               PROVE  WaitInv'
    OBVIOUS
  <2>1. S
    BY DEF InboxesStay, migrateVars, jsonVars, vars
  <2> QED
    BY <2>1, WaitNext
<1>3. MigrateInv /\ WaitInv => MigrationKeepsPending
  BY WaitMeansPending
<1>4. NothingPrunedBefore <=> [][S]_migrateVars
  BY DEF NothingPrunedBefore
<1> HIDE DEF S
<1> QED
  BY <1>1, <1>2, <1>3, <1>4, MigrateInvariant, PTL DEF MigrateSpec

(* With AgentRetention = 0, which switches the pruning of agents off,      *)
(* nothing else is needed.                                                 *)
THEOREM PendingOutlivesWithoutRetention ==
  ASSUME AgentRetention = 0
  PROVE  MigrateSpec => []MigrationKeepsPending
<1>1. MigrateInv /\ WaitInv /\ [MigrateNext]_migrateVars =>
        [stage = "json" /\ up' => InboxesStay]_migrateVars
  <2> SUFFICES ASSUME MigrateInv, WaitInv, [MigrateNext]_migrateVars, stage = "json", up'
               PROVE  InboxesStay
    OBVIOUS
  <2>1. JsonInv /\ CursorInv
    BY DEF MigrateInv, WaitInv
  <2>2. [JsonNext]_jsonVars
    <3>1. ~At("check") /\ ~At("import") /\ ~At("install") /\ ~At("retire") /\ ~At("open")
      BY DEF At
    <3>2. UNCHANGED migrateVars => UNCHANGED jsonVars
      BY DEF migrateVars
    <3> QED
      BY <3>1, <3>2 DEF MigrateNext, SwitchBackend, CheckFiles, ImportState, InstallDatabase,
                        RetireState, OpenStore, CrashInBoot
  <2>3. CASE [Next]_vars
    BY <2>1, <2>3, StaysWithoutRetention DEF JsonInv, StoreInv
  <2>4. CASE JsonCrash
    BY <2>4 DEF JsonCrash
  <2>5. CASE JsonRestart
    BY <2>1, <2>5 DEF JsonRestart, CursorInv, InboxesStay
  <2> QED
    BY <2>1, <2>2, <2>3, <2>4, <2>5, JsonSteps
<1>2. MigrateInv /\ MigrateInv' /\ WaitInv /\ [MigrateNext]_migrateVars => WaitInv'
  <2>1. UNCHANGED migrateVars => InboxesStay
    BY DEF InboxesStay, migrateVars, jsonVars, vars
  <2> QED
    BY <1>1, <2>1, WaitNext
<1>3. MigrateSpec => NothingPrunedBefore
  BY <1>1, <1>2, WaitInit, MigrateInvariant, PTL DEF MigrateSpec, NothingPrunedBefore
<1> QED
  BY <1>3, MigrationKeepsPendingHolds, PTL
=============================================================================
