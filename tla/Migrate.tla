------------------------------ MODULE Migrate ------------------------------
(***************************************************************************)
(* The life of a deployment that moves from the JSON file to SQLite        *)
(* (pkg/bus/migrate.go): the JSON backend of JsonStore, then boots of the  *)
(* SQLite binary, which import the state file once, step by step, with     *)
(* failures and crashes between the steps, then the backend of SqliteStore *)
(* on the imported database, with the clients and cursors of before.       *)
(***************************************************************************)
EXTENDS JsonStore, SqliteStore

VARIABLES
  stage,       \* "json", "boot" or "sqlite"
  step,        \* what the boot does next
  imported,    \* whether <db>.tmp holds a complete import
  retired,     \* whether the state file has been renamed to .migrated
  exists       \* whether the database file exists

boot == <<stage, step, imported, retired, exists>>
jsonOnly == <<file, calls, writing, received, unwritten, receipts, answeredAcks>>
sqliteOnly == <<db, closing, inFlight, arrived, acked>>
migrateVars == <<jsonVars, boot, sqliteOnly>>

MigrateInit ==
  /\ JsonInit
  /\ stage = "json" /\ step = 1
  /\ imported = FALSE /\ retired = FALSE /\ exists = FALSE
  /\ db = EmptyDatabase
  /\ closing = FALSE
  /\ NothingInFlight
  /\ arrived = {} /\ acked = {}

(***************************************************************************)
(* importStateToSQLite                                                     *)
(***************************************************************************)
\* Mutation: a request that is being worked on is delivered once more.
TakenUpWhenDone(m) == m.type = "request" /\ isTerminal(m.state)

\* Mutation: a request that has been offered to a poll counts as delivered.
TakenUpOrOffered(m) == m.type = "request" /\ m.state # "pending"

TakenUp(m) ==
  m.type = "request" /\ (m.state = "executing" \/ isTerminal(m.state))

\* Positions of the events of an inbox that still have to be delivered.
deliverable(f, a) ==
  LET id(k) == f.inboxes[a].events[k].msg
  IN  {k \in DOMAIN f.inboxes[a].events :
         id(k) \in DOMAIN f.messages /\ ~TakenUp(f.messages[id(k)])}

\* They are renumbered densely.
ImportedDelivery(f, a, k) ==
  LET m      == f.messages[f.inboxes[a].events[k].msg]
      offset == Cardinality({j \in deliverable(f, a) : j < k})
  IN  [target |-> a, seq |-> f.inboxes[a].base + offset, status |-> "pending",
       nextAttemptAt |-> m.createdAt, expiresAt |-> deliveryExpiry(m)]

ImportedDeliveries(f) ==
  LET places == UNION {{<<a, k>> : k \in deliverable(f, a)} : a \in DOMAIN f.inboxes}
      id(p)  == f.inboxes[p[1]].events[p[2]].msg
  IN  [i \in {id(p) : p \in places} |->
         LET p == CHOOSE q \in places : id(q) = i
         IN  ImportedDelivery(f, p[1], p[2])]

Imported(f) ==
  LET positions == UNION {{<<c, k - 1>> : k \in DOMAIN f.conversations[c].msgs} :
                            c \in DOMAIN f.conversations}
  IN  [agents |-> f.agents, messages |-> f.messages,
       deliveries |-> ImportedDeliveries(f), idempotency |-> f.idempotency,
       conversations |-> [c \in DOMAIN f.conversations |->
                            [participants  |-> f.conversations[c].participants,
                             lastMessageAt |-> f.conversations[c].lastMessageAt]],
       links |-> [p \in positions |-> f.conversations[p[1]].msgs[p[2] + 1]],
       counters |-> [conv |-> f.nextConversationID, msg |-> f.nextMessageID],
       cursors |-> [a \in DOMAIN f.inboxes |->
                      [next  |-> f.inboxes[a].base + Cardinality(deliverable(f, a)),
                       acked |-> f.inboxes[a].base]]]

(***************************************************************************)
(* MigrateJSONStateToSQLite                                                *)
(***************************************************************************)
\* Mutation: the state file is renamed before the database is in place.
StepsSwapped == <<"check", "import", "retire", "install", "open">>
Steps == <<"check", "import", "install", "retire", "open">>

At(name) == stage = "boot" /\ Steps[step] = name
GoOn == step' = step + 1 /\ UNCHANGED stage
\* The process exits, or dies; the container starts it again.
GiveUp == step' = 1 /\ UNCHANGED stage

(* The JSON binary is stopped for good, or has crashed, and the SQLite     *)
(* binary takes over; there is something to take over.                     *)
SwitchBackend ==
  /\ stage = "json"
  /\ file.nextMessageID > 0
  /\ up => calls = << >> /\ writing = {}
  /\ stage' = "boot"
  /\ up' = FALSE
  /\ lastSweepAt' = 0
  /\ agents' = << >> /\ messages' = << >> /\ inboxes' = << >>
  /\ idempotency' = << >> /\ conversations' = << >>
  /\ nextMessageID' = 0 /\ nextConversationID' = 0
  /\ arrived' = UNION {received[a] : a \in Agents}
  /\ UNCHANGED <<clock, now, crashes, jsonOnly, cursors, step, imported,
                 retired, exists, db, closing, saves, creations, polls,
                 claimed, jobs, acked>>

\* What is there decides; leftovers of an earlier import are removed.
CheckFiles ==
  /\ At("check")
  /\ step' = IF exists \/ retired THEN Len(Steps) ELSE step + 1
  /\ imported' = IF exists \/ retired THEN imported ELSE FALSE
  /\ UNCHANGED <<jsonVars, stage, retired, exists, sqliteOnly>>

\* One transaction into the temporary database.
ImportState(ok) ==
  /\ At("import")
  /\ IF ok THEN GoOn ELSE GiveUp
  /\ imported' = ok
  /\ UNCHANGED <<jsonVars, retired, exists, sqliteOnly>>

InstallDatabase(ok) ==
  /\ At("install")
  /\ IF ok THEN GoOn ELSE GiveUp
  /\ imported' = FALSE
  /\ exists' = (exists \/ ok)
  /\ db' = IF ok THEN Imported(file) ELSE db
  /\ UNCHANGED <<jsonVars, retired, closing, saves, creations, polls, claimed,
                 jobs, arrived, acked>>

RetireState(ok) ==
  /\ At("retire")
  /\ IF ok THEN GoOn ELSE GiveUp
  /\ retired' = (retired \/ ok)
  /\ UNCHANGED <<jsonVars, imported, exists, sqliteOnly>>

\* NewSQLiteStore creates the database if it is not there.
OpenStore ==
  /\ At("open")
  /\ Restart
  /\ stage' = "sqlite" /\ step' = 1
  /\ exists' = TRUE
  /\ UNCHANGED <<jsonOnly, imported, retired>>

CrashInBoot ==
  /\ stage = "boot" /\ step > 1
  /\ crashes < MaxCrashes
  /\ crashes' = crashes + 1
  /\ GiveUp
  /\ UNCHANGED <<vars, up, jsonOnly, cursors, imported, retired, exists,
                 sqliteOnly>>

(***************************************************************************)
(* The specification                                                       *)
(***************************************************************************)
(* What the SQLite backend does with what it has imported.  Everything     *)
(* else it does, from its own databases, is the subject of SqliteStore.    *)
OnImport ==
  \/ (Tick \/ Sweep)
     /\ UNCHANGED <<up, crashes, cursors, sqliteOnly>>
  \/ \E a \in Agents, id \in MessageIDs :
       \/ \E status \in {"accepted", "rejected"} : DurableAck(a, id, status)
       \/ \E type \in {"progress", "final", "error"} :
            DurableEvent(a, id, type)
  \/ \E a \in Agents, limit \in Limits : \E cursor \in cursors[a] :
       BeginPoll(a, cursor, limit)
  \/ \E p \in polls : readDurableInbox(p)
  \/ \E p \in polls, arrives \in BOOLEAN : FinishPoll(p, arrives)
  \/ claimDuePushes
  \/ pruneDB
  \/ Crash

MigrateNext ==
  \/ stage = "json" /\ JsonNext /\ UNCHANGED <<boot, sqliteOnly>>
  \/ SwitchBackend
  \/ CheckFiles
  \/ \E ok \in BOOLEAN : ImportState(ok) \/ InstallDatabase(ok) \/ RetireState(ok)
  \/ OpenStore
  \/ CrashInBoot
  \/ /\ stage = "boot" /\ Tick
     /\ UNCHANGED <<jsonOnly, up, crashes, cursors, boot, sqliteOnly>>
  \/ /\ stage = "sqlite" /\ up
     /\ OnImport
     /\ stage' = IF up' THEN "sqlite" ELSE "boot"
     /\ UNCHANGED <<jsonOnly, step, imported, retired, exists>>

MigrateSpec == MigrateInit /\ [][MigrateNext]_migrateVars

(***************************************************************************)
(* Properties                                                              *)
(***************************************************************************)
(* AnsweredSendsAreKept of JsonStore spans the move: a retry of a send that *)
(* the JSON backend had answered finds the original on SQLite, wherever the *)
(* boots failed or crashed; none starts empty over a live state file.       *)

Migrated == stage = "sqlite" /\ up

\* Messages of the state file that their recipient has not taken up.
Waiting ==
  {id \in DOMAIN file.messages :
     file.messages[id].type = "request" =>
       file.messages[id].state \in {"pending", "waiting_ack"}}

(* What waited in an inbox of the state file waits in the database: its    *)
(* delivery can be reached by the next poll until its deadline, or its     *)
(* recipient has it.  The exceptions are inboxes with events that are not  *)
(* imported, which renumbers the ones behind them under the cursor that    *)
(* the client still has, and clients whose last answer was not written.    *)
MigrationKeepsPending ==
  Migrated =>
    \A a \in DOMAIN file.inboxes \ unwritten :
      LET ids == {e.msg : e \in Range(file.inboxes[a].events)}
      IN  ids \subseteq Waiting =>
            \A id \in ids :
              \/ id \in arrived
              \/ deliveryExpiry(file.messages[id]) <= clock
              \/ /\ id \in DOMAIN db.deliveries
                 /\ db.deliveries[id].status \in Open
                 /\ db.deliveries[id].seq >= db.cursors[a].acked

(* The move does not undo what was done: work that its recipient had taken *)
(* up on either backend is not delivered again.                            *)
MigrationRedeliversNothing == Migrated => TakenUpNotRedelivered
=============================================================================
