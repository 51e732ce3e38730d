---------------------------- MODULE SqliteStore ----------------------------
(***************************************************************************)
(* The SQLite backend (pkg/bus/sqlite.go, sqlite_delivery.go): the runtime *)
(* state of Store in front of a database that survives crashes.            *)
(*                                                                         *)
(* sendMessage, inject, ack and postEvent commit their transaction while   *)
(* they hold both locks, so the handler and its commit are one action.     *)
(* RegisterAgent, CreateConversation, polls and pushes take the two locks  *)
(* one after the other and are modelled step by step.  A commit that fails *)
(* leaves the state alone; a crash in the middle of a transaction leaves   *)
(* what a crash before or after it leaves.                                 *)
(***************************************************************************)
EXTENDS Backend

CONSTANTS
  MaxBatchBytes,     \* durableInboxMaxBatchBytes
  PushQueueSize, PushWorkers,
  PushBackoffs       \* values of pushCycleBackoff

ASSUME SqliteAssumption ==
  /\ {MaxBatchBytes, PushQueueSize, PushWorkers} \subseteq Nat \ {0}
  /\ PushBackoffs \subseteq Nat \ {0}

VARIABLES
  db,          \* the committed database
  closing,     \* pushClosed: the push pool drains before the process stops
  saves,       \* registrations applied in memory and not yet written
  creations,   \* conversations created in memory and not yet written
  polls,       \* polls under way
  claimed,     \* deliveries claimed by the delivery loop, not yet enqueued
  jobs,        \* push jobs, oldest first
  arrived,     \* messages that reached their recipient
  acked        \* messages whose Ack call succeeded

clients == <<cursors, arrived, acked>>
inFlight == <<saves, creations, polls, claimed, jobs>>
process == <<up, closing, crashes>>
sqliteVars == <<vars, db, process, inFlight, clients>>

Open == {"pending", "attempting"}       \* deliveries not yet settled
Delivery == [target : Agents, seq : Nat,
             status : Open \cup {"received", "failed"},
             nextAttemptAt : Nat, expiresAt : Nat]

DatabaseOK ==
  /\ db.agents \in [DOMAIN db.agents -> Agent]
  /\ db.messages \in [DOMAIN db.messages -> Message]
  /\ db.deliveries \in [DOMAIN db.deliveries -> Delivery]
  /\ db.idempotency \in [DOMAIN db.idempotency -> Entry]
  /\ db.conversations \in [DOMAIN db.conversations ->
                             [participants : SUBSET Agents,
                              lastMessageAt : Nat]]
  /\ db.links \in [DOMAIN db.links -> MessageIDs]
  /\ db.counters \in [conv : Nat, msg : Nat]
  /\ db.cursors \in [DOMAIN db.cursors -> [next : Nat, acked : Nat]]

SqliteTypeOK ==
  /\ TypeOK
  /\ DatabaseOK
  /\ up \in BOOLEAN /\ closing \in BOOLEAN
  /\ crashes \in 0..MaxCrashes
  /\ saves \subseteq Agents \X Agent
  /\ claimed \subseteq MessageIDs
  /\ jobs \in Seq([msg : MessageIDs, phase : {"queued", "ok", "failed"}])
  /\ cursors \in [Agents -> SUBSET (0..MaxMessages)]
  /\ arrived \subseteq MessageIDs
  /\ acked \subseteq MessageIDs

EmptyDatabase ==
  [agents |-> << >>, messages |-> << >>, deliveries |-> << >>,
   idempotency |-> << >>, conversations |-> << >>, links |-> << >>,
   counters |-> [conv |-> 0, msg |-> 0], cursors |-> << >>]

NothingInFlight ==
  saves = {} /\ creations = {} /\ polls = {} /\ claimed = {} /\ jobs = << >>

SqliteInit ==
  /\ Init
  /\ db = EmptyDatabase
  /\ up = TRUE /\ closing = FALSE
  /\ crashes = 0
  /\ NothingInFlight
  /\ cursors = [a \in Agents |-> {0}]
  /\ arrived = {}
  /\ acked = {}

(***************************************************************************)
(* Acceptance                                                              *)
(***************************************************************************)
\* The earlier of TTL and grace deadline, as far as they are set.
deliveryExpiry(m) ==
  IF m.graceUntil # 0 /\ m.graceUntil < m.ttlAt THEN m.graceUntil ELSE m.ttlAt

CursorRow(a) ==
  IF a \in DOMAIN db.cursors THEN db.cursors[a] ELSE [next |-> 0, acked |-> 0]

PushedAtOnce(m) == m.to # Nobody /\ ~m.queued /\ agents[m.to].mode = "push"

NewDelivery(m) ==
  [target |-> m.to, seq |-> CursorRow(m.to).next,
   status |-> IF PushedAtOnce(m) THEN "attempting" ELSE "pending",
   nextAttemptAt |-> m.createdAt, expiresAt |-> deliveryExpiry(m)]

(* The transaction of persistAcceptance for the message that the handler   *)
(* has just planned.  A second row for a message or an idempotency key     *)
(* violates a key of the schema and the whole call fails.                  *)
persistAcceptance(id) ==
  LET m   == messages'[id]
      c   == conversations'[m.conv]
      key == <<m.from, m.to, m.req>>
  IN  /\ m.to # Nobody => id \notin DOMAIN db.deliveries
      /\ m.req # Injected => key \notin DOMAIN db.idempotency
      /\ db' = [db EXCEPT
           !.conversations = Put(@, m.conv, [participants  |-> c.participants,
                                             lastMessageAt |-> now]),
           !.messages = Put(@, id, m),
           !.links = Put(@, <<m.conv, Len(c.msgs) - 1>>, id),
           !.counters = [conv |-> nextConversationID', msg |-> nextMessageID'],
           !.deliveries = IF m.to = Nobody THEN @
                          ELSE Put(@, id, NewDelivery(m)),
           !.cursors = IF m.to = Nobody THEN @
                       ELSE Put(@, m.to, [CursorRow(m.to) EXCEPT !.next = @ + 1]),
           !.idempotency = IF m.req = Injected THEN @
                           ELSE Put(@, key, [msg |-> id, at |-> now])]

Queued == {k \in DOMAIN jobs : jobs[k].phase = "queued"}

(* The queue takes a job for sure while it has room, and refuses it for    *)
(* sure when every worker is busy too.  A refused job only has its failure *)
(* left to record; one that is refused because the pool is closed does not *)
(* even have that.                                                         *)
enqueuePushJob(id) ==
  \/ /\ ~closing
     /\ Cardinality(Queued) < PushQueueSize + PushWorkers
     /\ jobs' = Append(jobs, [msg |-> id, phase |-> "queued"])
  \/ /\ ~closing
     /\ Cardinality(Queued) >= PushQueueSize
     /\ jobs' = Append(jobs, [msg |-> id, phase |-> "failed"])
  \/ closing /\ UNCHANGED jobs

AcceptDurably ==
  LET id == nextMessageID + 1
  IN  /\ persistAcceptance(id)
      /\ IF PushedAtOnce(messages'[id]) THEN enqueuePushJob(id)
                                        ELSE UNCHANGED jobs
      /\ UNCHANGED <<process, saves, creations, polls, claimed, clients>>

DurableSend(from, to, req, type, choice, ttl, size) ==
  SendMessage(from, to, req, type, choice, ttl, size) /\ AcceptDurably

DurableInject(to, choice, size) == Inject(to, choice, size) /\ AcceptDurably

(***************************************************************************)
(* Acknowledgments and events                                              *)
(***************************************************************************)
Settle(rows, ids) ==
  [id \in DOMAIN rows |->
     IF id \in ids /\ rows[id].status \in Open
     THEN [rows[id] EXCEPT !.status = "received"] ELSE rows[id]]

\* Mutation: the transport receipt is not written.
persistAckOnly(id, m) == db' = [db EXCEPT !.messages = Put(@, id, m)]

\* The message row and the transport receipt are one transaction.
persistAck(id, m) ==
  db' = [db EXCEPT !.messages = Put(@, id, m),
                   !.deliveries = Settle(@, {id})]

\* Hearing from the recipient proves that the message arrived.
HeardFrom(id) == arrived' = arrived \cup {id}

DurableAck(a, id, status) ==
  /\ Ack(a, id, status)
  /\ persistAck(id, messages'[id])
  /\ HeardFrom(id)
  /\ acked' = acked \cup {id}
  /\ UNCHANGED <<process, inFlight, cursors>>

\* ack returns at once, without a commit, when the message is terminal.
LateAck(a, id) ==
  /\ ~SweepDue
  /\ id \in DOMAIN messages
  /\ messages[id].type = "request" /\ messages[id].to = a
  /\ isTerminal(messages[id].state)
  /\ HeardFrom(id)
  /\ acked' = acked \cup {id}
  /\ UNCHANGED <<vars, db, process, inFlight, cursors>>

DurableEvent(a, id, type) ==
  /\ PostEvent(a, id, type)
  /\ persistAck(id, messages'[id])
  /\ HeardFrom(id)
  /\ UNCHANGED <<process, inFlight, cursors, acked>>

\* postEvent does commit the receipt when the message is terminal.
LateEvent(a, id) ==
  /\ ~SweepDue
  /\ id \in DOMAIN messages
  /\ messages[id].type = "request" /\ messages[id].to = a
  /\ isTerminal(messages[id].state)
  /\ persistAck(id, messages[id])
  /\ HeardFrom(id)
  /\ UNCHANGED <<vars, process, inFlight, cursors, acked>>

(***************************************************************************)
(* RegisterAgent and CreateConversation: memory first, database later      *)
(***************************************************************************)
BeginRegister(a, ttl, mode) ==
  /\ RegisterAgent(a, ttl, mode)
  /\ Cardinality(saves) < MaxInFlight
  /\ saves' = saves \cup {<<a, agents'[a]>>}
  /\ UNCHANGED <<db, process, creations, polls, claimed, jobs, clients>>

\* Registrations of one agent may be written in any order, or fail to be.
saveAgent(save, written) ==
  /\ save \in saves
  /\ saves' = saves \ {save}
  /\ db' = IF written THEN [db EXCEPT !.agents = Put(@, save[1], save[2])]
           ELSE db
  /\ UNCHANGED <<vars, process, creations, polls, claimed, jobs, clients>>

BeginCreate(actor, choice, names) ==
  LET id == ConversationID(choice)
  IN  /\ CreateConversation(actor, choice, names)
      /\ IF /\ id \in DOMAIN conversations'
            /\ AllAccessible(actor, conversations'[id].participants \cup names)
         THEN /\ Cardinality(creations) < MaxInFlight
              /\ creations' = creations \cup
                   {[id |-> id,
                     participants  |-> conversations'[id].participants,
                     lastMessageAt |-> conversations'[id].lastMessageAt,
                     counters |-> << >>]}
         ELSE UNCHANGED creations
      /\ UNCHANGED <<db, process, saves, polls, claimed, jobs, clients>>

\* The counters are read under s.inner.mu, which is then released.
ReadCounters(c) ==
  /\ c \in creations
  /\ c.counters = << >>
  /\ creations' = (creations \ {c}) \cup
       {[c EXCEPT !.counters = <<nextConversationID, nextMessageID>>]}
  /\ UNCHANGED <<vars, db, process, saves, polls, claimed, jobs, clients>>

CommitConversation(c) ==
  /\ c \in creations
  /\ c.counters # << >>
  /\ creations' = creations \ {c}
  /\ db' = [db EXCEPT
       !.conversations = Put(@, c.id, [participants  |-> c.participants,
                                       lastMessageAt |-> c.lastMessageAt]),
       !.counters = [conv |-> c.counters[1], msg |-> c.counters[2]]]
  /\ UNCHANGED <<vars, process, saves, polls, claimed, jobs, clients>>
(***************************************************************************)
(* pollDurableInbox                                                        *)
(***************************************************************************)
\* A poll that finds the agent active goes on to the database.
BeginPoll(a, cursor, limit) ==
  /\ ~SweepDue
  /\ Active(a) /\ CanAccess(a, a)
  /\ cursor \in cursors[a]
  /\ Cardinality(polls) < MaxInFlight
  /\ polls' = polls \cup {[agent |-> a, cursor |-> cursor, limit |-> limit,
                           phase |-> "read", batch |-> << >>, at |-> << >>,
                           next |-> 0]}
  /\ UNCHANGED <<vars, db, process, saves, creations, claimed, jobs,
                 clients>>

\* How messages m looks after it was offered to its recipient at time t.
Offered(m, t) ==
  [m EXCEPT !.queued = FALSE,
            !.state = IF m.type = "request" /\ @ = "pending"
                      THEN "waiting_ack" ELSE @,
            !.deliveredAt = IF @ = 0 THEN t ELSE @]

OfferAll(msgs, ids) ==
  [id \in DOMAIN msgs |-> IF id \in ids THEN Offered(msgs[id], now)
                                        ELSE msgs[id]]

\* Open, unexpired deliveries of agent a from the cursor on.
Deliverable(a, cursor) ==
  {id \in DOMAIN db.deliveries :
     /\ db.deliveries[id].target = a
     /\ db.deliveries[id].seq >= cursor
     /\ db.deliveries[id].status \in Open
     /\ db.deliveries[id].expiresAt > now}

\* ORDER BY recipient_seq.
InSeqOrder(ids) ==
  {s \in SetToSeqs(ids) :
     \A j, k \in DOMAIN s :
       j < k => db.deliveries[s[j]].seq <= db.deliveries[s[k]].seq}

BatchBytes ==
  IF MaxInboxBytes = 0 \/ MaxInboxBytes > MaxBatchBytes THEN MaxBatchBytes
  ELSE MaxInboxBytes

(* The batch of one response keeps to the requested limit, the count cap   *)
(* and the byte budget, but a single event is returned whatever its size.  *)
FirstOf(ids, limit) ==
  LET events  == [k \in DOMAIN ids |-> EventOf(ids[k], db.messages[ids[k]])]
      fits(n) == /\ n <= MaxInboxEvents
                 /\ limit > 0 => n <= limit
                 /\ n > 1 => Bytes(SubSeq(events, 1, n)) <= BatchBytes
  IN  SubSeq(ids, 1, Max({n \in 0..Len(ids) : fits(n)}))

\* Mutation: a cursor below the acknowledged one is taken as it is.
ClampCursorAbove(a, cursor) == Min({cursor, CursorRow(a).next})

ClampCursor(a, cursor) ==
  Min({Max({cursor, CursorRow(a).acked}), CursorRow(a).next})

\* Mutation: the delivery at the cursor is acknowledged too.
BelowOrAt(a, cursor) ==
  {id \in DOMAIN db.deliveries : db.deliveries[id].target = a
                                 /\ db.deliveries[id].seq <= cursor}

\* Deliveries that a poll at the cursor acknowledges.
Below(a, cursor) ==
  {id \in DOMAIN db.deliveries : db.deliveries[id].target = a
                                 /\ db.deliveries[id].seq < cursor}

\* One transaction: acknowledge the prefix, read and mark the next batch.
readDurableInbox(p) ==
  LET cursor == ClampCursor(p.agent, p.cursor)
  IN  /\ p \in polls /\ p.phase = "read"
      /\ \E ids \in InSeqOrder(Deliverable(p.agent, cursor)) :
           LET batch == FirstOf(ids, p.limit)
               last  == batch[Len(batch)]
               next  == IF batch = << >> THEN cursor
                        ELSE db.deliveries[last].seq + 1
           IN  /\ db' = [db EXCEPT
                    !.cursors = Put(@, p.agent, [CursorRow(p.agent) EXCEPT
                                                   !.acked = cursor]),
                    !.deliveries = IF cursor > CursorRow(p.agent).acked
                                   THEN Settle(@, Below(p.agent, cursor)) ELSE @,
                    !.messages = OfferAll(@, ToSet(batch))]
               /\ polls' = (polls \ {p}) \cup
                    {[p EXCEPT !.phase = "apply", !.batch = batch, !.next = next,
                               !.at = [id \in ToSet(batch) |->
                                         db'.messages[id].deliveredAt]]}
      /\ UNCHANGED <<vars, process, saves, creations, claimed, jobs,
                     clients>>

(* The runtime copy of an offered message takes its delivery time from the *)
(* row that was read; the sweep may have settled or dropped it meanwhile.  *)
OfferInMemory(at) ==
  messages' = [id \in DOMAIN messages |->
                 IF id \in DOMAIN at THEN Offered(messages[id], at[id])
                                     ELSE messages[id]]

\* The response may be lost on the way to the client.
FinishPoll(p, arrives) ==
  /\ p \in polls /\ p.phase = "apply"
  /\ polls' = polls \ {p}
  /\ OfferInMemory(p.at)
  /\ cursors' = IF ~arrives THEN cursors
                ELSE [cursors EXCEPT ![p.agent] = @ \cup {p.next}]
  /\ arrived' = IF ~arrives THEN arrived ELSE arrived \cup ToSet(p.batch)
  /\ UNCHANGED <<clock, now, lastSweepAt, agents, inboxes, idempotency,
                 conversations, nextMessageID, nextConversationID,
                 db, process, saves, creations, claimed, jobs, acked>>

(***************************************************************************)
(* The delivery loop and the push workers                                  *)
(***************************************************************************)
\* Mutation: a delivery being attempted never expires.
OverduePending(row) == row.status = "pending" /\ row.expiresAt <= now

Overdue(row) == row.status \in Open /\ row.expiresAt <= now

FailOverdue(rows) ==
  [id \in DOMAIN rows |->
     IF Overdue(rows[id])
     THEN [rows[id] EXCEPT !.status = "failed", !.nextAttemptAt = 0]
     ELSE rows[id]]

\* Mutation: a delivery being attempted is due again.
DueForPushAgain(id) ==
  LET row == db.deliveries[id]
  IN  /\ row.status \in Open /\ row.expiresAt > now
      /\ row.nextAttemptAt <= now
      /\ row.target \in DOMAIN db.agents
      /\ db.agents[row.target].mode = "push"
      /\ db.agents[row.target].status = "active"
      /\ db.agents[row.target].expiresAt > now

DueForPush(id) ==
  LET row == db.deliveries[id]
  IN  /\ row.status = "pending" /\ row.expiresAt > now
      /\ row.nextAttemptAt <= now
      /\ row.target \in DOMAIN db.agents
      /\ db.agents[row.target].mode = "push"
      /\ db.agents[row.target].status = "active"
      /\ db.agents[row.target].expiresAt > now

\* The loop is one goroutine: it claims again only when all are enqueued.
claimDuePushes ==
  LET due == {id \in DOMAIN db.deliveries : DueForPush(id)}
  IN  /\ claimed = {}
      /\ claimed' = due
      /\ db' = [db EXCEPT
           !.deliveries = [id \in DOMAIN @ |->
                             IF id \in due
                             THEN [@[id] EXCEPT !.status = "attempting"]
                             ELSE FailOverdue(@)[id]],
           !.messages = OfferAll(@, due)]
      /\ UNCHANGED <<vars, process, saves, creations, polls, jobs, clients>>

enqueueClaimedPush(id) ==
  /\ id \in claimed
  /\ claimed' = claimed \ {id}
  /\ IF id \in DOMAIN db.messages
     THEN /\ OfferInMemory([m \in {id} |-> db.messages[id].deliveredAt])
          /\ enqueuePushJob(id)
     ELSE UNCHANGED <<messages, jobs>>
  /\ UNCHANGED <<clock, now, lastSweepAt, agents, inboxes, idempotency,
                 conversations, nextMessageID, nextConversationID,
                 db, process, saves, creations, polls, clients>>

(* All attempts of a job together: a 2xx answer, or a failure although the *)
(* callback may have got through.                                          *)
sendPushCallback(k, phase, arrives) ==
  /\ k \in Queued
  /\ phase = "ok" => arrives
  /\ jobs' = [jobs EXCEPT ![k].phase = phase]
  /\ arrived' = IF arrives THEN arrived \cup {jobs[k].msg} ELSE arrived
  /\ UNCHANGED <<vars, db, process, saves, creations, polls, claimed,
                 cursors, acked>>

FailedAttempt(row, backoff) ==
  IF row.expiresAt <= now
  THEN [row EXCEPT !.status = "failed", !.nextAttemptAt = 0]
  ELSE [row EXCEPT !.status = "pending", !.nextAttemptAt = now + backoff]

\* The receipt counts only while the row is still "attempting".
PushReceipt(job, row, backoff) ==
  CASE row.status # "attempting" -> row
    [] row.status = "attempting" /\ job.phase = "ok" ->
         [row EXCEPT !.status = "received", !.nextAttemptAt = 0]
    [] row.status = "attempting" /\ job.phase = "failed" ->
         FailedAttempt(row, backoff)

\* Mutation: the wait group does not hear of a job that failed.
recordPushNotDone(k, backoff, written) ==
  /\ k \in DOMAIN jobs \ Queued
  /\ jobs' = IF jobs[k].phase = "failed" THEN jobs ELSE RemoveAt(jobs, k)
  /\ db' = IF written /\ jobs[k].msg \in DOMAIN db.deliveries
           THEN [db EXCEPT !.deliveries[jobs[k].msg] =
                             PushReceipt(jobs[k], @, backoff)]
           ELSE db
  /\ UNCHANGED <<vars, process, saves, creations, polls, claimed, clients>>

\* recordPushSuccess and recordPushFailure; the write itself may fail.
recordPush(k, backoff, written) ==
  /\ k \in DOMAIN jobs \ Queued
  /\ jobs' = RemoveAt(jobs, k)
  /\ db' = IF written /\ jobs[k].msg \in DOMAIN db.deliveries
           THEN [db EXCEPT !.deliveries[jobs[k].msg] =
                             PushReceipt(jobs[k], @, backoff)]
           ELSE db
  /\ UNCHANGED <<vars, process, saves, creations, polls, claimed, clients>>

(***************************************************************************)
(* pruneDB, shutdown, crash and restart                                    *)
(***************************************************************************)
\* Mutation: a conversation with messages may go.
IdleAndUsed(c, used) ==
  /\ ConversationRetention > 0
  /\ now - db.conversations[c].lastMessageAt > ConversationRetention

IdleConversation(c, used) ==
  /\ ConversationRetention > 0
  /\ now - db.conversations[c].lastMessageAt > ConversationRetention
  /\ c \notin used

(* The database after pruneDB, given the delivery rows it starts from.  A  *)
(* message with an open delivery is kept; deleting a message deletes its   *)
(* delivery row.                                                           *)
Pruned(deliveries) ==
  LET rows == FailOverdue(deliveries)
      msgs == {id \in DOMAIN db.messages :
                 \/ id \in DOMAIN rows /\ rows[id].status \in Open
                 \/ ~PrunedMessage(db.messages[id])}
      used == {db.messages[id].conv : id \in msgs}
  IN  [db EXCEPT
         !.deliveries = [id \in DOMAIN rows \cap msgs |-> rows[id]],
         !.messages = [id \in msgs |-> @[id]],
         !.idempotency = [k \in {k \in DOMAIN @ : ~StaleEntry(@[k])} |-> @[k]],
         !.conversations = [c \in {c \in DOMAIN @ : ~IdleConversation(c, used)} |-> @[c]],
         !.links = [l \in {l \in DOMAIN @ : @[l] \in msgs} |-> @[l]]]

pruneDB ==
  /\ db' = Pruned(db.deliveries)
  /\ UNCHANGED <<vars, process, inFlight, clients>>

Recovered(rows) ==
  [id \in DOMAIN rows |->
     IF rows[id].status = "attempting"
     THEN [rows[id] EXCEPT !.status = "pending"] ELSE rows[id]]

\* What lives in the process is gone.
LoseMemory ==
  /\ lastSweepAt' = 0
  /\ agents' = << >> /\ messages' = << >> /\ inboxes' = << >>
  /\ idempotency' = << >> /\ conversations' = << >>
  /\ nextMessageID' = 0 /\ nextConversationID' = 0
  /\ saves' = {} /\ creations' = {} /\ polls' = {}
  /\ claimed' = {} /\ jobs' = << >>
  /\ up' = FALSE /\ closing' = FALSE
  /\ crashes' = crashes + 1
  /\ UNCHANGED <<clock, now, clients>>

Crash ==
  /\ crashes < MaxCrashes
  /\ LoseMemory
  /\ UNCHANGED db

(* Close, once the HTTP server has drained or given up: the delivery loop  *)
(* and the pruning are over, and no job is taken any more.  Calls that     *)
(* outlived the drain may go on until the database is closed.              *)
closePushWorkers ==
  /\ crashes < MaxCrashes
  /\ ~closing /\ claimed = {}
  /\ closing' = TRUE
  /\ UNCHANGED <<vars, db, up, crashes, inFlight, clients>>

\* The accepted jobs have run, or were cancelled, and have been recorded.
Close ==
  /\ closing /\ jobs = << >>
  /\ LoseMemory
  /\ db' = [db EXCEPT !.deliveries = Recovered(@)]

\* Messages of a conversation in the order of their positions.
LinkedMessages(d, c) ==
  LET links == {l \in DOMAIN d.links : l[1] = c}
      order == SetToSortSeq(links, LAMBDA k, l : k[2] < l[2])
  IN  [k \in DOMAIN order |-> d.links[order[k]]]

\* Mutation: the counter starts again at zero.
LoadedFromZero(d) == 0
LoadedMessageID(d) == d.counters.msg

\* NewSQLiteStore on the database that is there.
Restart ==
  LET d == Pruned(Recovered(db.deliveries))
  IN  /\ ~up
      /\ up' = TRUE
      /\ db' = d
      /\ agents' = d.agents
      /\ inboxes' = [a \in DOMAIN d.agents |-> [base |-> 0, events |-> << >>]]
      /\ messages' = d.messages
      /\ idempotency' = d.idempotency
      /\ conversations' =
           [c \in DOMAIN d.conversations |->
              [participants  |-> d.conversations[c].participants,
               lastMessageAt |-> d.conversations[c].lastMessageAt,
               msgs          |-> LinkedMessages(d, c)]]
      /\ nextMessageID' = LoadedMessageID(d)
      /\ nextConversationID' = d.counters.conv
      /\ UNCHANGED <<clock, now, lastSweepAt, closing, crashes, inFlight, clients>>

(***************************************************************************)
(* The specification                                                       *)
(***************************************************************************)
Runtime ==
  \/ Sweep /\ UNCHANGED <<db, process, inFlight, clients>>
  \/ \E a \in Agents, ttl \in RegistrationTTLs, mode \in Modes :
       BeginRegister(a, ttl, mode)
  \/ \E save \in saves, written \in BOOLEAN : saveAgent(save, written)
  \/ \E actor \in Agents \cup {Nobody}, choice \in ConversationChoices,
        names \in ParticipantChoices : BeginCreate(actor, choice, names)
  \/ \E c \in creations : ReadCounters(c) \/ CommitConversation(c)
  \/ \E from, to \in Agents, req \in RequestIDs, type \in SendTypes,
        choice \in ConversationChoices, ttl \in MessageTTLs, size \in Sizes :
       /\ <<from, to>> \in Routes
       /\ DurableSend(from, to, req, type, choice, ttl, size)
  \/ \E to \in Agents \cup {Nobody}, choice \in ConversationChoices,
        size \in Sizes :
       /\ <<Human, to>> \in Routes
       /\ DurableInject(to, choice, size)
  \/ \E a \in Agents, id \in MessageIDs :
       \/ \E status \in {"accepted", "rejected"} : DurableAck(a, id, status)
       \/ LateAck(a, id)
       \/ \E type \in {"progress", "final", "error"} :
            DurableEvent(a, id, type)
       \/ LateEvent(a, id)
  \/ \E a \in Agents, limit \in Limits : \E cursor \in cursors[a] :
       BeginPoll(a, cursor, limit)
  \/ \E p \in polls :
       readDurableInbox(p) \/ \E arrives \in BOOLEAN : FinishPoll(p, arrives)

\* The delivery loop and the pruning.
Background ==
  \/ claimDuePushes
  \/ \E id \in claimed : enqueueClaimedPush(id)
  \/ pruneDB

\* The push workers.  Shutdown cancels what its deadline leaves unfinished.
PushPool ==
  \/ \E k \in DOMAIN jobs, phase \in {"ok", "failed"}, arrives \in BOOLEAN :
       sendPushCallback(k, phase, arrives)
  \/ \E k \in DOMAIN jobs, backoff \in PushBackoffs, written \in BOOLEAN :
       recordPush(k, backoff, written)

SqliteNext ==
  \/ (Tick \/ ReadClock) /\ UNCHANGED <<db, process, inFlight, clients>>
  \/ up /\ (Runtime \/ PushPool)
  \/ up /\ ~closing /\ Background
  \/ up /\ (closePushWorkers \/ Close \/ Crash)
  \/ Restart

SqliteSpec == SqliteInit /\ [][SqliteNext]_sqliteVars

(***************************************************************************)
(* Properties                                                              *)
(***************************************************************************)
Transport(id) ==
  CASE id \in DOMAIN db.deliveries ->
         IF db.deliveries[id].status \in Open THEN "pending"
         ELSE db.deliveries[id].status
    [] id \notin DOMAIN db.deliveries /\ id <= db.counters.msg -> "gone"
    [] OTHER -> "none"

AtLeastOnce == INSTANCE Delivery WITH
  transport  <- [id \in MessageIDs |-> Transport(id)],
  expired    <- {id \in DOMAIN db.deliveries : db.deliveries[id].expiresAt <= clock},
  undirected <- {id \in DOMAIN db.messages : db.messages[id].to = Nobody}

(* The backend implements at-least-once delivery: whatever polls, pushes,  *)
(* receipts, prunes and crashes interleave, an unexpired delivery is only  *)
(* settled once its recipient has the message, and is never lost.          *)
ImplementsDelivery == AtLeastOnce!Spec

(* The push queue is a projection of the delivery rows: a delivery has at  *)
(* most one push job, and while it has one the row cannot be claimed for   *)
(* another.                                                                *)
OnePushPerDelivery ==
  /\ \A j, k \in DOMAIN jobs : jobs[j].msg = jobs[k].msg => j = k
  /\ \A id \in DOMAIN db.deliveries :
       (id \in claimed \/ \E k \in DOMAIN jobs : jobs[k].msg = id) =>
         db.deliveries[id].status # "pending"

(* Work that its recipient has taken up or finished is not redelivered:    *)
(* the lifecycle transition and the transport receipt commit together.     *)
TakenUpNotRedelivered ==
  \A id \in DOMAIN db.deliveries :
    db.messages[id].type = "request"
    /\ db.messages[id].state \in {"executing"} \cup TerminalStates =>
      db.deliveries[id].status \notin Open

(* A retry within the window is answered with the original message: the    *)
(* runtime table has every durable key of the window, through restarts,    *)
(* sweeps and the pruning of messages, and gives it the same message id.   *)
RetriesFindOriginal ==
  up => \A key \in DOMAIN db.idempotency :
          clock - db.idempotency[key].at <= IdempotencyWindow =>
            Duplicate(key) /\ idempotency[key] = db.idempotency[key]

(* Pull cursors stay meaningful: the acknowledged cursor of an agent never *)
(* moves back, through polls with old cursors, crashes and restarts, and   *)
(* no open delivery lies below it.                                         *)
CursorsAdvance ==
  [][\A a \in DOMAIN db.cursors :
       /\ a \in DOMAIN db'.cursors
       /\ db.cursors[a].acked <= db'.cursors[a].acked
       /\ db'.cursors[a].acked <= db'.cursors[a].next
       /\ \A id \in DOMAIN db'.deliveries :
            /\ db'.deliveries[id].target = a
            /\ db'.deliveries[id].seq < db'.cursors[a].acked
            => db'.deliveries[id].status \notin Open]_sqliteVars

\* What pruneDB deletes as soon as it runs.
OutOfRetention(m) ==
  \/ MessageMaxAge > 0 /\ clock - m.createdAt > MessageMaxAge
  \/ /\ MessageRetention > 0
     /\ isTerminal(m.state)
     /\ clock - (IF m.terminalAt = 0 THEN m.createdAt ELSE m.terminalAt)
          > MessageRetention

(* A message that is kept can be found: pruning, stale conversation writes *)
(* and restarts never leave a message row without its conversation row.    *)
(* Only a row whose time is over may be without: an ack or event on the    *)
(* runtime copy, which the sweep has not dropped yet, writes a row back    *)
(* that pruneDB had deleted, and the next pruning deletes it again.        *)
MessageHasConversation ==
  \A id \in DOMAIN db.messages :
    \/ db.messages[id].conv \in DOMAIN db.conversations
    \/ OutOfRetention(db.messages[id])

(* The delivery loop runs every second and the clock runs; callbacks end,  *)
(* as the HTTP client has a timeout and the attempts of a job a bound; a   *)
(* process told to stop goes on stopping, and the container restarts it.   *)
FairSqliteSpec ==
  /\ SqliteSpec
  /\ WF_sqliteVars(Tick /\ UNCHANGED <<db, process, inFlight, clients>>)
  /\ WF_sqliteVars(up /\ ~closing /\ claimDuePushes)
  /\ WF_sqliteVars(up /\ ~closing /\ \E id \in claimed : enqueueClaimedPush(id))
  /\ WF_sqliteVars(up /\ PushPool)
  /\ WF_sqliteVars(up /\ Close)
  /\ WF_sqliteVars(Restart)

(* Shutdown ends: every job the pool has taken reaches its receipt, and    *)
(* calls that go on while the pool drains add none, so Close does not wait *)
(* for ever (closePushWorkers).                                            *)
ShutdownEnds == closing ~> ~closing

(* Every delivery is settled: it is received, or it is marked failed once  *)
(* its deadline has passed, even if its recipient never polls, its push    *)
(* receipt could not be written, or the process stopped on the way.        *)
EveryDeliverySettles ==
  \A id \in MessageIDs :
    (/\ id \in DOMAIN db.deliveries
     /\ db.deliveries[id].status \in Open
     /\ db.deliveries[id].expiresAt <= MaxTime)
      ~> ~(id \in DOMAIN db.deliveries /\ db.deliveries[id].status \in Open)

(***************************************************************************)
(* What the documents say and the code does not do                         *)
(***************************************************************************)

(* "An application ack is also proof that the request arrived" (persistAck, *)
(* and guarantee 2 of the durability contract): once an ack has succeeded   *)
(* the delivery is no longer open.                                          *)
AckProvesReceipt ==
  \A id \in acked \cap DOMAIN db.deliveries :
    db.deliveries[id].status \notin Open

(* "An accepted send must atomically persist ... required counter advances" *)
(* (durability contract, section 1): the id of a stored message is never    *)
(* handed out again.                                                        *)
CountersCoverMessages ==
  \A id \in DOMAIN db.messages : id <= db.counters.msg

(* "... its conversation and ordered conversation link" (durability         *)
(* contract, section 1): every stored message has its link row.             *)
EveryMessageLinked ==
  \A id \in DOMAIN db.messages :
    \E l \in DOMAIN db.links :
      l[1] = db.messages[id].conv /\ db.links[l] = id
=============================================================================
