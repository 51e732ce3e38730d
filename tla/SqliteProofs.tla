---------------------------- MODULE SqliteProofs ----------------------------
(***************************************************************************)
(* Proofs about SqliteStore, for every set of agents, every configuration  *)
(* and any number of crashes.                                              *)
(*                                                                         *)
(* DOMAIN messages \subseteq 1..nextMessageID of TypeOK is not among the   *)
(* types here: a conversation that is written with stale counters breaks   *)
(* it at the next restart (CountersCoverMessages).                         *)
(***************************************************************************)
EXTENDS SqliteStore, StoreProofs, WellFoundedInduction

(***************************************************************************)
(* Types                                                                   *)
(***************************************************************************)
Issued == [msg : Nat, at : Nat]
CursorPair == [next : Nat, acked : Nat]

RuntimeType ==
  /\ clock \in Nat /\ now \in Nat /\ now <= clock
  /\ agents \in [DOMAIN agents -> Agent]
  /\ messages \in [DOMAIN messages -> Message]
  /\ idempotency \in [DOMAIN idempotency -> Issued]
  /\ nextMessageID \in Nat /\ nextConversationID \in Nat

DatabaseType ==
  /\ db = [agents |-> db.agents, messages |-> db.messages,
           deliveries |-> db.deliveries, idempotency |-> db.idempotency,
           conversations |-> db.conversations, links |-> db.links,
           counters |-> db.counters, cursors |-> db.cursors]
  /\ db.agents \in [DOMAIN db.agents -> Agent]
  /\ db.messages \in [DOMAIN db.messages -> Message]
  /\ db.deliveries \in [DOMAIN db.deliveries -> Delivery]
  /\ db.idempotency \in [DOMAIN db.idempotency -> Issued]
  /\ db.counters \in [conv : Nat, msg : Nat]
  /\ db.cursors \in [DOMAIN db.cursors -> CursorPair]
  /\ DOMAIN db.messages \subseteq MessageIDs
  /\ DOMAIN db.deliveries \subseteq DOMAIN db.messages

PollRecord(p) ==
  /\ p = [agent |-> p.agent, cursor |-> p.cursor, limit |-> p.limit,
          phase |-> p.phase, batch |-> p.batch, at |-> p.at, next |-> p.next]
  /\ p.agent \in Agents /\ p.cursor \in Nat /\ p.limit \in Nat /\ p.next \in Nat
  /\ p.at \in [DOMAIN p.at -> Nat]

CreationType(c) ==
  /\ c = [id |-> c.id, participants |-> c.participants,
          lastMessageAt |-> c.lastMessageAt, counters |-> c.counters]
  /\ c.counters # << >> => c.counters \in Nat \X Nat

FlightType ==
  /\ saves \subseteq Agents \X Agent
  /\ \A c \in creations : CreationType(c)
  /\ \A p \in polls : PollRecord(p)
  /\ cursors \in [Agents -> SUBSET Nat]

Types == RuntimeType /\ DatabaseType /\ FlightType

(***************************************************************************)
(* What becomes of a message                                               *)
(***************************************************************************)

(* The message n is what has become of m: of the same conversation and as  *)
(* old, and terminal since the same time if m was terminal.                *)
Continues(n, m) ==
  /\ n.conv = m.conv /\ n.createdAt = m.createdAt
  /\ isTerminal(m.state) => isTerminal(n.state) /\ n.terminalAt = m.terminalAt

\* OutOfRetention at time t.
Past(m, t) ==
  \/ MessageMaxAge > 0 /\ t - m.createdAt > MessageMaxAge
  \/ /\ MessageRetention > 0
     /\ isTerminal(m.state)
     /\ t - (IF m.terminalAt = 0 THEN m.createdAt ELSE m.terminalAt)
          > MessageRetention

\* The types of the times and of the state of a message.
LEMMA MessageTypes ==
  ASSUME NEW m \in Message
  PROVE  /\ m.createdAt \in Nat /\ m.terminalAt \in Nat /\ m.deliveredAt \in Nat
         /\ m.ttlAt \in Nat /\ m.graceUntil \in Nat
         /\ m.state \in States /\ m.to \in Agents \cup {Nobody}
BY DEF Message

\* Retention times are numbers.
LEMMA RetentionTypes ==
  MessageMaxAge \in Nat /\ MessageRetention \in Nat /\ IdempotencyWindow \in Nat
BY ConfigAssumption

\* What is out of retention stays so, whatever becomes of it.
LEMMA PastStays ==
  ASSUME NEW m \in Message, NEW n \in Message, Continues(n, m),
         NEW t \in Nat, NEW u \in Nat, t <= u, Past(m, t)
  PROVE  Past(n, u)
<1>1. /\ m.createdAt \in Nat /\ m.terminalAt \in Nat
      /\ n.createdAt = m.createdAt
      /\ isTerminal(m.state) => isTerminal(n.state) /\ n.terminalAt = m.terminalAt
  BY MessageTypes DEF Continues
<1> QED
  BY <1>1, RetentionTypes DEF Past

\* Becoming is transitive, and a message continues itself.
LEMMA ContinuesOn ==
  ASSUME NEW l, NEW m, NEW n, Continues(n, m), Continues(m, l)
  PROVE  Continues(n, l) /\ Continues(n, n)
BY DEF Continues

\* What pruneDB deletes is out of retention.
LEMMA PrunedPast ==
  ASSUME NEW m \in Message, now \in Nat, clock \in Nat, now <= clock,
         PrunedMessage(m)
  PROVE  Past(m, clock)
<1>1. m.createdAt \in Nat /\ m.terminalAt \in Nat
  BY MessageTypes
<1> QED
  BY <1>1, RetentionTypes DEF Past, PrunedMessage

\* An offered message.
LEMMA OfferedContinues ==
  ASSUME NEW m \in Message, NEW t \in Nat
  PROVE  /\ Offered(m, t) \in Message
         /\ Continues(Offered(m, t), m) /\ Continues(m, Offered(m, t))
         /\ Offered(m, t).type = m.type
         /\ \/ Offered(m, t).state = m.state
            \/ Offered(m, t).state = "waiting_ack" /\ m.state = "pending"
<1> DEFINE queued == FALSE
           state == IF m.type = "request" /\ m.state = "pending"
                    THEN "waiting_ack" ELSE m.state
           at == IF m.deliveredAt = 0 THEN t ELSE m.deliveredAt
           n == [m EXCEPT !.queued = FALSE, !.state = state, !.deliveredAt = at]
<1>1. Offered(m, t) = n
  BY DEF Offered
<1>2. state \in States /\ at \in Nat
  BY MessageTypes DEF States
<1>3. \/ state = m.state
      \/ state = "waiting_ack" /\ m.state = "pending"
  OBVIOUS
<1> HIDE DEF state, at
<1>4. /\ n \in Message /\ n.state = state /\ n.type = m.type /\ n.conv = m.conv
      /\ n.createdAt = m.createdAt /\ n.terminalAt = m.terminalAt
  BY <1>2 DEF Message
<1> HIDE DEF n
<1> QED
  BY <1>1, <1>3, <1>4 DEF Continues, isTerminal, TerminalStates

\* A message that the sweep has looked at.
LEMMA SweptContinues ==
  ASSUME NEW m \in Message, now \in Nat
  PROVE  SweptMessage(m) \in Message /\ Continues(SweptMessage(m), m)
<1>1. SweptMessage(m) \in Message
  BY SweptMessageType
<1>2. CASE ~Pending(m)
  <2>1. SweptMessage(m) = m
    BY <1>2 DEF SweptMessage, Released
  <2> QED
    BY <1>1, <2>1 DEF Continues
<1>3. CASE Pending(m)
  <2>1. ~isTerminal(m.state)
    BY <1>3 DEF Pending
  <2>2. SweptMessage(m).conv = m.conv /\ SweptMessage(m).createdAt = m.createdAt
    <3>1. CASE TimedOut(m)
      <4>1. SweptMessage(m) = [m EXCEPT !.state = "error", !.terminalAt = now]
        BY <1>3, <3>1 DEF SweptMessage, Released
      <4> QED
        BY <4>1 DEF Message
    <3>2. CASE ~TimedOut(m) /\ Released(m)
      <4>1. SweptMessage(m) = [m EXCEPT !.queued = FALSE, !.state = "waiting_ack",
                                        !.deliveredAt = now]
        BY <1>3, <3>2 DEF SweptMessage, ReleasedMessage
      <4> QED
        BY <4>1 DEF Message
    <3>3. CASE ~TimedOut(m) /\ ~Released(m)
      <4>1. SweptMessage(m) =
              IF GraceOver(m)
              THEN [m EXCEPT !.queued = FALSE, !.state = "error", !.terminalAt = now]
              ELSE m
        BY <1>3, <3>3 DEF SweptMessage
      <4> QED
        BY <4>1 DEF Message
    <3> QED
      BY <3>1, <3>2, <3>3
  <2> QED
    BY <1>1, <2>1, <2>2 DEF Continues
<1> QED
  BY <1>2, <1>3

\* A message that an ack or an event has moved on.
LEMMA RepliedContinues ==
  ASSUME RuntimeType, NEW a \in Agents, NEW id \in MessageIDs,
         \/ \E status \in {"accepted", "rejected"} : Ack(a, id, status)
         \/ \E type \in {"progress", "final", "error"} : PostEvent(a, id, type)
  PROVE  /\ id \in DOMAIN messages
         /\ \E n \in Message : SetMessage(id, n) /\ Continues(n, messages[id])
<1> DEFINE m == messages[id]
<1>1. id \in DOMAIN messages /\ Pending(m)
  BY DEF Ack, PostEvent
<1>2. m \in Message /\ now \in Nat /\ ~isTerminal(m.state)
  BY <1>1 DEF RuntimeType, Pending
<1>3. PICK n : SetMessage(id, n) /\ MovedOn(m, n)
  <2>1. CASE \E status \in {"accepted", "rejected"} : Ack(a, id, status)
    BY <2>1 DEF Ack, MovedOn
  <2>2. CASE \E type \in {"progress", "final", "error"} : PostEvent(a, id, type)
    BY <2>2 DEF PostEvent, MovedOn
  <2> QED
    BY <2>1, <2>2
<1> HIDE DEF m
<1>4. n \in Message /\ n.conv = m.conv /\ n.createdAt = m.createdAt
  BY <1>2, <1>3, MovedMessage DEF SameRequest
<1>5. Continues(n, m)
  BY <1>2, <1>4 DEF Continues
<1> QED
  BY <1>1, <1>3, <1>4, <1>5 DEF m

(***************************************************************************)
(* The kinds of steps                                                      *)
(***************************************************************************)
DeliveryTables ==
  <<db.messages, db.deliveries, db.idempotency, db.cursors>>

\* Time only goes on.
TimeGoesOn == clock <= clock' /\ now' <= clock'

\* A message is accepted in memory and in the database together.
AcceptsDurably ==
  /\ up' = up /\ TimeGoesOn
  /\ \E id \in Nat, m \in Message :
       /\ messages' = Put(messages, id, m)
       /\ db'.messages = Put(db.messages, id, m)
       /\ DOMAIN db'.conversations = DOMAIN db.conversations \cup {m.conv}
       /\ m.type = "request" => m.state \notin {"executing"} \cup TerminalStates
       /\ IF m.to = Nobody
          THEN db'.deliveries = db.deliveries /\ db'.cursors = db.cursors
          ELSE /\ id \notin DOMAIN db.deliveries
               /\ db'.deliveries = Put(db.deliveries, id, NewDelivery(m))
               /\ db'.cursors = Put(db.cursors, m.to,
                                    [next  |-> CursorRow(m.to).next + 1,
                                     acked |-> CursorRow(m.to).acked])
       /\ \/ idempotency' = idempotency /\ db'.idempotency = db.idempotency
          \/ \E key, e : /\ idempotency' = Put(idempotency, key, e)
                         /\ db'.idempotency = Put(db.idempotency, key, e)

\* An ack or an event writes the runtime copy over the row, with a receipt.
Replies ==
  /\ up' = up /\ TimeGoesOn
  /\ db'.conversations = db.conversations
  /\ db'.idempotency = db.idempotency /\ idempotency' = idempotency
  /\ db'.cursors = db.cursors
  /\ \E id \in DOMAIN messages : \E n \in Message :
       /\ Continues(n, messages[id])
       /\ messages' = [messages EXCEPT ![id] = n]
       /\ db'.messages = Put(db.messages, id, n)
       /\ db'.deliveries = Settle(db.deliveries, {id})

\* Messages and deliveries of the database stay as they are.
MovesMemory ==
  /\ up' = up /\ TimeGoesOn
  /\ UNCHANGED DeliveryTables
  /\ DOMAIN db.conversations \subseteq DOMAIN db'.conversations
  /\ DOMAIN messages' \subseteq DOMAIN messages
  /\ \A id \in DOMAIN messages' : Continues(messages'[id], messages[id])
  /\ \A k \in DOMAIN idempotency :
       \/ k \in DOMAIN idempotency' /\ idempotency'[k] = idempotency[k]
       \/ clock - idempotency[k].at > IdempotencyWindow

\* What a poll acknowledges, and no other change of a cursor row.
CursorsMove ==
  \/ db'.cursors = db.cursors
  \/ \E a \in Agents, c \in Nat :
       /\ db'.cursors = Put(db.cursors, a, [next  |-> CursorRow(a).next,
                                            acked |-> c])
       /\ CursorRow(a).acked <= CursorRow(a).next =>
            CursorRow(a).acked <= c /\ c <= CursorRow(a).next
       /\ CursorRow(a).acked < c =>
            \A id \in Below(a, c) : db'.deliveries[id].status \notin Open

\* Rows are offered, claimed or settled; memory stays as it is.
MovesRows ==
  /\ UNCHANGED vars /\ up' = up
  /\ db'.conversations = db.conversations /\ db'.idempotency = db.idempotency
  /\ DOMAIN db'.messages = DOMAIN db.messages
  /\ \A id \in DOMAIN db.messages :
       \/ db'.messages[id] = db.messages[id]
       \/ \E t \in Nat : db'.messages[id] = Offered(db.messages[id], t)
  /\ DOMAIN db'.deliveries = DOMAIN db.deliveries
  /\ \A id \in DOMAIN db.deliveries :
       /\ db'.deliveries[id].target = db.deliveries[id].target
       /\ db'.deliveries[id].seq = db.deliveries[id].seq
       /\ db'.deliveries[id].status \in Open => db.deliveries[id].status \in Open
  /\ CursorsMove

\* What the pruning leaves of the database.
Prunes ==
  /\ UNCHANGED <<clock, now>>
  /\ db'.cursors = db.cursors
  /\ DOMAIN db'.messages \subseteq DOMAIN db.messages
  /\ \A id \in DOMAIN db.messages :
       \/ id \in DOMAIN db'.messages /\ db'.messages[id] = db.messages[id]
       \/ id \notin DOMAIN db'.messages /\ Past(db.messages[id], clock)
  /\ \A id \in DOMAIN db'.messages :
       db.messages[id].conv \in DOMAIN db.conversations =>
         db.messages[id].conv \in DOMAIN db'.conversations
  /\ DOMAIN db'.deliveries \subseteq DOMAIN db.deliveries
  /\ \A id \in DOMAIN db'.deliveries :
       /\ db'.deliveries[id].target = db.deliveries[id].target
       /\ db'.deliveries[id].seq = db.deliveries[id].seq
       /\ db'.deliveries[id].status \in Open => db.deliveries[id].status \in Open
  /\ \A k \in DOMAIN db'.idempotency :
       k \in DOMAIN db.idempotency /\ db'.idempotency[k] = db.idempotency[k]

Stops ==
  /\ UNCHANGED <<clock, now>> /\ up' = FALSE /\ messages' = << >>
  /\ db'.messages = db.messages /\ db'.conversations = db.conversations
  /\ db'.idempotency = db.idempotency /\ db'.cursors = db.cursors
  /\ DOMAIN db'.deliveries = DOMAIN db.deliveries
  /\ \A id \in DOMAIN db.deliveries :
       /\ db'.deliveries[id].target = db.deliveries[id].target
       /\ db'.deliveries[id].seq = db.deliveries[id].seq
       /\ db'.deliveries[id].status \in Open => db.deliveries[id].status \in Open

\* While the process runs it prunes the database and not the memory.
PrunesRows == Prunes /\ UNCHANGED vars /\ up' = up

\* A restart prunes the database first and loads what is left.
Starts ==
  /\ Prunes
  /\ messages' = db'.messages /\ idempotency' = db'.idempotency

SqliteKinds ==
  \/ AcceptsDurably \/ Replies \/ MovesMemory \/ MovesRows \/ PrunesRows
  \/ Stops \/ Starts

(***************************************************************************)
(* Steps that leave the tables of messages and deliveries alone            *)
(***************************************************************************)

\* The tables of a database.
LEMMA Tables ==
  ASSUME NEW d, NEW a, NEW m, NEW r, NEW i, NEW c, NEW l, NEW n, NEW k,
         d = [agents |-> a, messages |-> m, deliveries |-> r, idempotency |-> i,
              conversations |-> c, links |-> l, counters |-> n, cursors |-> k]
  PROVE  /\ d.agents = a /\ d.messages = m /\ d.deliveries = r
         /\ d.idempotency = i /\ d.conversations = c /\ d.links = l
         /\ d.counters = n /\ d.cursors = k
OBVIOUS

\* A registered agent is one that Agent describes.
LEMMA RegisteredType ==
  ASSUME RuntimeType, NEW ttl \in RegistrationTTLs, NEW mode \in Modes
  PROVE  [status |-> "active", expiresAt |-> now + ttl, mode |-> mode] \in Agent
<1>1. now + ttl \in Nat
  BY ConfigAssumption DEF RuntimeType
<1> QED
  BY <1>1 DEF Agent

\* The clock and the reading of it.
LEMMA TimeStep ==
  ASSUME Types, (Tick \/ ReadClock) /\ UNCHANGED <<db, process, inFlight, clients>>
  PROVE  Types' /\ MovesMemory
<1>1. /\ clock' \in Nat /\ now' \in Nat /\ now' <= clock' /\ clock <= clock'
      /\ UNCHANGED <<agents, messages, inboxes, idempotency, conversations,
                     nextMessageID, nextConversationID>>
  BY DEF Types, RuntimeType, Tick, ReadClock
<1>2. UNCHANGED <<db, up, saves, creations, polls, cursors>>
  BY DEF process, inFlight, clients
<1>3. Types'
  <2>1. RuntimeType'
    BY <1>1 DEF Types, RuntimeType
  <2>2. DatabaseType'
    BY <1>2 DEF Types, DatabaseType
  <2>3. FlightType'
    BY <1>2 DEF Types, FlightType
  <2> QED
    BY <2>1, <2>2, <2>3 DEF Types
<1>4. UNCHANGED DeliveryTables
  BY <1>2 DEF DeliveryTables
<1> QED
  BY <1>1, <1>2, <1>3, <1>4 DEF MovesMemory, TimeGoesOn, Continues

\* sweepLocked.
LEMMA SweepStep ==
  ASSUME Types, Sweep, UNCHANGED <<db, process, inFlight, clients>>
  PROVE  Types' /\ MovesMemory
<1>1. /\ clock \in Nat /\ now \in Nat /\ now <= clock
      /\ agents \in [DOMAIN agents -> Agent]
      /\ messages \in [DOMAIN messages -> Message]
      /\ idempotency \in [DOMAIN idempotency -> Issued]
  BY DEF Types, RuntimeType
<1>2. UNCHANGED <<clock, now, nextMessageID, nextConversationID>>
  BY DEF Sweep
<1>3. UNCHANGED <<db, up, saves, creations, polls, cursors>>
  BY DEF process, inFlight, clients
<1>4. /\ DOMAIN messages' \subseteq DOMAIN messages
      /\ \A id \in DOMAIN messages' : /\ messages'[id] \in Message
                                      /\ Continues(messages'[id], messages[id])
  <2>1. messages' = [id \in KeptMessages |-> SweptMessages[id]]
        /\ KeptMessages \subseteq DOMAIN messages
    BY DEF Sweep, KeptMessages
  <2>2. \A id \in KeptMessages : SweptMessages[id] = SweptMessage(messages[id])
    BY <2>1 DEF SweptMessages
  <2>3. \A id \in DOMAIN messages : messages[id] \in Message
    BY <1>1
  <2> QED
    BY <1>1, <2>1, <2>2, <2>3, SweptContinues
<1>5. /\ DOMAIN idempotency' \subseteq DOMAIN idempotency
      /\ \A k \in DOMAIN idempotency' : idempotency'[k] = idempotency[k]
      /\ \A k \in DOMAIN idempotency \ DOMAIN idempotency' : StaleEntry(idempotency[k])
  BY DEF Sweep, KeptEntries
<1>6. \A k \in DOMAIN idempotency :
        \/ k \in DOMAIN idempotency' /\ idempotency'[k] = idempotency[k]
        \/ clock - idempotency[k].at > IdempotencyWindow
  <2>1. \A k \in DOMAIN idempotency : idempotency[k].at \in Nat
    BY <1>1 DEF Issued
  <2> QED
    BY <1>1, <1>5, <2>1, RetentionTypes DEF StaleEntry
<1>7. agents' \in [DOMAIN agents' -> Agent]
  <2>1. agents' = [a \in KeptAgents |-> SweptAgents[a]]
        /\ KeptAgents \subseteq DOMAIN agents
    BY DEF Sweep, KeptAgents
  <2>2. \A a \in DOMAIN agents : SweptAgent(a) \in Agent
    BY <1>1 DEF SweptAgent, Agent
  <2> QED
    BY <2>1, <2>2 DEF SweptAgents
<1>8. Types'
  <2>1. messages' = [id \in KeptMessages |-> SweptMessages[id]]
        /\ idempotency' = [k \in KeptEntries |-> idempotency[k]]
    BY DEF Sweep
  <2>2. RuntimeType'
    BY <1>1, <1>2, <1>4, <1>5, <1>7, <2>1 DEF Types, RuntimeType
  <2>3. DatabaseType'
    BY <1>3 DEF Types, DatabaseType
  <2>4. FlightType'
    BY <1>3 DEF Types, FlightType
  <2> QED
    BY <2>2, <2>3, <2>4 DEF Types
<1>9. UNCHANGED DeliveryTables
  BY <1>3 DEF DeliveryTables
<1> QED
  BY <1>1, <1>2, <1>3, <1>4, <1>6, <1>8, <1>9 DEF MovesMemory, TimeGoesOn

\* A step that leaves memory, up to the registry, and every table but agents
\* and conversations alone.
LEMMA QuietStep ==
  ASSUME Types, UNCHANGED <<clock, now, messages, idempotency, up>>,
         UNCHANGED DeliveryTables,
         DOMAIN db.conversations \subseteq DOMAIN db'.conversations
  PROVE  MovesMemory
BY DEF Types, RuntimeType, MovesMemory, TimeGoesOn, Continues

\* RegisterAgent: memory first.
LEMMA RegisterStep ==
  ASSUME Types, NEW a \in Agents, NEW ttl \in RegistrationTTLs, NEW mode \in Modes,
         BeginRegister(a, ttl, mode)
  PROVE  Types' /\ MovesMemory
<1> DEFINE entry == [status |-> "active", expiresAt |-> now + ttl, mode |-> mode]
<1>1. entry \in Agent
  BY RegisteredType DEF Types
<1> HIDE DEF entry
<1>2. /\ agents' = Put(agents, a, entry)
      /\ UNCHANGED <<clock, now, messages, idempotency, conversations,
                     nextMessageID, nextConversationID>>
      /\ saves' = saves \cup {<<a, agents'[a]>>}
      /\ UNCHANGED <<db, up, creations, polls, cursors>>
  BY DEF BeginRegister, RegisterAgent, process, clients, entry
<1>3. agents' \in [DOMAIN agents' -> Agent] /\ agents'[a] \in Agent
  BY <1>1, <1>2 DEF Types, RuntimeType, Put
<1>4. RuntimeType'
  BY <1>2, <1>3 DEF Types, RuntimeType
<1>5. DatabaseType'
  BY <1>2 DEF Types, DatabaseType
<1>6. FlightType'
  BY <1>2, <1>3 DEF Types, FlightType
<1>7. UNCHANGED DeliveryTables
  BY <1>2 DEF DeliveryTables
<1> QED
  BY <1>2, <1>4, <1>5, <1>6, <1>7, QuietStep DEF Types

\* RegisterAgent: the write to the database, or its failure.
LEMMA SaveStep ==
  ASSUME Types, NEW save \in saves, NEW written \in BOOLEAN, saveAgent(save, written)
  PROVE  Types' /\ MovesMemory
<1> DEFINE rows == Put(db.agents, save[1], save[2])
<1>1. /\ saves' \subseteq saves
      /\ db' = IF written THEN [db EXCEPT !.agents = rows] ELSE db
      /\ UNCHANGED <<clock, now, agents, messages, idempotency, nextMessageID,
                     nextConversationID, up, creations, polls, cursors>>
  BY DEF saveAgent, vars, process, clients
<1>2. rows \in [DOMAIN rows -> Agent]
  <2>1. save[2] \in Agent
    BY DEF Types, FlightType
  <2>2. db.agents \in [DOMAIN db.agents -> Agent]
    BY DEF Types, DatabaseType
  <2> QED
    BY <2>1, <2>2 DEF Put
<1> HIDE DEF rows
<1>3. /\ db' = [agents |-> db'.agents, messages |-> db.messages,
                deliveries |-> db.deliveries, idempotency |-> db.idempotency,
                conversations |-> db.conversations, links |-> db.links,
                counters |-> db.counters, cursors |-> db.cursors]
      /\ db'.agents = db.agents \/ db'.agents = rows
  BY <1>1 DEF Types, DatabaseType
<1>4. /\ UNCHANGED DeliveryTables
      /\ db'.conversations = db.conversations /\ db'.counters = db.counters
      /\ db'.links = db.links
  BY <1>3 DEF DeliveryTables
<1>5. DatabaseType'
  <2>1. db'.agents \in [DOMAIN db'.agents -> Agent]
    BY <1>2, <1>3 DEF Types, DatabaseType
  <2> QED
    BY <1>3, <1>4, <2>1 DEF Types, DatabaseType, DeliveryTables
<1>6. RuntimeType'
  BY <1>1 DEF Types, RuntimeType
<1>7. FlightType'
  BY <1>1 DEF Types, FlightType
<1> QED
  BY <1>1, <1>4, <1>5, <1>6, <1>7, QuietStep DEF Types

\* CreateConversation: memory first.
LEMMA CreateStep ==
  ASSUME Types, NEW actor, NEW choice \in ConversationChoices, NEW names,
         BeginCreate(actor, choice, names)
  PROVE  Types' /\ MovesMemory
<1>1. /\ UNCHANGED <<clock, now, agents, messages, idempotency, nextMessageID>>
      /\ nextConversationID' = CounterAfter(choice)
      /\ UNCHANGED <<db, up, saves, polls, cursors>>
      /\ \/ creations' = creations
         \/ \E p, t : creations' = creations \cup
              {[id |-> ConversationID(choice), participants |-> p,
                lastMessageAt |-> t, counters |-> << >>]}
  BY DEF BeginCreate, CreateConversation, process, clients
<1>2. nextConversationID' \in Nat
  BY <1>1, InputAssumption DEF Types, RuntimeType, CounterAfter
<1>3. \A c \in creations' : CreationType(c)
  <2>1. \A i, p, t : CreationType([id |-> i, participants |-> p,
                                   lastMessageAt |-> t, counters |-> << >>])
    BY DEF CreationType
  <2> QED
    BY <1>1, <2>1 DEF Types, FlightType
<1>4. RuntimeType'
  BY <1>1, <1>2 DEF Types, RuntimeType
<1>5. DatabaseType'
  BY <1>1 DEF Types, DatabaseType
<1>6. FlightType'
  BY <1>1, <1>3 DEF Types, FlightType
<1>7. UNCHANGED DeliveryTables
  BY <1>1 DEF DeliveryTables
<1> QED
  BY <1>1, <1>4, <1>5, <1>6, <1>7, QuietStep DEF Types

\* CreateConversation: the counters are read.
LEMMA CountersStep ==
  ASSUME Types, NEW c \in creations, ReadCounters(c)
  PROVE  Types' /\ MovesMemory
<1> DEFINE read == <<nextConversationID, nextMessageID>>
           d == [c EXCEPT !.counters = read]
<1>1. /\ creations' = (creations \ {c}) \cup {d}
      /\ UNCHANGED <<clock, now, agents, messages, idempotency, nextMessageID,
                     nextConversationID, db, up, saves, polls, cursors>>
  BY DEF ReadCounters, vars, process, clients
<1>2. CreationType(c) /\ read \in Nat \X Nat
  BY DEF Types, FlightType, RuntimeType
<1> HIDE DEF read
<1>3. d = [id |-> c.id, participants |-> c.participants,
           lastMessageAt |-> c.lastMessageAt, counters |-> read]
  BY <1>2 DEF CreationType
<1>4. CreationType(d)
  BY <1>2, <1>3 DEF CreationType
<1> HIDE DEF d
<1>5. \A e \in creations' : CreationType(e)
  BY <1>1, <1>4 DEF Types, FlightType
<1>6. RuntimeType'
  BY <1>1 DEF Types, RuntimeType
<1>7. DatabaseType'
  BY <1>1 DEF Types, DatabaseType
<1>8. FlightType'
  BY <1>1, <1>5 DEF Types, FlightType
<1>9. UNCHANGED DeliveryTables
  BY <1>1 DEF DeliveryTables
<1> QED
  BY <1>1, <1>6, <1>7, <1>8, <1>9, QuietStep DEF Types

\* CreateConversation: the write to the database, with the counters as read.
LEMMA CommitStep ==
  ASSUME Types, NEW c \in creations, CommitConversation(c)
  PROVE  Types' /\ MovesMemory
<1> DEFINE row == [participants |-> c.participants, lastMessageAt |-> c.lastMessageAt]
           rows == Put(db.conversations, c.id, row)
           read == [conv |-> c.counters[1], msg |-> c.counters[2]]
<1>1. /\ creations' = creations \ {c}
      /\ db' = [db EXCEPT !.conversations = rows, !.counters = read]
      /\ UNCHANGED <<clock, now, agents, messages, idempotency, nextMessageID,
                     nextConversationID, up, saves, polls, cursors>>
  BY DEF CommitConversation, vars, process, clients
<1>2. c.counters \in Nat \X Nat
  BY DEF CommitConversation, Types, FlightType, CreationType
<1>3. read \in [conv : Nat, msg : Nat]
  BY <1>2
<1>4. DOMAIN rows = DOMAIN db.conversations \cup {c.id}
  BY DEF Put
<1> HIDE DEF rows, read
<1>5. db' = [agents |-> db.agents, messages |-> db.messages,
             deliveries |-> db.deliveries, idempotency |-> db.idempotency,
             conversations |-> rows, links |-> db.links,
             counters |-> read, cursors |-> db.cursors]
  BY <1>1 DEF Types, DatabaseType
<1>6. /\ UNCHANGED DeliveryTables
      /\ db'.agents = db.agents /\ db'.links = db.links
      /\ db'.conversations = rows /\ db'.counters = read
  BY <1>5 DEF DeliveryTables
<1>7. DatabaseType'
  BY <1>3, <1>5, <1>6 DEF Types, DatabaseType, DeliveryTables
<1>8. RuntimeType'
  BY <1>1 DEF Types, RuntimeType
<1>9. FlightType'
  BY <1>1 DEF Types, FlightType
<1> QED
  BY <1>1, <1>4, <1>6, <1>7, <1>8, <1>9, QuietStep DEF Types

(***************************************************************************)
(* Accepted messages                                                       *)
(***************************************************************************)

\* The counters of the runtime.
LEMMA ChoiceTypes ==
  ASSUME RuntimeType, NEW choice \in ConversationChoices
  PROVE  CounterAfter(choice) \in Nat /\ ConversationID(choice) \in Nat
BY InputAssumption DEF RuntimeType, CounterAfter, ConversationID

\* A message held for an agent that has expired.
LEMMA HeldType ==
  ASSUME RuntimeType, NEW m \in Message, m.to \in DOMAIN agents
  PROVE  /\ QueuedMessage(m) \in Message
         /\ QueuedMessage(m).to = m.to /\ QueuedMessage(m).type = m.type
         /\ QueuedMessage(m).state = m.state /\ QueuedMessage(m).conv = m.conv
         /\ QueuedMessage(m).req = m.req /\ QueuedMessage(m).from = m.from
<1>1. agents[m.to].expiresAt \in Nat
  BY DEF RuntimeType, Agent
<1>2. GraceEnd(m.to) \in Nat
  BY <1>1, Bounds DEF GraceEnd
<1> QED
  BY <1>2 DEF QueuedMessage, Message

\* A message delivered at once.
LEMMA SentType ==
  ASSUME RuntimeType, NEW m \in Message
  PROVE  /\ DeliveredMessage(m) \in Message
         /\ DeliveredMessage(m).to = m.to /\ DeliveredMessage(m).type = m.type
         /\ DeliveredMessage(m).conv = m.conv /\ DeliveredMessage(m).req = m.req
         /\ DeliveredMessage(m).from = m.from
         /\ m.type = "request" => DeliveredMessage(m).state = "waiting_ack"
<1>1. now \in Nat
  BY DEF RuntimeType
<1>2. CASE m.type = "request"
  <2>1. DeliveredMessage(m) = [m EXCEPT !.state = "waiting_ack", !.deliveredAt = now]
    BY <1>2 DEF DeliveredMessage
  <2> QED
    BY <1>1, <1>2, <2>1 DEF Message, States
<1>3. CASE m.type # "request"
  BY <1>3 DEF DeliveredMessage
<1> QED
  BY <1>2, <1>3

\* What sendMessage and inject accept: a message not yet taken up, in memory
\* and with an idempotency entry of its own, if it has one at all.
AcceptsMessage(id, m) ==
  /\ id \in MessageIDs /\ m \in Message
  /\ m.type = "request" => m.state \in {"pending", "waiting_ack"}
  /\ messages' = Put(messages, id, m)
  /\ \E choice \in ConversationChoices : nextConversationID' = CounterAfter(choice)
  /\ nextMessageID' = id
  /\ UNCHANGED <<clock, now, agents>>
  /\ IF m.req = Injected THEN idempotency' = idempotency
     ELSE idempotency' = Put(idempotency, <<m.from, m.to, m.req>>,
                             [msg |-> id, at |-> now])

\* sendMessage.
LEMMA SendAcceptsDurably ==
  ASSUME RuntimeType, NEW from \in Agents, NEW to \in Agents, NEW req \in RequestIDs,
         NEW type \in SendTypes, NEW choice \in ConversationChoices,
         NEW ttl \in MessageTTLs, NEW size \in Sizes,
         SendMessage(from, to, req, type, choice, ttl, size)
  PROVE  \E m : AcceptsMessage(nextMessageID + 1, m)
<1> DEFINE id  == nextMessageID + 1
           m   == NewMessage(type, from, to, ConversationID(choice), req, size, ttl)
           sent == IF agents[to].status = "expired" THEN QueuedMessage(m)
                                                    ELSE DeliveredMessage(m)
<1>1. /\ to \in DOMAIN agents
      /\ Accept(id, sent, choice, {from, to})
      /\ idempotency' = Put(idempotency, <<from, to, req>>, [msg |-> id, at |-> now])
  BY DEF SendMessage
<1>2. type \in {"request", "response", "inform"} /\ size \in Nat /\ ttl \in Nat
      /\ now \in Nat /\ ConversationID(choice) \in Nat
  BY InputAssumption, ConfigAssumption, ChoiceTypes DEF RuntimeType
<1>3. /\ m \in Message /\ m.to = to /\ m.from = from /\ m.req = req
      /\ m.type = "request" => m.state = "pending"
  BY <1>2 DEF NewMessage, Message, States, TerminalStates
<1> HIDE DEF m
<1>4. sent \in Message /\ sent.to = to /\ sent.from = from /\ sent.req = req
      /\ (sent.type = "request" => sent.state \in {"pending", "waiting_ack"})
  BY <1>1, <1>3, HeldType, SentType
<1> HIDE DEF sent
<1>5. req # Injected
  BY InputAssumption
<1>6. /\ messages' = Put(messages, id, sent) /\ nextMessageID' = id
      /\ nextConversationID' = CounterAfter(choice)
      /\ UNCHANGED <<clock, now, agents>>
  BY <1>1 DEF Accept
<1>7. id \in MessageIDs
  BY Bounds DEF SendMessage, RuntimeType, MessageIDs
<1>8. AcceptsMessage(id, sent)
  BY <1>1, <1>4, <1>5, <1>6, <1>7 DEF AcceptsMessage
<1> QED
  BY <1>8

\* inject.
LEMMA InjectAcceptsDurably ==
  ASSUME RuntimeType, NEW to \in Agents \cup {Nobody},
         NEW choice \in ConversationChoices, NEW size \in Sizes,
         Inject(to, choice, size)
  PROVE  \E m : AcceptsMessage(nextMessageID + 1, m)
<1> DEFINE id == nextMessageID + 1
           m  == NewMessage("inform", Human, to, ConversationID(choice), Injected,
                            size, DefaultMessageTTL)
           queued == QueuedMessage(m)
           held == [queued EXCEPT !.state = "pending", !.terminalAt = 0]
           sent == IF to # Nobody /\ agents[to].status = "expired" THEN held ELSE m
<1>1. /\ to # Nobody => to \in DOMAIN agents
      /\ Accept(id, sent, choice, {})
      /\ idempotency' = idempotency
  BY DEF Inject
<1>2. size \in Nat /\ now \in Nat /\ ConversationID(choice) \in Nat
  BY ConfigAssumption, ChoiceTypes DEF RuntimeType
<1>3. m \in Message /\ m.to = to /\ m.req = Injected /\ m.type = "inform"
  BY <1>2, Bounds DEF NewMessage, Message, States, TerminalStates
<1> HIDE DEF m
<1>4. ASSUME to \in DOMAIN agents
      PROVE  held \in Message /\ held.req = Injected /\ held.type = "inform"
  <2>1. queued \in Message /\ queued.req = Injected /\ queued.type = "inform"
    BY <1>3, <1>4, HeldType
  <2> HIDE DEF queued
  <2> QED
    BY <2>1 DEF Message, States
<1> HIDE DEF held
<1>5. sent \in Message /\ sent.req = Injected /\ sent.type = "inform"
  BY <1>1, <1>3, <1>4
<1> HIDE DEF sent
<1>6. /\ messages' = Put(messages, id, sent) /\ nextMessageID' = id
      /\ nextConversationID' = CounterAfter(choice)
      /\ UNCHANGED <<clock, now, agents>>
  BY <1>1 DEF Accept
<1>7. id \in MessageIDs
  BY Bounds DEF Inject, RuntimeType, MessageIDs
<1>8. AcceptsMessage(id, sent)
  BY <1>1, <1>5, <1>6, <1>7 DEF AcceptsMessage
<1> QED
  BY <1>8

\* The delivery row of an accepted message.
LEMMA NewDeliveryType ==
  ASSUME Types, NEW m \in Message, m.to # Nobody
  PROVE  NewDelivery(m) \in Delivery /\ CursorRow(m.to) \in CursorPair
<1>1. /\ m.to \in Agents /\ m.createdAt \in Nat /\ m.ttlAt \in Nat
      /\ m.graceUntil \in Nat
  BY MessageTypes
<1>2. deliveryExpiry(m) \in Nat
  BY <1>1 DEF deliveryExpiry
<1>3. CursorRow(m.to) \in CursorPair
  BY DEF Types, DatabaseType, CursorRow, CursorPair
<1>4. CursorRow(m.to).next \in Nat
  BY <1>3 DEF CursorPair
<1> QED
  BY <1>1, <1>2, <1>3, <1>4 DEF NewDelivery, Delivery, Open

\* The transaction of persistAcceptance.
LEMMA AcceptStep ==
  ASSUME Types, NEW m, AcceptsMessage(nextMessageID + 1, m), AcceptDurably
  PROVE  Types' /\ AcceptsDurably
<1> DEFINE id == nextMessageID + 1
           key == <<m.from, m.to, m.req>>
           e == [msg |-> id, at |-> now]
           row == [participants  |-> conversations'[m.conv].participants,
                   lastMessageAt |-> now]
           C == Put(db.conversations, m.conv, row)
           M == Put(db.messages, id, m)
           L == Put(db.links, <<m.conv, Len(conversations'[m.conv].msgs) - 1>>, id)
           N == [conv |-> nextConversationID', msg |-> nextMessageID']
           D == IF m.to = Nobody THEN db.deliveries
                ELSE Put(db.deliveries, id, NewDelivery(m))
           cr == [next |-> CursorRow(m.to).next + 1, acked |-> CursorRow(m.to).acked]
           K == IF m.to = Nobody THEN db.cursors ELSE Put(db.cursors, m.to, cr)
           I == IF m.req = Injected THEN db.idempotency
                ELSE Put(db.idempotency, key, e)
<1>1. /\ m \in Message
      /\ m.type = "request" => m.state \in {"pending", "waiting_ack"}
      /\ messages' = Put(messages, id, m)
      /\ nextConversationID' \in Nat
      /\ nextMessageID' = id
      /\ UNCHANGED <<clock, now, agents>>
      /\ IF m.req = Injected THEN idempotency' = idempotency
         ELSE idempotency' = Put(idempotency, key, e)
  BY ChoiceTypes DEF AcceptsMessage, Types
<1>2. id \in Nat /\ e \in Issued /\ N \in [conv : Nat, msg : Nat]
  BY <1>1 DEF Types, RuntimeType, Issued
<1>3. messages'[id] = m
  BY <1>1 DEF Put
<1>4. CursorRow(m.to) = [next |-> CursorRow(m.to).next, acked |-> CursorRow(m.to).acked]
      /\ cr \in CursorPair
  BY DEF Types, DatabaseType, CursorRow, CursorPair
<1>5. [CursorRow(m.to) EXCEPT !.next = @ + 1] = cr
  BY <1>4
<1>6. /\ m.to # Nobody => id \notin DOMAIN db.deliveries
      /\ db' = [db EXCEPT
           !.conversations = C, !.messages = M, !.links = L, !.counters = N,
           !.deliveries = D, !.cursors = K, !.idempotency = I]
      /\ UNCHANGED <<up, saves, creations, polls, cursors>>
  BY <1>3, <1>5 DEF AcceptDurably, persistAcceptance, process, clients
<1>7. /\ DOMAIN C = DOMAIN db.conversations \cup {m.conv}
      /\ DOMAIN M = DOMAIN db.messages \cup {id} /\ M \in [DOMAIN M -> Message]
      /\ DOMAIN D \subseteq DOMAIN db.deliveries \cup {id} /\ D \in [DOMAIN D -> Delivery]
      /\ DOMAIN db.deliveries \subseteq DOMAIN db.messages
      /\ DOMAIN M \subseteq MessageIDs
      /\ K \in [DOMAIN K -> CursorPair]
      /\ I \in [DOMAIN I -> Issued]
  <2> DEFINE d == NewDelivery(m)
  <2>1. m.to # Nobody => d \in Delivery
    BY <1>1, NewDeliveryType
  <2>2. /\ db.messages \in [DOMAIN db.messages -> Message]
        /\ db.deliveries \in [DOMAIN db.deliveries -> Delivery]
        /\ db.idempotency \in [DOMAIN db.idempotency -> Issued]
        /\ db.cursors \in [DOMAIN db.cursors -> CursorPair]
        /\ DOMAIN db.deliveries \subseteq DOMAIN db.messages
        /\ DOMAIN db.messages \subseteq MessageIDs /\ id \in MessageIDs
    BY DEF Types, DatabaseType, AcceptsMessage
  <2> HIDE DEF d, e, cr, id, key
  <2>3. DOMAIN C = DOMAIN db.conversations \cup {m.conv}
    BY DEF Put
  <2>4. DOMAIN M = DOMAIN db.messages \cup {id} /\ M \in [DOMAIN M -> Message]
    BY <1>1, <2>2 DEF Put
  <2>5. DOMAIN D \subseteq DOMAIN db.deliveries \cup {id} /\ D \in [DOMAIN D -> Delivery]
    BY <2>1, <2>2 DEF d, Put
  <2>6. K \in [DOMAIN K -> CursorPair]
    BY <1>4, <2>2 DEF Put
  <2>7. I \in [DOMAIN I -> Issued]
    BY <1>2, <2>2 DEF Put
  <2> QED
    BY <2>2, <2>3, <2>4, <2>5, <2>6, <2>7
<1> HIDE DEF C, M, L, N, D, K, I
<1>8. db' = [agents |-> db.agents, messages |-> M, deliveries |-> D,
             idempotency |-> I, conversations |-> C, links |-> L,
             counters |-> N, cursors |-> K]
  BY <1>6 DEF Types, DatabaseType
<1>9. /\ db'.agents = db.agents /\ db'.messages = M /\ db'.deliveries = D
      /\ db'.idempotency = I /\ db'.conversations = C /\ db'.links = L
      /\ db'.counters = N /\ db'.cursors = K
  BY <1>8
<1>10. DatabaseType'
  <2>1. db.agents \in [DOMAIN db.agents -> Agent]
    BY DEF Types, DatabaseType
  <2>2. DOMAIN D \subseteq DOMAIN M
    BY <1>7
  <2> QED
    BY <1>2, <1>7, <1>8, <1>9, <2>1, <2>2 DEF DatabaseType
<1>11. RuntimeType'
  <2>1. /\ messages \in [DOMAIN messages -> Message]
        /\ idempotency \in [DOMAIN idempotency -> Issued]
    BY DEF Types, RuntimeType
  <2>2. messages' \in [DOMAIN messages' -> Message]
    BY <1>1, <2>1 DEF Put
  <2>3. idempotency' \in [DOMAIN idempotency' -> Issued]
    BY <1>1, <1>2, <2>1 DEF Put
  <2> QED
    BY <1>1, <1>2, <2>2, <2>3 DEF Types, RuntimeType
<1>12. FlightType'
  BY <1>6 DEF Types, FlightType
<1>13. AcceptsDurably
  <2>1. IF m.to = Nobody
        THEN db'.deliveries = db.deliveries /\ db'.cursors = db.cursors
        ELSE /\ id \notin DOMAIN db.deliveries
             /\ db'.deliveries = Put(db.deliveries, id, NewDelivery(m))
             /\ db'.cursors = Put(db.cursors, m.to, cr)
    BY <1>6, <1>9 DEF D, K
  <2>2. \/ idempotency' = idempotency /\ db'.idempotency = db.idempotency
        \/ \E k, f : /\ idempotency' = Put(idempotency, k, f)
                     /\ db'.idempotency = Put(db.idempotency, k, f)
    BY <1>1, <1>9 DEF I
  <2>3. m.type = "request" => m.state \notin {"executing"} \cup TerminalStates
    BY <1>1 DEF TerminalStates
  <2>4. TimeGoesOn /\ up' = up
    BY <1>1, <1>6 DEF TimeGoesOn, Types, RuntimeType
  <2>5. db'.messages = Put(db.messages, id, m)
        /\ DOMAIN db'.conversations = DOMAIN db.conversations \cup {m.conv}
    BY <1>7, <1>9 DEF M
  <2> HIDE DEF id, e, key
  <2> QED
    BY <1>1, <1>2, <2>1, <2>2, <2>3, <2>4, <2>5 DEF AcceptsDurably
<1> QED
  BY <1>10, <1>11, <1>12, <1>13 DEF Types

(***************************************************************************)
(* Acknowledgments and events                                              *)
(***************************************************************************)

\* Settled rows keep their identity and open none.
LEMMA SettleKeeps ==
  ASSUME NEW rows, rows \in [DOMAIN rows -> Delivery], NEW ids
  PROVE  /\ DOMAIN Settle(rows, ids) = DOMAIN rows
         /\ Settle(rows, ids) \in [DOMAIN rows -> Delivery]
         /\ \A id \in DOMAIN rows :
              /\ Settle(rows, ids)[id].target = rows[id].target
              /\ Settle(rows, ids)[id].seq = rows[id].seq
              /\ Settle(rows, ids)[id].status \in Open => rows[id].status \in Open
              /\ id \in ids => Settle(rows, ids)[id].status \notin Open
<1>1. ASSUME NEW id \in DOMAIN rows
      PROVE  LET r == IF id \in ids /\ rows[id].status \in Open
                      THEN [rows[id] EXCEPT !.status = "received"] ELSE rows[id]
             IN  /\ r \in Delivery /\ r.target = rows[id].target
                 /\ r.seq = rows[id].seq
                 /\ r.status \in Open => rows[id].status \in Open
                 /\ id \in ids => r.status \notin Open
  <2>1. rows[id] \in Delivery
    OBVIOUS
  <2>2. [rows[id] EXCEPT !.status = "received"].status = "received"
    BY <2>1 DEF Delivery
  <2>3. /\ [rows[id] EXCEPT !.status = "received"] \in Delivery
        /\ [rows[id] EXCEPT !.status = "received"].target = rows[id].target
        /\ [rows[id] EXCEPT !.status = "received"].seq = rows[id].seq
    BY <2>1 DEF Delivery
  <2> QED
    BY <2>1, <2>2, <2>3 DEF Open
<1> QED
  BY <1>1 DEF Settle

\* The transaction of persistAck: the row of the message and the receipt.
LEMMA PersistStep ==
  ASSUME Types, NEW id \in MessageIDs, id \in DOMAIN messages,
         NEW n \in Message,
         Continues(n, messages[id]), messages' = [messages EXCEPT ![id] = n],
         persistAck(id, n),
         UNCHANGED <<clock, now, agents, idempotency, nextMessageID,
                     nextConversationID, up, saves, creations, polls, cursors>>
  PROVE  Types' /\ Replies
<1> DEFINE M == Put(db.messages, id, n)
           D == Settle(db.deliveries, {id})
<1>1. /\ db.messages \in [DOMAIN db.messages -> Message]
      /\ db.deliveries \in [DOMAIN db.deliveries -> Delivery]
      /\ DOMAIN db.deliveries \subseteq DOMAIN db.messages
      /\ DOMAIN db.messages \subseteq MessageIDs
  BY DEF Types, DatabaseType
<1>2. DOMAIN M = DOMAIN db.messages \cup {id} /\ M \in [DOMAIN M -> Message]
  BY <1>1 DEF Put
<1>3. DOMAIN D = DOMAIN db.deliveries /\ D \in [DOMAIN D -> Delivery]
  BY <1>1, SettleKeeps
<1> HIDE DEF M, D
<1>4. db' = [db EXCEPT !.messages = M, !.deliveries = D]
  BY DEF persistAck, M, D
<1>5. db' = [agents |-> db.agents, messages |-> M, deliveries |-> D,
             idempotency |-> db.idempotency, conversations |-> db.conversations,
             links |-> db.links, counters |-> db.counters, cursors |-> db.cursors]
  BY <1>4 DEF Types, DatabaseType
<1>6. /\ db'.agents = db.agents /\ db'.messages = M /\ db'.deliveries = D
      /\ db'.idempotency = db.idempotency /\ db'.links = db.links
      /\ db'.conversations = db.conversations
      /\ db'.counters = db.counters /\ db'.cursors = db.cursors
  BY <1>5
<1>7. DatabaseType'
  BY <1>1, <1>2, <1>3, <1>5, <1>6 DEF Types, DatabaseType
<1>8. RuntimeType'
  BY DEF Types, RuntimeType
<1>9. FlightType'
  BY DEF Types, FlightType
<1>10. Replies
  <2>1. TimeGoesOn
    BY DEF Types, RuntimeType, TimeGoesOn
  <2> QED
    BY <1>6, <2>1 DEF Replies, M, D
<1> QED
  BY <1>7, <1>8, <1>9, <1>10 DEF Types

\* ack and postEvent of a request that is not terminal.
LEMMA ReplyStep ==
  ASSUME Types, NEW a \in Agents, NEW id \in MessageIDs,
         \/ \E status \in {"accepted", "rejected"} : DurableAck(a, id, status)
         \/ \E type \in {"progress", "final", "error"} : DurableEvent(a, id, type)
  PROVE  Types' /\ Replies
<1>1. /\ \/ \E status \in {"accepted", "rejected"} : Ack(a, id, status)
         \/ \E type \in {"progress", "final", "error"} : PostEvent(a, id, type)
      /\ persistAck(id, messages'[id])
      /\ UNCHANGED <<up, saves, creations, polls, cursors>>
  BY DEF DurableAck, DurableEvent, process, inFlight
<1>2. PICK n \in Message : SetMessage(id, n) /\ Continues(n, messages[id])
  BY <1>1, RepliedContinues DEF Types
<1>3. id \in DOMAIN messages
  BY <1>1, RepliedContinues DEF Types
<1>4. /\ messages' = [messages EXCEPT ![id] = n] /\ messages'[id] = n
      /\ UNCHANGED <<clock, now, agents, idempotency, nextMessageID,
                     nextConversationID>>
  BY <1>2, <1>3 DEF SetMessage
<1> QED
  BY <1>1, <1>2, <1>3, <1>4, PersistStep

\* postEvent of a terminal request still writes the receipt.
LEMMA LateEventStep ==
  ASSUME Types, NEW a \in Agents, NEW id \in MessageIDs, LateEvent(a, id)
  PROVE  Types' /\ Replies
<1>1. /\ id \in DOMAIN messages
      /\ persistAck(id, messages[id])
      /\ UNCHANGED <<clock, now, agents, messages, idempotency, nextMessageID,
                     nextConversationID, up, saves, creations, polls, cursors>>
  BY DEF LateEvent, vars, process, inFlight
<1>2. messages[id] \in Message /\ messages' = [messages EXCEPT ![id] = messages[id]]
  BY <1>1 DEF Types, RuntimeType
<1>3. Continues(messages[id], messages[id])
  BY DEF Continues
<1> QED
  BY <1>1, <1>2, <1>3, PersistStep

\* A step of clients, polls, jobs and claims alone.
LEMMA IdleStep ==
  ASSUME Types, UNCHANGED <<vars, db, up, saves, creations>>,
         \A p \in polls' : PollRecord(p), cursors' \in [Agents -> SUBSET Nat]
  PROVE  Types' /\ MovesMemory
<1>1. UNCHANGED <<clock, now, agents, messages, idempotency, nextMessageID,
                  nextConversationID>>
  BY DEF vars
<1>2. RuntimeType'
  BY <1>1 DEF Types, RuntimeType
<1>3. DatabaseType'
  BY DEF Types, DatabaseType
<1>4. FlightType'
  BY DEF Types, FlightType
<1>5. UNCHANGED DeliveryTables
  BY DEF DeliveryTables
<1> QED
  BY <1>1, <1>2, <1>3, <1>4, <1>5, QuietStep DEF Types

\* ack of a terminal request writes nothing.
LEMMA LateAckStep ==
  ASSUME Types, NEW a \in Agents, NEW id \in MessageIDs, LateAck(a, id)
  PROVE  Types' /\ MovesMemory
<1>1. UNCHANGED <<vars, db, up, saves, creations, polls, cursors>>
  BY DEF LateAck, process, inFlight
<1> QED
  BY <1>1, IdleStep DEF Types, FlightType

(***************************************************************************)
(* Polls                                                                   *)
(***************************************************************************)

\* Max of a bounded set of numbers.
LEMMA MaxIn ==
  ASSUME NEW n \in Nat, NEW S, S \subseteq 0..n, S # {}
  PROVE  Max(S) \in S
<1> DEFINE T == {n - x : x \in S}
<1>1. T \subseteq Nat /\ T # {}
  <2>1. \A x \in S : n - x \in Nat
    OBVIOUS
  <2> QED
    BY <2>1
<1> HIDE DEF T
<1>2. PICK y \in T : \A z \in T : ~(<<z, y>> \in OpToRel(<, Nat))
  BY <1>1, NatLessThanWellFounded, WFMin
<1>3. \A z \in T : y <= z
  <2>1. \A z \in T : ~(z < y)
    BY <1>1, <1>2 DEF OpToRel
  <2> QED
    BY <1>1, <2>1
<1>4. PICK x \in S : y = n - x
  BY DEF T
<1>5. \A z \in S : x >= z
  <2> SUFFICES ASSUME NEW z \in S PROVE x >= z
    OBVIOUS
  <2>1. n - z \in T
    BY DEF T
  <2> QED
    BY <1>3, <1>4, <2>1
<1> QED
  BY <1>5 DEF Max

\* Max and Min of two numbers.
LEMMA MaxMinOfTwo ==
  ASSUME NEW x \in Nat, NEW y \in Nat
  PROVE  /\ Max({x, y}) = IF x >= y THEN x ELSE y
         /\ Min({x, y}) = IF x <= y THEN x ELSE y
<1>1. \E z \in {x, y} : \A w \in {x, y} : z >= w
  OBVIOUS
<1>2. \E z \in {x, y} : \A w \in {x, y} : z <= w
  OBVIOUS
<1>3. Max({x, y}) \in {x, y} /\ \A w \in {x, y} : Max({x, y}) >= w
  BY <1>1 DEF Max
<1>4. Min({x, y}) \in {x, y} /\ \A w \in {x, y} : Min({x, y}) <= w
  BY <1>2 DEF Min
<1> QED
  BY <1>3, <1>4

\* The clamped cursor lies between the acknowledged and the next one.
LEMMA ClampCursorRange ==
  ASSUME Types, NEW a \in Agents, NEW cursor \in Nat
  PROVE  /\ CursorRow(a) \in CursorPair
         /\ ClampCursor(a, cursor) \in Nat
         /\ CursorRow(a).acked <= CursorRow(a).next =>
              /\ CursorRow(a).acked <= ClampCursor(a, cursor)
              /\ ClampCursor(a, cursor) <= CursorRow(a).next
<1>1. CursorRow(a) \in CursorPair
  BY DEF Types, DatabaseType, CursorRow, CursorPair
<1>2. CursorRow(a).next \in Nat /\ CursorRow(a).acked \in Nat
  BY <1>1 DEF CursorPair
<1>3. Max({cursor, CursorRow(a).acked}) =
        IF cursor >= CursorRow(a).acked THEN cursor ELSE CursorRow(a).acked
  BY <1>2, MaxMinOfTwo
<1>4. Max({cursor, CursorRow(a).acked}) \in Nat
  BY <1>2, <1>3
<1>5. ClampCursor(a, cursor) =
        IF Max({cursor, CursorRow(a).acked}) <= CursorRow(a).next
        THEN Max({cursor, CursorRow(a).acked}) ELSE CursorRow(a).next
  BY <1>2, <1>4, MaxMinOfTwo DEF ClampCursor
<1> QED
  BY <1>1, <1>2, <1>3, <1>5

\* The batch of a poll is a sequence of what can be delivered.
LEMMA BatchType ==
  ASSUME Types, NEW a, NEW cursor, NEW ids \in InSeqOrder(Deliverable(a, cursor)),
         NEW limit \in Nat
  PROVE  FirstOf(ids, limit) \in Seq(Deliverable(a, cursor))
<1> DEFINE D == Deliverable(a, cursor)
           events == [k \in DOMAIN ids |-> EventOf(ids[k], db.messages[ids[k]])]
           S == {n \in 0..Len(ids) : /\ n <= MaxInboxEvents
                                     /\ limit > 0 => n <= limit
                                     /\ n > 1 => Bytes(SubSeq(events, 1, n)) <= BatchBytes}
<1>1. D \subseteq 1..MaxMessages
  BY DEF Deliverable, Types, DatabaseType, MessageIDs
<1>2. IsFiniteSet(D)
  <2>1. IsFiniteSet(1..MaxMessages)
    BY Bounds, FS_Interval
  <2> QED
    BY <1>1, <2>1, FS_Subset
<1>3. Cardinality(D) \in Nat
  BY <1>2, FS_CardinalityType
<1>4. ids \in [1..Cardinality(D) -> D]
  BY DEF InSeqOrder, SetToSeqs
<1> HIDE DEF D
<1>5. ids \in Seq(D) /\ Len(ids) \in Nat
  BY <1>3, <1>4
<1>6. 0 \in S
  BY <1>5, ConfigAssumption
<1>7. S \subseteq 0..Len(ids)
  OBVIOUS
<1>8. FirstOf(ids, limit) = SubSeq(ids, 1, Max(S))
  BY DEF FirstOf
<1> HIDE DEF S
<1>9. Max(S) \in 0..Len(ids)
  BY <1>5, <1>6, <1>7, MaxIn
<1> QED
  BY <1>5, <1>8, <1>9 DEF D

\* Offered rows.
LEMMA OfferAllType ==
  ASSUME Types, NEW ids
  PROVE  /\ DOMAIN OfferAll(db.messages, ids) = DOMAIN db.messages
         /\ OfferAll(db.messages, ids) \in [DOMAIN db.messages -> Message]
         /\ \A id \in DOMAIN db.messages :
              \/ OfferAll(db.messages, ids)[id] = db.messages[id]
              \/ OfferAll(db.messages, ids)[id] = Offered(db.messages[id], now)
<1>1. now \in Nat /\ db.messages \in [DOMAIN db.messages -> Message]
  BY DEF Types, RuntimeType, DatabaseType
<1>2. \A id \in DOMAIN db.messages :
        db.messages[id] \in Message /\ Offered(db.messages[id], now) \in Message
  BY <1>1, OfferedContinues
<1> QED
  BY <1>1, <1>2 DEF OfferAll

\* A poll begins.
LEMMA BeginPollStep ==
  ASSUME Types, NEW a \in Agents, NEW cursor \in cursors[a], NEW limit \in Limits,
         BeginPoll(a, cursor, limit)
  PROVE  Types' /\ MovesMemory
<1> DEFINE p == [agent |-> a, cursor |-> cursor, limit |-> limit, phase |-> "read",
                 batch |-> << >>, at |-> << >>, next |-> 0]
<1>1. polls' = polls \cup {p}
      /\ UNCHANGED <<vars, db, up, saves, creations, cursors>>
  BY DEF BeginPoll, process, clients
<1>2. cursor \in Nat /\ limit \in Nat
  BY SqliteAssumption, BackendAssumption DEF Types, FlightType
<1>3. PollRecord(p)
  BY <1>2 DEF PollRecord
<1> HIDE DEF p
<1>4. \A q \in polls' : PollRecord(q)
  BY <1>1, <1>3 DEF Types, FlightType
<1> QED
  BY <1>1, <1>4, IdleStep DEF Types, FlightType

\* A poll that has read its batch.
WithBatch(p, batch, next, at) ==
  [p EXCEPT !.phase = "apply", !.batch = batch, !.next = next, !.at = at]

LEMMA PollUpdate ==
  ASSUME NEW p, PollRecord(p), NEW batch, NEW next, NEW at
  PROVE  WithBatch(p, batch, next, at)
           = [agent |-> p.agent, cursor |-> p.cursor, limit |-> p.limit,
              phase |-> "apply", batch |-> batch, at |-> at, next |-> next]
<1> DEFINE F == {"agent", "cursor", "limit", "phase", "batch", "at", "next"}
           q == [p EXCEPT !.phase = "apply", !.batch = batch, !.next = next,
                          !.at = at]
           r == [agent |-> p.agent, cursor |-> p.cursor, limit |-> p.limit,
                 phase |-> "apply", batch |-> batch, at |-> at, next |-> next]
<1>1. p = [agent |-> p.agent, cursor |-> p.cursor, limit |-> p.limit,
           phase |-> p.phase, batch |-> p.batch, at |-> p.at, next |-> p.next]
  BY DEF PollRecord
<1>2. DOMAIN p = F
  BY <1>1
<1>3. DOMAIN q = F /\ DOMAIN r = F
  BY <1>2
<1>4. \A f \in F : q[f] = r[f]
  <2>1. /\ q.agent = p.agent /\ q.cursor = p.cursor /\ q.limit = p.limit
    BY <1>2
  <2>2. q.phase = "apply" /\ q.batch = batch
    BY <1>2
  <2>3. q.at = at /\ q.next = next
    BY <1>2
  <2>4. /\ r.agent = p.agent /\ r.cursor = p.cursor /\ r.limit = p.limit
        /\ r.phase = "apply" /\ r.batch = batch /\ r.at = at /\ r.next = next
    OBVIOUS
  <2> HIDE DEF q, r
  <2> QED
    BY <2>1, <2>2, <2>3, <2>4
<1>5. q = [f \in F |-> q[f]] /\ r = [f \in F |-> r[f]]
  BY <1>2
<1>6. WithBatch(p, batch, next, at) = q
  BY DEF WithBatch
<1> HIDE DEF q, r
<1>7. q = r
  BY <1>4, <1>5
<1> QED
  BY <1>6, <1>7 DEF r

\* The transaction of a poll.
LEMMA ReadStep ==
  ASSUME Types, NEW p \in polls, readDurableInbox(p)
  PROVE  Types' /\ MovesRows
<1> DEFINE a == p.agent
           c == ClampCursor(a, p.cursor)
           cr == [next |-> CursorRow(a).next, acked |-> c]
           K == Put(db.cursors, a, cr)
           D == IF c > CursorRow(a).acked THEN Settle(db.deliveries, Below(a, c))
                ELSE db.deliveries
<1>1. PollRecord(p) /\ a \in Agents /\ p.cursor \in Nat /\ p.limit \in Nat
  BY DEF Types, FlightType, PollRecord
<1>2. /\ CursorRow(a) \in CursorPair /\ c \in Nat
      /\ CursorRow(a).acked <= CursorRow(a).next =>
           CursorRow(a).acked <= c /\ c <= CursorRow(a).next
  BY <1>1, ClampCursorRange
<1> HIDE DEF c
<1>3. [CursorRow(a) EXCEPT !.acked = c] = cr /\ cr \in CursorPair
  BY <1>2 DEF CursorPair
<1>4. PICK ids, batch, next :
        /\ ids \in InSeqOrder(Deliverable(a, c))
        /\ batch = FirstOf(ids, p.limit)
        /\ next = IF batch = << >> THEN c
                  ELSE db.deliveries[batch[Len(batch)]].seq + 1
        /\ db' = [db EXCEPT !.cursors = K, !.deliveries = D,
                            !.messages = OfferAll(@, ToSet(batch))]
        /\ polls' = (polls \ {p}) \cup
             {[p EXCEPT !.phase = "apply", !.batch = batch, !.next = next,
                        !.at = [id \in ToSet(batch) |-> db'.messages[id].deliveredAt]]}
  BY <1>3 DEF readDurableInbox, c
<1>5. UNCHANGED <<vars, up, saves, creations, cursors>>
  BY DEF readDurableInbox, process, clients
<1> DEFINE M == OfferAll(db.messages, ToSet(batch))
<1>6. /\ DOMAIN M = DOMAIN db.messages /\ M \in [DOMAIN db.messages -> Message]
      /\ \A id \in DOMAIN db.messages :
           M[id] = db.messages[id] \/ M[id] = Offered(db.messages[id], now)
  BY OfferAllType
<1>7. /\ db.messages \in [DOMAIN db.messages -> Message]
      /\ db.deliveries \in [DOMAIN db.deliveries -> Delivery]
      /\ db.cursors \in [DOMAIN db.cursors -> CursorPair]
      /\ DOMAIN db.deliveries \subseteq DOMAIN db.messages
      /\ DOMAIN db.messages \subseteq MessageIDs
  BY DEF Types, DatabaseType
<1>8. /\ DOMAIN D = DOMAIN db.deliveries /\ D \in [DOMAIN D -> Delivery]
      /\ \A id \in DOMAIN db.deliveries :
           /\ D[id].target = db.deliveries[id].target
           /\ D[id].seq = db.deliveries[id].seq
           /\ D[id].status \in Open => db.deliveries[id].status \in Open
      /\ CursorRow(a).acked < c => \A id \in Below(a, c) : D[id].status \notin Open
  <2>1. Below(a, c) \subseteq DOMAIN db.deliveries
    BY DEF Below
  <2>2. CursorRow(a).acked < c <=> c > CursorRow(a).acked
    BY <1>2 DEF CursorPair
  <2>3. CASE c > CursorRow(a).acked
    <3>1. D = Settle(db.deliveries, Below(a, c))
      BY <2>3
    <3> HIDE DEF D
    <3> QED
      BY <1>7, <2>1, <3>1, SettleKeeps
  <2>4. CASE ~(c > CursorRow(a).acked)
    BY <1>7, <2>2, <2>4
  <2> QED
    BY <2>3, <2>4
<1>9. K \in [DOMAIN K -> CursorPair]
  BY <1>3, <1>7 DEF Put
<1> HIDE DEF M, D, K
<1>10. db' = [agents |-> db.agents, messages |-> M, deliveries |-> D,
              idempotency |-> db.idempotency, conversations |-> db.conversations,
              links |-> db.links, counters |-> db.counters, cursors |-> K]
  BY <1>4 DEF Types, DatabaseType, M
<1>11. /\ db'.agents = db.agents /\ db'.messages = M /\ db'.deliveries = D
       /\ db'.idempotency = db.idempotency /\ db'.links = db.links
       /\ db'.conversations = db.conversations
       /\ db'.counters = db.counters /\ db'.cursors = K
  BY <1>10
<1>12. DatabaseType'
  BY <1>6, <1>7, <1>8, <1>9, <1>10, <1>11 DEF Types, DatabaseType
<1>13. RuntimeType'
  BY <1>5 DEF Types, RuntimeType, vars
<1>14. /\ next \in Nat
       /\ [id \in ToSet(batch) |-> db'.messages[id].deliveredAt]
            \in [ToSet(batch) -> Nat]
  <2>1. batch \in Seq(Deliverable(a, c))
    BY <1>1, <1>4, BatchType
  <2>2. \A id \in Deliverable(a, c) : id \in DOMAIN db.deliveries
    BY DEF Deliverable
  <2>3. \A id \in DOMAIN db.deliveries :
          db.deliveries[id].seq \in Nat /\ M[id].deliveredAt \in Nat
    <3>1. \A id \in DOMAIN db.deliveries : db.deliveries[id].seq \in Nat
      BY <1>7 DEF Delivery
    <3>2. \A id \in DOMAIN db.deliveries : M[id] \in Message
      BY <1>6, <1>7
    <3> QED
      BY <3>1, <3>2, MessageTypes
  <2>4. batch # << >> => batch[Len(batch)] \in Deliverable(a, c)
    BY <2>1
  <2>5. next \in Nat
    <3>1. CASE batch = << >>
      BY <1>2, <1>4, <3>1
    <3>2. CASE batch # << >>
      <4> DEFINE last == batch[Len(batch)]
      <4>1. db.deliveries[last].seq \in Nat
        BY <2>2, <2>3, <2>4, <3>2
      <4>2. next = db.deliveries[last].seq + 1
        BY <1>4, <3>2
      <4> HIDE DEF last
      <4> QED
        BY <4>1, <4>2
    <3> QED
      BY <3>1, <3>2
  <2>6. \A id \in ToSet(batch) : id \in Deliverable(a, c)
    BY <2>1 DEF ToSet
  <2> QED
    BY <1>11, <2>2, <2>3, <2>5, <2>6
<1>15. FlightType'
  <2> DEFINE at == [id \in ToSet(batch) |-> db'.messages[id].deliveredAt]
             q == WithBatch(p, batch, next, at)
  <2>1. at \in [ToSet(batch) -> Nat] /\ DOMAIN at = ToSet(batch)
    BY <1>14
  <2>2. polls' = (polls \ {p}) \cup {q}
    BY <1>4 DEF WithBatch
  <2> HIDE DEF at
  <2>3. q = [agent |-> p.agent, cursor |-> p.cursor, limit |-> p.limit,
             phase |-> "apply", batch |-> batch, at |-> at, next |-> next]
    BY <1>1, PollUpdate
  <2> HIDE DEF q
  <2>4. PollRecord(q)
    BY <1>1, <1>14, <2>1, <2>3 DEF PollRecord
  <2>5. \A r \in polls' : PollRecord(r)
    BY <2>2, <2>4 DEF Types, FlightType
  <2> QED
    BY <1>5, <2>5 DEF Types, FlightType
<1>16. CursorsMove
  <2>1. \A id \in Below(a, c) : CursorRow(a).acked < c => db'.deliveries[id].status \notin Open
    BY <1>8, <1>11
  <2>2. db'.cursors = Put(db.cursors, a, [next |-> CursorRow(a).next, acked |-> c])
    BY <1>11 DEF K
  <2> HIDE DEF a, cr
  <2> QED
    BY <1>1, <1>2, <2>1, <2>2 DEF CursorsMove
<1>17. MovesRows
  <2>1. now \in Nat
    BY DEF Types, RuntimeType
  <2> QED
    BY <1>5, <1>6, <1>8, <1>11, <1>16, <2>1 DEF MovesRows
<1> QED
  BY <1>12, <1>13, <1>15, <1>17 DEF Types

\* The runtime copies of offered messages.
LEMMA OfferInMemoryType ==
  ASSUME Types, NEW at, at \in [DOMAIN at -> Nat], OfferInMemory(at)
  PROVE  /\ DOMAIN messages' = DOMAIN messages
         /\ messages' \in [DOMAIN messages' -> Message]
         /\ \A id \in DOMAIN messages : Continues(messages'[id], messages[id])
<1>1. messages \in [DOMAIN messages -> Message]
  BY DEF Types, RuntimeType
<1>2. \A id \in DOMAIN messages : messages[id] \in Message
  BY <1>1
<1>3. \A id \in DOMAIN at : at[id] \in Nat
  OBVIOUS
<1>4. \A id \in DOMAIN messages : id \in DOMAIN at =>
        /\ Offered(messages[id], at[id]) \in Message
        /\ Continues(Offered(messages[id], at[id]), messages[id])
  BY <1>2, <1>3, OfferedContinues
<1>5. \A id \in DOMAIN messages : Continues(messages[id], messages[id])
  BY DEF Continues
<1> QED
  BY <1>1, <1>2, <1>4, <1>5 DEF OfferInMemory

\* A step that offers messages in memory.
LEMMA OfferStep ==
  ASSUME Types, NEW at, at \in [DOMAIN at -> Nat], OfferInMemory(at),
         UNCHANGED <<clock, now, agents, idempotency, nextMessageID,
                     nextConversationID, db, up, saves, creations>>,
         \A p \in polls' : PollRecord(p), cursors' \in [Agents -> SUBSET Nat]
  PROVE  Types' /\ MovesMemory
<1>1. /\ DOMAIN messages' = DOMAIN messages
      /\ messages' \in [DOMAIN messages' -> Message]
      /\ \A id \in DOMAIN messages : Continues(messages'[id], messages[id])
  BY OfferInMemoryType
<1>2. RuntimeType'
  BY <1>1 DEF Types, RuntimeType
<1>3. DatabaseType'
  BY DEF Types, DatabaseType
<1>4. FlightType'
  BY DEF Types, FlightType
<1>5. UNCHANGED DeliveryTables /\ TimeGoesOn
  BY DEF DeliveryTables, TimeGoesOn, Types, RuntimeType
<1> QED
  BY <1>1, <1>2, <1>3, <1>4, <1>5 DEF Types, MovesMemory

\* A poll ends.
LEMMA FinishStep ==
  ASSUME Types, NEW p \in polls, NEW arrives \in BOOLEAN, FinishPoll(p, arrives)
  PROVE  Types' /\ MovesMemory
<1>1. PollRecord(p) /\ p.at \in [DOMAIN p.at -> Nat] /\ p.agent \in Agents /\ p.next \in Nat
  BY DEF Types, FlightType, PollRecord
<1>2. /\ polls' = polls \ {p} /\ OfferInMemory(p.at)
      /\ cursors' = IF ~arrives THEN cursors
                    ELSE [cursors EXCEPT ![p.agent] = @ \cup {p.next}]
      /\ UNCHANGED <<clock, now, agents, idempotency, nextMessageID,
                     nextConversationID, db, up, saves, creations>>
  BY DEF FinishPoll, process
<1>3. \A q \in polls' : PollRecord(q)
  BY <1>2 DEF Types, FlightType
<1>4. cursors' \in [Agents -> SUBSET Nat]
  <2>1. cursors \in [Agents -> SUBSET Nat]
    BY DEF Types, FlightType
  <2>2. cursors[p.agent] \cup {p.next} \in SUBSET Nat
    BY <1>1, <2>1
  <2> QED
    BY <1>2, <2>1, <2>2
<1> QED
  BY <1>1, <1>2, <1>3, <1>4, OfferStep

(***************************************************************************)
(* The delivery loop and the push workers                                  *)
(***************************************************************************)

\* The row s is what became of the row r: it is not opened again.
RowMoves(s, r) ==
  /\ s \in Delivery
  /\ s.target = r.target /\ s.seq = r.seq
  /\ s.status \in Open => r.status \in Open

\* A row with another status and attempt time.
LEMMA RowUpdate ==
  ASSUME NEW r \in Delivery, NEW status \in Open \cup {"received", "failed"},
         NEW at \in Nat, status \in Open => r.status \in Open
  PROVE  /\ RowMoves([r EXCEPT !.status = status, !.nextAttemptAt = at], r)
         /\ RowMoves([r EXCEPT !.status = status], r)
         /\ RowMoves(r, r)
<1>1. [r EXCEPT !.status = status, !.nextAttemptAt = at] \in Delivery
      /\ [r EXCEPT !.status = status] \in Delivery
  BY DEF Delivery
<1>2. /\ [r EXCEPT !.status = status, !.nextAttemptAt = at].target = r.target
      /\ [r EXCEPT !.status = status, !.nextAttemptAt = at].seq = r.seq
      /\ [r EXCEPT !.status = status, !.nextAttemptAt = at].status = status
  BY DEF Delivery
<1>3. /\ [r EXCEPT !.status = status].target = r.target
      /\ [r EXCEPT !.status = status].seq = r.seq
      /\ [r EXCEPT !.status = status].status = status
  BY DEF Delivery
<1> QED
  BY <1>1, <1>2, <1>3 DEF RowMoves

\* Rows whose deadline has passed.
LEMMA FailOverdueType ==
  ASSUME NEW rows, rows \in [DOMAIN rows -> Delivery]
  PROVE  /\ DOMAIN FailOverdue(rows) = DOMAIN rows
         /\ \A id \in DOMAIN rows : RowMoves(FailOverdue(rows)[id], rows[id])
<1>1. \A id \in DOMAIN rows : rows[id] \in Delivery
  OBVIOUS
<1>2. \A r \in Delivery :
        /\ RowMoves([r EXCEPT !.status = "failed", !.nextAttemptAt = 0], r)
        /\ RowMoves(r, r)
  <2> SUFFICES ASSUME NEW r \in Delivery
               PROVE  /\ RowMoves([r EXCEPT !.status = "failed", !.nextAttemptAt = 0], r)
                      /\ RowMoves(r, r)
    OBVIOUS
  <2>1. "failed" \in Open \cup {"received", "failed"} /\ "failed" \notin Open /\ 0 \in Nat
    BY DEF Open
  <2> QED
    BY <2>1, RowUpdate
<1> QED
  BY <1>1, <1>2 DEF FailOverdue

\* Rows of attempts that a restart or a shutdown cuts off.
LEMMA RecoveredType ==
  ASSUME NEW rows, rows \in [DOMAIN rows -> Delivery]
  PROVE  /\ DOMAIN Recovered(rows) = DOMAIN rows
         /\ \A id \in DOMAIN rows : RowMoves(Recovered(rows)[id], rows[id])
<1>1. \A id \in DOMAIN rows : rows[id] \in Delivery
  OBVIOUS
<1>2. \A r \in Delivery : r.status = "attempting" =>
        RowMoves([r EXCEPT !.status = "pending"], r)
  BY RowUpdate DEF Open
<1>3. \A r \in Delivery : RowMoves(r, r)
  BY DEF RowMoves
<1> QED
  BY <1>1, <1>2, <1>3 DEF Recovered

\* A step of the delivery rows and of what messages were offered.
LEMMA RowsStep ==
  ASSUME Types, NEW D, NEW ids,
         db' = [db EXCEPT !.deliveries = D, !.messages = OfferAll(@, ids)],
         D \in [DOMAIN db.deliveries -> Delivery],
         \A id \in DOMAIN db.deliveries : RowMoves(D[id], db.deliveries[id]),
         UNCHANGED <<vars, up, saves, creations, polls, cursors>>
  PROVE  Types' /\ MovesRows
<1> DEFINE M == OfferAll(db.messages, ids)
<1>1. /\ DOMAIN M = DOMAIN db.messages /\ M \in [DOMAIN db.messages -> Message]
      /\ \A id \in DOMAIN db.messages :
           M[id] = db.messages[id] \/ M[id] = Offered(db.messages[id], now)
  BY OfferAllType
<1> HIDE DEF M
<1>2. db' = [agents |-> db.agents, messages |-> M, deliveries |-> D,
             idempotency |-> db.idempotency, conversations |-> db.conversations,
             links |-> db.links, counters |-> db.counters, cursors |-> db.cursors]
  BY DEF Types, DatabaseType, M
<1>3. /\ db'.agents = db.agents /\ db'.messages = M /\ db'.deliveries = D
      /\ db'.idempotency = db.idempotency /\ db'.links = db.links
      /\ db'.conversations = db.conversations
      /\ db'.counters = db.counters /\ db'.cursors = db.cursors
  <2>1. db'.messages = M
    BY <1>2 DEF M
  <2>2. db'.deliveries = D
    BY <1>2
  <2>3. /\ db'.agents = db.agents /\ db'.conversations = db.conversations
    BY <1>2
  <2>4. /\ db'.idempotency = db.idempotency /\ db'.links = db.links
    BY <1>2
  <2>5. /\ db'.counters = db.counters /\ db'.cursors = db.cursors
    BY <1>2
  <2> QED
    BY <2>1, <2>2, <2>3, <2>4, <2>5
<1>4. DOMAIN D = DOMAIN db.deliveries /\ D \in [DOMAIN D -> Delivery]
  OBVIOUS
<1>5. DatabaseType'
  BY <1>1, <1>2, <1>3, <1>4 DEF Types, DatabaseType
<1>6. RuntimeType'
  BY DEF Types, RuntimeType, vars
<1>7. FlightType'
  BY DEF Types, FlightType
<1>8. MovesRows
  <2>1. now \in Nat
    BY DEF Types, RuntimeType
  <2>2. CursorsMove
    BY <1>3 DEF CursorsMove
  <2> QED
    BY <1>1, <1>3, <2>1, <2>2 DEF MovesRows, RowMoves
<1> QED
  BY <1>5, <1>6, <1>7, <1>8 DEF Types

\* The delivery loop claims what is due.
LEMMA ClaimStep ==
  ASSUME Types, claimDuePushes
  PROVE  Types' /\ MovesRows
<1> DEFINE due == {id \in DOMAIN db.deliveries : DueForPush(id)}
           D == [id \in DOMAIN db.deliveries |->
                   IF id \in due THEN [db.deliveries[id] EXCEPT !.status = "attempting"]
                   ELSE FailOverdue(db.deliveries)[id]]
<1>1. /\ db' = [db EXCEPT !.deliveries = D, !.messages = OfferAll(@, due)]
      /\ UNCHANGED <<vars, up, saves, creations, polls, cursors>>
  BY DEF claimDuePushes, process, clients
<1>2. db.deliveries \in [DOMAIN db.deliveries -> Delivery]
  BY DEF Types, DatabaseType
<1>3. \A id \in due : /\ db.deliveries[id] \in Delivery
                      /\ db.deliveries[id].status \in Open
  BY <1>2 DEF DueForPush, Open
<1>4. \A r \in Delivery : r.status \in Open =>
        RowMoves([r EXCEPT !.status = "attempting"], r)
  BY RowUpdate DEF Open
<1>5. \A id \in DOMAIN db.deliveries :
        RowMoves(FailOverdue(db.deliveries)[id], db.deliveries[id])
  BY <1>2, FailOverdueType
<1> HIDE DEF due
<1>6. /\ D \in [DOMAIN db.deliveries -> Delivery]
      /\ \A id \in DOMAIN db.deliveries : RowMoves(D[id], db.deliveries[id])
  <2>1. \A id \in DOMAIN db.deliveries : RowMoves(D[id], db.deliveries[id])
    BY <1>3, <1>4, <1>5
  <2> QED
    BY <2>1 DEF RowMoves
<1> HIDE DEF D
<1> QED
  BY <1>1, <1>6, RowsStep

\* The delivery loop enqueues a claim.
LEMMA EnqueueStep ==
  ASSUME Types, NEW id \in claimed, enqueueClaimedPush(id)
  PROVE  Types' /\ MovesMemory
<1>1. UNCHANGED <<clock, now, agents, inboxes, lastSweepAt, idempotency,
                  conversations, nextMessageID, nextConversationID, db, up,
                  saves, creations, polls, cursors>>
  BY DEF enqueueClaimedPush, process, clients
<1>2. CASE id \in DOMAIN db.messages
  <2> DEFINE at == [m \in {id} |-> db.messages[id].deliveredAt]
  <2>1. OfferInMemory(at)
    BY <1>2 DEF enqueueClaimedPush
  <2>2. db.messages[id] \in Message
    BY <1>2 DEF Types, DatabaseType
  <2>3. at \in [DOMAIN at -> Nat]
    BY <2>2, MessageTypes
  <2> HIDE DEF at
  <2> QED
    BY <1>1, <2>1, <2>3, OfferStep DEF Types, FlightType
<1>3. CASE id \notin DOMAIN db.messages
  <2>1. UNCHANGED vars
    BY <1>1, <1>3 DEF enqueueClaimedPush, vars
  <2> QED
    BY <1>1, <2>1, IdleStep DEF Types, FlightType
<1> QED
  BY <1>2, <1>3

\* A worker has called back.
LEMMA CallbackStep ==
  ASSUME Types, NEW k, NEW phase, NEW arrives, sendPushCallback(k, phase, arrives)
  PROVE  Types' /\ MovesMemory
<1>1. UNCHANGED <<vars, db, up, saves, creations, polls, cursors>>
  BY DEF sendPushCallback, process
<1> QED
  BY <1>1, IdleStep DEF Types, FlightType

\* The receipt of a push.
LEMMA ReceiptMoves ==
  ASSUME Types, NEW job, NEW r \in Delivery, NEW backoff \in PushBackoffs,
         job.phase \in {"ok", "failed"}
  PROVE  RowMoves(PushReceipt(job, r, backoff), r)
<1>1. now \in Nat /\ backoff \in Nat /\ now + backoff \in Nat
  BY SqliteAssumption, BackendAssumption DEF Types, RuntimeType
<1>2. CASE r.status # "attempting"
  BY <1>2 DEF PushReceipt, RowMoves
<1>3. CASE r.status = "attempting" /\ job.phase = "ok"
  <2>1. PushReceipt(job, r, backoff) =
          [r EXCEPT !.status = "received", !.nextAttemptAt = 0]
    BY <1>3 DEF PushReceipt
  <2>2. RowMoves([r EXCEPT !.status = "received", !.nextAttemptAt = 0], r)
    BY RowUpdate DEF Open
  <2> QED
    BY <2>1, <2>2
<1>4. CASE r.status = "attempting" /\ job.phase = "failed"
  <2>1. PushReceipt(job, r, backoff) = FailedAttempt(r, backoff)
    BY <1>4 DEF PushReceipt
  <2>2. RowMoves([r EXCEPT !.status = "failed", !.nextAttemptAt = 0], r)
    BY RowUpdate DEF Open
  <2>3. RowMoves([r EXCEPT !.status = "pending", !.nextAttemptAt = now + backoff], r)
    BY <1>1, <1>4, RowUpdate DEF Open
  <2> QED
    BY <2>1, <2>2, <2>3 DEF FailedAttempt
<1> QED
  BY <1>2, <1>3, <1>4

(***************************************************************************)
(* Push jobs                                                               *)
(***************************************************************************)
Job == [msg : MessageIDs, phase : {"queued", "ok", "failed"}]

JobsType == claimed \subseteq MessageIDs /\ jobs \in Seq(Job)

\* The queue takes a job of a known message.
LEMMA EnqueueType ==
  ASSUME JobsType, NEW id \in MessageIDs, enqueuePushJob(id)
  PROVE  jobs' \in Seq(Job)
<1>1. /\ [msg |-> id, phase |-> "queued"] \in Job
      /\ [msg |-> id, phase |-> "failed"] \in Job
  BY DEF Job
<1> QED
  BY <1>1 DEF JobsType, enqueuePushJob

\* The jobs after every step.
LEMMA JobsStep ==
  ASSUME Types, JobsType, [SqliteNext]_sqliteVars
  PROVE  JobsType'
<1>1. CASE UNCHANGED <<claimed, jobs>>
  BY <1>1 DEF JobsType
<1>2. CASE claimed' = {} /\ jobs' = << >>
  BY <1>2 DEF JobsType
<1>3. ASSUME NEW m, AcceptsMessage(nextMessageID + 1, m), AcceptDurably
      PROVE  JobsType'
  <2>1. nextMessageID + 1 \in MessageIDs /\ claimed' = claimed
    BY <1>3 DEF AcceptsMessage, AcceptDurably
  <2>2. jobs' = jobs \/ enqueuePushJob(nextMessageID + 1)
    BY <1>3 DEF AcceptDurably
  <2> QED
    BY <2>1, <2>2, EnqueueType DEF JobsType
<1>4. CASE claimDuePushes
  <2>1. claimed' \subseteq DOMAIN db.deliveries /\ jobs' = jobs
    BY <1>4 DEF claimDuePushes
  <2>2. DOMAIN db.deliveries \subseteq MessageIDs
    BY DEF Types, DatabaseType
  <2> QED
    BY <2>1, <2>2 DEF JobsType
<1>5. ASSUME NEW id \in claimed, enqueueClaimedPush(id)
      PROVE  JobsType'
  <2>1. claimed' \subseteq claimed /\ (jobs' = jobs \/ enqueuePushJob(id))
    BY <1>5 DEF enqueueClaimedPush
  <2>2. id \in MessageIDs
    BY DEF JobsType
  <2> QED
    BY <2>1, <2>2, EnqueueType DEF JobsType
<1>6. ASSUME NEW k \in DOMAIN jobs, NEW phase \in {"ok", "failed"}, NEW arrives,
             sendPushCallback(k, phase, arrives)
      PROVE  JobsType'
  <2>1. jobs' = [jobs EXCEPT ![k].phase = phase] /\ claimed' = claimed
    BY <1>6 DEF sendPushCallback
  <2>2. jobs[k] \in Job
    BY DEF JobsType
  <2>3. [jobs[k] EXCEPT !.phase = phase] \in Job
    BY <2>2 DEF Job
  <2>4. jobs' \in Seq(Job)
    BY <2>1, <2>3 DEF JobsType
  <2> QED
    BY <2>1, <2>4 DEF JobsType
<1>7. ASSUME NEW k \in DOMAIN jobs, NEW backoff, NEW written,
             recordPush(k, backoff, written)
      PROVE  JobsType'
  <2>1. jobs' = SubSeq(jobs, 1, k - 1) \o SubSeq(jobs, k + 1, Len(jobs))
        /\ claimed' = claimed
    BY <1>7 DEF recordPush, RemoveAt
  <2>2. /\ jobs \in Seq(Job) /\ k \in 1..Len(jobs) /\ Len(jobs) \in Nat
    BY DEF JobsType
  <2>3. SubSeq(jobs, 1, k - 1) \in Seq(Job)
        /\ SubSeq(jobs, k + 1, Len(jobs)) \in Seq(Job)
    BY <2>2
  <2> QED
    BY <2>1, <2>3 DEF JobsType
<1>8. CASE up /\ Runtime
  <2>1. CASE \E from, to \in Agents, req \in RequestIDs, type \in SendTypes,
               choice \in ConversationChoices, ttl \in MessageTTLs, size \in Sizes :
               DurableSend(from, to, req, type, choice, ttl, size)
    BY <1>3, <2>1, SendAcceptsDurably DEF DurableSend, Types
  <2>2. CASE \E to \in Agents \cup {Nobody}, choice \in ConversationChoices,
               size \in Sizes : DurableInject(to, choice, size)
    BY <1>3, <2>2, InjectAcceptsDurably DEF DurableInject, Types
  <2>3. CASE UNCHANGED <<claimed, jobs>>
    BY <1>1, <2>3
  <2> QED
    BY <1>8, <2>1, <2>2, <2>3
    DEF Runtime, inFlight, BeginRegister, saveAgent, BeginCreate, ReadCounters,
        CommitConversation, DurableAck, LateAck, DurableEvent, LateEvent, BeginPoll,
        readDurableInbox, FinishPoll
<1>9. CASE up /\ PushPool
  BY <1>6, <1>7, <1>9 DEF PushPool
<1>10. CASE up /\ ~closing /\ Background
  <2>1. CASE pruneDB
    BY <1>1, <2>1 DEF pruneDB, inFlight
  <2> QED
    BY <1>4, <1>5, <1>10, <2>1 DEF Background
<1>11. CASE closePushWorkers \/ Close \/ Crash \/ Restart
  BY <1>1, <1>2, <1>11 DEF closePushWorkers, Close, Crash, Restart, LoseMemory, inFlight
<1>12. CASE (Tick \/ ReadClock) /\ UNCHANGED <<db, process, inFlight, clients>>
  BY <1>1, <1>12 DEF inFlight
<1>13. CASE UNCHANGED sqliteVars
  BY <1>1, <1>13 DEF sqliteVars, inFlight
<1> QED
  BY <1>8, <1>9, <1>10, <1>11, <1>12, <1>13 DEF SqliteNext

\* The receipt of a push, or the failure to write it.
LEMMA RecordStep ==
  ASSUME Types, JobsType, NEW k \in DOMAIN jobs, NEW backoff \in PushBackoffs,
         NEW written \in BOOLEAN, recordPush(k, backoff, written)
  PROVE  Types' /\ (MovesRows \/ MovesMemory)
<1> DEFINE id == jobs[k].msg
           r == PushReceipt(jobs[k], db.deliveries[id], backoff)
           D == [db.deliveries EXCEPT ![id] = r]
<1>1. /\ UNCHANGED <<vars, up, saves, creations, polls, cursors>>
      /\ k \in DOMAIN jobs \ Queued
      /\ db' = IF written /\ id \in DOMAIN db.deliveries
               THEN [db EXCEPT !.deliveries[id] = PushReceipt(jobs[k], @, backoff)]
               ELSE db
  BY DEF recordPush, process, clients
<1>2. CASE db' = db
  BY <1>1, <1>2, IdleStep DEF Types, FlightType
<1>3. CASE written /\ id \in DOMAIN db.deliveries
  <2>1. jobs[k].phase \in {"ok", "failed"}
    <3>1. jobs[k] \in Job
      BY DEF JobsType
    <3> QED
      BY <1>1, <3>1 DEF Queued, Job
  <2>2. db.deliveries \in [DOMAIN db.deliveries -> Delivery]
    BY DEF Types, DatabaseType
  <2>3. RowMoves(r, db.deliveries[id])
    BY <1>3, <2>1, <2>2, ReceiptMoves
  <2>4. \A i \in DOMAIN db.deliveries : RowMoves(db.deliveries[i], db.deliveries[i])
    BY <2>2 DEF RowMoves
  <2>5. db' = [db EXCEPT !.deliveries = D]
    BY <1>1, <1>3
  <2>6. OfferAll(db.messages, {}) = db.messages
    BY DEF OfferAll, Types, DatabaseType
  <2>7. db = [agents |-> db.agents, messages |-> db.messages,
              deliveries |-> db.deliveries, idempotency |-> db.idempotency,
              conversations |-> db.conversations, links |-> db.links,
              counters |-> db.counters, cursors |-> db.cursors]
    BY DEF Types, DatabaseType
  <2>8. D \in [DOMAIN db.deliveries -> Delivery]
        /\ \A i \in DOMAIN db.deliveries : RowMoves(D[i], db.deliveries[i])
    <3> HIDE DEF r, id
    <3> QED
      BY <2>2, <2>3, <2>4 DEF RowMoves
  <2> HIDE DEF D
  <2>9. db' = [db EXCEPT !.deliveries = D, !.messages = OfferAll(@, {})]
    BY <2>5, <2>6, <2>7
  <2> QED
    BY <1>1, <2>8, <2>9, RowsStep
<1> QED
  BY <1>1, <1>2, <1>3

(***************************************************************************)
(* Pruning, shutdown, crash and restart                                    *)
(***************************************************************************)

\* A pruned database.
LEMMA PrunedType ==
  ASSUME Types, NEW rows, rows \in [DOMAIN db.deliveries -> Delivery],
         \A id \in DOMAIN db.deliveries : RowMoves(rows[id], db.deliveries[id]),
         db' = Pruned(rows), UNCHANGED <<clock, now>>
  PROVE  DatabaseType' /\ Prunes
<1> DEFINE R == FailOverdue(rows)
           msgs == {id \in DOMAIN db.messages :
                      \/ id \in DOMAIN R /\ R[id].status \in Open
                      \/ ~PrunedMessage(db.messages[id])}
           used == {db.messages[id].conv : id \in msgs}
           D == [id \in DOMAIN R \cap msgs |-> R[id]]
           M == [id \in msgs |-> db.messages[id]]
           I == [k \in {k \in DOMAIN db.idempotency : ~StaleEntry(db.idempotency[k])} |->
                   db.idempotency[k]]
           C == [c \in {c \in DOMAIN db.conversations : ~IdleConversation(c, used)} |->
                   db.conversations[c]]
           L == [l \in {l \in DOMAIN db.links : db.links[l] \in msgs} |-> db.links[l]]
<1>1. /\ db.agents \in [DOMAIN db.agents -> Agent]
      /\ db.messages \in [DOMAIN db.messages -> Message]
      /\ db.idempotency \in [DOMAIN db.idempotency -> Issued]
      /\ db.counters \in [conv : Nat, msg : Nat]
      /\ db.cursors \in [DOMAIN db.cursors -> CursorPair]
      /\ DOMAIN db.messages \subseteq MessageIDs
      /\ DOMAIN db.deliveries \subseteq DOMAIN db.messages
      /\ now \in Nat /\ clock \in Nat /\ now <= clock
  BY DEF Types, DatabaseType, RuntimeType
<1>2. /\ DOMAIN R = DOMAIN db.deliveries
      /\ \A id \in DOMAIN R : RowMoves(R[id], db.deliveries[id])
  <2>1. DOMAIN R = DOMAIN rows /\ \A id \in DOMAIN rows : RowMoves(R[id], rows[id])
    BY FailOverdueType
  <2> HIDE DEF R
  <2> QED
    BY <2>1 DEF RowMoves
<1>3. db' = [db EXCEPT !.deliveries = D, !.messages = M, !.idempotency = I,
                       !.conversations = C, !.links = L]
  BY DEF Pruned
<1> HIDE DEF R
<1>4. \A id \in DOMAIN db.messages \ msgs : Past(db.messages[id], clock)
  <2> SUFFICES ASSUME NEW id \in DOMAIN db.messages, id \notin msgs
               PROVE  Past(db.messages[id], clock)
    OBVIOUS
  <2>1. PrunedMessage(db.messages[id]) /\ db.messages[id] \in Message
    BY <1>1
  <2> QED
    BY <1>1, <2>1, PrunedPast
<1>5. DOMAIN M = msgs /\ M \in [DOMAIN M -> Message] /\ msgs \subseteq DOMAIN db.messages
      /\ \A id \in msgs : M[id] = db.messages[id]
  BY <1>1
<1>6. /\ DOMAIN D = DOMAIN R \cap msgs /\ D \in [DOMAIN D -> Delivery]
      /\ \A id \in DOMAIN D : RowMoves(D[id], db.deliveries[id])
  <2> HIDE DEF msgs
  <2> QED
    BY <1>2 DEF RowMoves
<1>7. /\ I \in [DOMAIN I -> Issued]
      /\ \A k \in DOMAIN I : k \in DOMAIN db.idempotency /\ I[k] = db.idempotency[k]
  BY <1>1
<1>8. \A id \in msgs : db.messages[id].conv \in DOMAIN db.conversations =>
                         db.messages[id].conv \in DOMAIN C
  <2>1. \A id \in msgs : db.messages[id].conv \in used
    OBVIOUS
  <2> HIDE DEF used, msgs
  <2> QED
    BY <2>1 DEF IdleConversation
<1> HIDE DEF msgs, D, M, I, C, L
<1>9. db' = [agents |-> db.agents, messages |-> M, deliveries |-> D,
             idempotency |-> I, conversations |-> C, links |-> L,
             counters |-> db.counters, cursors |-> db.cursors]
  BY <1>3 DEF Types, DatabaseType
<1>10. /\ db'.agents = db.agents /\ db'.messages = M /\ db'.deliveries = D
       /\ db'.idempotency = I /\ db'.conversations = C /\ db'.links = L
       /\ db'.counters = db.counters /\ db'.cursors = db.cursors
  BY <1>9
<1>11. DatabaseType'
  BY <1>1, <1>5, <1>6, <1>7, <1>9, <1>10 DEF DatabaseType
<1>12. Prunes
  BY <1>2, <1>4, <1>5, <1>6, <1>7, <1>8, <1>10 DEF Prunes, RowMoves
<1> QED
  BY <1>11, <1>12

\* pruneDB.
LEMMA PruneStep ==
  ASSUME Types, pruneDB
  PROVE  Types' /\ PrunesRows
<1>1. /\ db' = Pruned(db.deliveries)
      /\ UNCHANGED <<vars, up, saves, creations, polls, cursors>>
  BY DEF pruneDB, process, inFlight, clients
<1>2. UNCHANGED <<clock, now>>
  BY <1>1 DEF vars
<1>3. db.deliveries \in [DOMAIN db.deliveries -> Delivery]
  BY DEF Types, DatabaseType
<1>4. \A id \in DOMAIN db.deliveries : RowMoves(db.deliveries[id], db.deliveries[id])
  BY <1>3 DEF RowMoves
<1>5. DatabaseType' /\ Prunes
  BY <1>1, <1>2, <1>3, <1>4, PrunedType
<1>6. RuntimeType' /\ FlightType'
  BY <1>1 DEF Types, RuntimeType, FlightType, vars
<1> QED
  BY <1>1, <1>5, <1>6 DEF Types, PrunesRows

\* The empty function is one into any set.
LEMMA EmptyTypes ==
  /\ << >> \in [DOMAIN << >> -> Agent]
  /\ << >> \in [DOMAIN << >> -> Message]
  /\ << >> \in [DOMAIN << >> -> Issued]
  /\ << >> \in [DOMAIN << >> -> Delivery]
  /\ << >> \in [DOMAIN << >> -> CursorPair]
  /\ DOMAIN << >> = {}
OBVIOUS

\* The memory of the process is gone.
LEMMA LostTypes ==
  ASSUME Types, LoseMemory
  PROVE  RuntimeType' /\ FlightType'
<1>1. /\ agents' = << >> /\ messages' = << >> /\ idempotency' = << >>
      /\ nextMessageID' = 0 /\ nextConversationID' = 0
      /\ saves' = {} /\ creations' = {} /\ polls' = {}
      /\ UNCHANGED <<clock, now, cursors>>
  BY DEF LoseMemory, clients
<1>2. RuntimeType'
  BY <1>1, EmptyTypes DEF Types, RuntimeType
<1> QED
  BY <1>1, <1>2 DEF Types, FlightType

\* A crash leaves the database as it is, Close gives the attempts back.
LEMMA StopStep ==
  ASSUME Types, Close \/ Crash
  PROVE  Types' /\ Stops
<1> DEFINE D == Recovered(db.deliveries)
<1>1. db.deliveries \in [DOMAIN db.deliveries -> Delivery]
  BY DEF Types, DatabaseType
<1>2. /\ DOMAIN D = DOMAIN db.deliveries
      /\ \A id \in DOMAIN db.deliveries : RowMoves(D[id], db.deliveries[id])
  BY <1>1, RecoveredType
<1>3. D \in [DOMAIN D -> Delivery]
  <2>1. D = [id \in DOMAIN db.deliveries |-> D[id]]
    BY DEF Recovered
  <2> HIDE DEF D
  <2> QED
    BY <1>2, <2>1 DEF RowMoves
<1>4. /\ RuntimeType' /\ FlightType'
      /\ UNCHANGED <<clock, now>> /\ up' = FALSE /\ messages' = << >>
  BY LostTypes DEF Close, Crash, LoseMemory
<1>5. CASE Crash
  <2>1. db' = db
    BY <1>5 DEF Crash
  <2>2. DatabaseType'
    BY <2>1 DEF Types, DatabaseType
  <2>3. Stops
    BY <1>4, <2>1 DEF Stops
  <2> QED
    BY <1>4, <2>2, <2>3 DEF Types
<1>6. CASE Close
  <2>1. db' = [db EXCEPT !.deliveries = D]
    BY <1>6 DEF Close
  <2> HIDE DEF D
  <2>2. db' = [agents |-> db.agents, messages |-> db.messages, deliveries |-> D,
               idempotency |-> db.idempotency, conversations |-> db.conversations,
               links |-> db.links, counters |-> db.counters, cursors |-> db.cursors]
    BY <2>1 DEF Types, DatabaseType
  <2>3. /\ db'.agents = db.agents /\ db'.messages = db.messages /\ db'.deliveries = D
        /\ db'.idempotency = db.idempotency /\ db'.links = db.links
        /\ db'.conversations = db.conversations
        /\ db'.counters = db.counters /\ db'.cursors = db.cursors
    BY <2>2
  <2>4. DatabaseType'
    BY <1>2, <1>3, <2>2, <2>3 DEF Types, DatabaseType
  <2>5. Stops
    BY <1>2, <1>4, <2>3 DEF Stops, RowMoves
  <2> QED
    BY <1>4, <2>4, <2>5 DEF Types
<1> QED
  BY <1>5, <1>6

\* NewSQLiteStore on the database that is there.
LEMMA RestartStep ==
  ASSUME Types, Restart
  PROVE  Types' /\ Starts
<1> DEFINE D == Recovered(db.deliveries)
<1>1. /\ db' = Pruned(D) /\ UNCHANGED <<clock, now, saves, creations, polls, cursors>>
      /\ agents' = db'.agents /\ messages' = db'.messages
      /\ idempotency' = db'.idempotency
      /\ nextMessageID' = db'.counters.msg /\ nextConversationID' = db'.counters.conv
  BY DEF Restart, LoadedMessageID, inFlight, clients
<1>2. db.deliveries \in [DOMAIN db.deliveries -> Delivery]
  BY DEF Types, DatabaseType
<1>3. /\ DOMAIN D = DOMAIN db.deliveries
      /\ \A id \in DOMAIN db.deliveries : RowMoves(D[id], db.deliveries[id])
  BY <1>2, RecoveredType
<1>4. D \in [DOMAIN db.deliveries -> Delivery]
  <2>1. D = [id \in DOMAIN db.deliveries |-> D[id]]
    BY DEF Recovered
  <2> HIDE DEF D
  <2> QED
    BY <1>3, <2>1 DEF RowMoves
<1> HIDE DEF D
<1>5. DatabaseType' /\ Prunes
  BY <1>1, <1>3, <1>4, PrunedType
<1>6. /\ db'.agents \in [DOMAIN db'.agents -> Agent]
      /\ db'.messages \in [DOMAIN db'.messages -> Message]
      /\ db'.idempotency \in [DOMAIN db'.idempotency -> Issued]
      /\ db'.counters.msg \in Nat /\ db'.counters.conv \in Nat
  BY <1>5 DEF DatabaseType
<1>7. RuntimeType'
  BY <1>1, <1>6 DEF Types, RuntimeType
<1>8. FlightType'
  BY <1>1 DEF Types, FlightType
<1> QED
  BY <1>1, <1>5, <1>7, <1>8 DEF Types, Starts

(***************************************************************************)
(* Every step                                                              *)
(***************************************************************************)

\* The initial state.
LEMMA InitTypes ==
  ASSUME SqliteInit
  PROVE  Types /\ JobsType
<1>1. RuntimeType
  BY EmptyTypes DEF SqliteInit, Init, RuntimeType
<1>2. db = [agents |-> << >>, messages |-> << >>, deliveries |-> << >>,
            idempotency |-> << >>, conversations |-> << >>, links |-> << >>,
            counters |-> [conv |-> 0, msg |-> 0], cursors |-> << >>]
  BY DEF SqliteInit, EmptyDatabase
<1>3. /\ db.agents = << >> /\ db.messages = << >> /\ db.deliveries = << >>
      /\ db.idempotency = << >> /\ db.conversations = << >> /\ db.links = << >>
      /\ db.counters = [conv |-> 0, msg |-> 0] /\ db.cursors = << >>
  BY <1>2, Tables
<1>4. DatabaseType
  BY <1>2, <1>3, EmptyTypes DEF DatabaseType
<1>5. FlightType /\ JobsType
  BY DEF SqliteInit, NothingInFlight, FlightType, JobsType
<1> QED
  BY <1>1, <1>4, <1>5 DEF Types

\* Every step is of one of the kinds, or leaves everything alone.
LEMMA StepLemma ==
  ASSUME Types, JobsType, [SqliteNext]_sqliteVars
  PROVE  Types' /\ SqliteKinds
<1>1. CASE (Tick \/ ReadClock) /\ UNCHANGED <<db, process, inFlight, clients>>
  BY <1>1, TimeStep DEF SqliteKinds
<1>2. CASE up /\ Runtime
  <2>1. CASE Sweep /\ UNCHANGED <<db, process, inFlight, clients>>
    BY <2>1, SweepStep DEF SqliteKinds
  <2>2. CASE \E a \in Agents, ttl \in RegistrationTTLs, mode \in Modes :
               BeginRegister(a, ttl, mode)
    BY <2>2, RegisterStep DEF SqliteKinds
  <2>3. CASE \E save \in saves, written \in BOOLEAN : saveAgent(save, written)
    BY <2>3, SaveStep DEF SqliteKinds
  <2>4. CASE \E actor \in Agents \cup {Nobody}, choice \in ConversationChoices,
               names \in ParticipantChoices : BeginCreate(actor, choice, names)
    BY <2>4, CreateStep DEF SqliteKinds
  <2>5. CASE \E c \in creations : ReadCounters(c) \/ CommitConversation(c)
    BY <2>5, CountersStep, CommitStep DEF SqliteKinds
  <2>6. CASE \E from, to \in Agents, req \in RequestIDs, type \in SendTypes,
               choice \in ConversationChoices, ttl \in MessageTTLs, size \in Sizes :
               DurableSend(from, to, req, type, choice, ttl, size)
    <3>1. AcceptDurably /\ \E m : AcceptsMessage(nextMessageID + 1, m)
      BY <2>6, SendAcceptsDurably DEF DurableSend, Types
    <3> QED
      BY <3>1, AcceptStep DEF SqliteKinds
  <2>7. CASE \E to \in Agents \cup {Nobody}, choice \in ConversationChoices,
               size \in Sizes : DurableInject(to, choice, size)
    <3>1. AcceptDurably /\ \E m : AcceptsMessage(nextMessageID + 1, m)
      BY <2>7, InjectAcceptsDurably DEF DurableInject, Types
    <3> QED
      BY <3>1, AcceptStep DEF SqliteKinds
  <2>8. CASE \E a \in Agents, id \in MessageIDs :
               \/ \E status \in {"accepted", "rejected"} : DurableAck(a, id, status)
               \/ \E type \in {"progress", "final", "error"} : DurableEvent(a, id, type)
    BY <2>8, ReplyStep DEF SqliteKinds
  <2>9. CASE \E a \in Agents, id \in MessageIDs : LateAck(a, id) \/ LateEvent(a, id)
    BY <2>9, LateAckStep, LateEventStep DEF SqliteKinds
  <2>10. CASE \E a \in Agents, limit \in Limits : \E cursor \in cursors[a] :
                BeginPoll(a, cursor, limit)
    BY <2>10, BeginPollStep DEF SqliteKinds
  <2>11. CASE \E p \in polls : readDurableInbox(p)
    BY <2>11, ReadStep DEF SqliteKinds
  <2>12. CASE \E p \in polls, arrives \in BOOLEAN : FinishPoll(p, arrives)
    BY <2>12, FinishStep DEF SqliteKinds
  <2> QED
    BY <1>2, <2>1, <2>2, <2>3, <2>4, <2>5, <2>6, <2>7, <2>8, <2>9, <2>10, <2>11,
       <2>12 DEF Runtime
<1>3. CASE up /\ PushPool
  BY <1>3, CallbackStep, RecordStep DEF PushPool, SqliteKinds
<1>4. CASE up /\ ~closing /\ Background
  BY <1>4, ClaimStep, EnqueueStep, PruneStep DEF Background, SqliteKinds
<1>5. CASE closePushWorkers
  <2>1. UNCHANGED <<vars, db, up, saves, creations, polls, cursors>>
    BY <1>5 DEF closePushWorkers, inFlight, clients
  <2> QED
    BY <2>1, IdleStep DEF Types, FlightType, SqliteKinds
<1>6. CASE Close \/ Crash
  BY <1>6, StopStep DEF SqliteKinds
<1>7. CASE Restart
  BY <1>7, RestartStep DEF SqliteKinds
<1>8. CASE UNCHANGED sqliteVars
  <2>1. UNCHANGED <<vars, db, up, saves, creations, polls, cursors>>
    BY <1>8 DEF sqliteVars, process, inFlight, clients
  <2> QED
    BY <2>1, IdleStep DEF Types, FlightType, SqliteKinds
<1> QED
  BY <1>1, <1>2, <1>3, <1>4, <1>5, <1>6, <1>7, <1>8 DEF SqliteNext

\* The types hold in every state, and every step is of one of the kinds.
LEMMA TypesInvariant == SqliteSpec => [](Types /\ JobsType)
<1>1. SqliteInit => Types /\ JobsType
  BY InitTypes
<1>2. Types /\ JobsType /\ [SqliteNext]_sqliteVars => (Types /\ JobsType)'
  BY StepLemma, JobsStep
<1> QED
  BY <1>1, <1>2, PTL DEF SqliteSpec

(***************************************************************************)
(* Work taken up                                                           *)
(***************************************************************************)

WasTakenUp(m) == m.type = "request" /\ m.state \in {"executing"} \cup TerminalStates

\* An offered message is taken up only if it was before.
LEMMA OfferedNotTakenUp ==
  ASSUME NEW m \in Message, NEW t \in Nat, WasTakenUp(Offered(m, t))
  PROVE  WasTakenUp(m)
BY OfferedContinues DEF WasTakenUp, TerminalStates

\* No step redelivers what its recipient has taken up.
LEMMA TakenUpStep ==
  ASSUME Types, Types', SqliteKinds, TakenUpNotRedelivered,
         NEW id \in DOMAIN db'.deliveries, WasTakenUp(db'.messages[id])
  PROVE  db'.deliveries[id].status \notin Open
<1>1. /\ db.messages \in [DOMAIN db.messages -> Message]
      /\ db.deliveries \in [DOMAIN db.deliveries -> Delivery]
      /\ DOMAIN db.deliveries \subseteq DOMAIN db.messages
      /\ now \in Nat
  BY DEF Types, DatabaseType, RuntimeType
<1>2. \A i \in DOMAIN db.deliveries :
        WasTakenUp(db.messages[i]) => db.deliveries[i].status \notin Open
  BY DEF TakenUpNotRedelivered, WasTakenUp
<1>3. CASE AcceptsDurably
  <2>1. PICK i \in Nat, m \in Message :
          /\ db'.messages = Put(db.messages, i, m)
          /\ m.type = "request" => m.state \notin {"executing"} \cup TerminalStates
          /\ IF m.to = Nobody THEN db'.deliveries = db.deliveries
             ELSE /\ i \notin DOMAIN db.deliveries
                  /\ db'.deliveries = Put(db.deliveries, i, NewDelivery(m))
    BY <1>3 DEF AcceptsDurably
  <2>2. ~WasTakenUp(m)
    BY <2>1 DEF WasTakenUp
  <2>3. db'.messages[i] = m
    BY <2>1 DEF Put
  <2>4. id # i
    BY <2>2, <2>3
  <2>5. id \in DOMAIN db.deliveries /\ db'.deliveries[id] = db.deliveries[id]
    BY <2>1, <2>4 DEF Put
  <2>6. db'.messages[id] = db.messages[id]
    BY <1>1, <2>1, <2>4, <2>5 DEF Put
  <2> QED
    BY <1>2, <2>5, <2>6
<1>4. CASE Replies
  <2>1. PICK i \in DOMAIN messages, n \in Message :
          /\ db'.messages = Put(db.messages, i, n)
          /\ db'.deliveries = Settle(db.deliveries, {i})
    BY <1>4 DEF Replies
  <2>2. /\ id \in DOMAIN db.deliveries
        /\ db'.deliveries[id].status \in Open => db.deliveries[id].status \in Open
        /\ id = i => db'.deliveries[id].status \notin Open
    BY <1>1, <2>1, SettleKeeps
  <2>3. id # i => db'.messages[id] = db.messages[id]
    BY <1>1, <2>1, <2>2 DEF Put
  <2> QED
    BY <1>2, <2>2, <2>3
<1>5. CASE MovesMemory
  BY <1>2, <1>5 DEF MovesMemory, DeliveryTables
<1>6. CASE MovesRows
  <2>1. /\ id \in DOMAIN db.deliveries /\ id \in DOMAIN db.messages
        /\ db.messages[id] \in Message
        /\ db'.deliveries[id].status \in Open => db.deliveries[id].status \in Open
        /\ \/ db'.messages[id] = db.messages[id]
           \/ \E t \in Nat : db'.messages[id] = Offered(db.messages[id], t)
    BY <1>1, <1>6 DEF MovesRows
  <2>2. WasTakenUp(db.messages[id])
    BY <2>1, OfferedNotTakenUp
  <2> QED
    BY <1>2, <2>1, <2>2
<1>7. CASE Prunes
  <2>1. /\ id \in DOMAIN db.deliveries
        /\ db'.deliveries[id].status \in Open => db.deliveries[id].status \in Open
    BY <1>7 DEF Prunes
  <2>2. id \in DOMAIN db'.messages
    BY DEF Types, DatabaseType
  <2>3. db'.messages[id] = db.messages[id]
    BY <1>7, <2>2 DEF Prunes
  <2> QED
    BY <1>2, <2>1, <2>3
<1>8. CASE Stops
  BY <1>2, <1>8 DEF Stops
<1> QED
  BY <1>3, <1>4, <1>5, <1>6, <1>7, <1>8 DEF SqliteKinds, PrunesRows, Starts

(* Work that its recipient has taken up or finished is not redelivered, in *)
(* every state: ack and postEvent write the state of the message and the   *)
(* receipt of its delivery in one transaction (persistAck), no poll or     *)
(* claim moves a message past waiting_ack, and no push receipt, recovery   *)
(* or pruning opens a delivery again.                                      *)
THEOREM TakenUpNotRedeliveredHolds == SqliteSpec => []TakenUpNotRedelivered
<1>1. SqliteInit => TakenUpNotRedelivered
  BY DEF SqliteInit, EmptyDatabase, TakenUpNotRedelivered
<1>2. Types /\ JobsType /\ TakenUpNotRedelivered /\ [SqliteNext]_sqliteVars =>
        TakenUpNotRedelivered'
  <2> SUFFICES ASSUME Types, JobsType, TakenUpNotRedelivered,
                      [SqliteNext]_sqliteVars
               PROVE  TakenUpNotRedelivered'
    OBVIOUS
  <2>1. Types' /\ SqliteKinds
    BY StepLemma
  <2>2. \A id \in DOMAIN db'.deliveries :
          WasTakenUp(db'.messages[id]) => db'.deliveries[id].status \notin Open
    BY <2>1, TakenUpStep
  <2> QED
    BY <2>2 DEF TakenUpNotRedelivered, WasTakenUp
<1> QED
  BY <1>1, <1>2, TypesInvariant, PTL DEF SqliteSpec

(***************************************************************************)
(* Retries                                                                 *)
(***************************************************************************)

\* Every durable key of the window, given the tables and the time.
KnownKeys(durable, known, t) ==
  \A k \in DOMAIN durable :
    t - durable[k].at <= IdempotencyWindow =>
      k \in DOMAIN known /\ known[k] = durable[k]

\* No step of a running process forgets a durable key of the window.
LEMMA KeysStep ==
  ASSUME Types, Types', SqliteKinds, up', up => KnownKeys(db.idempotency, idempotency, clock)
  PROVE  KnownKeys(db'.idempotency, idempotency', clock')
<1>1. /\ db.idempotency \in [DOMAIN db.idempotency -> Issued]
      /\ clock \in Nat /\ clock' \in Nat /\ IdempotencyWindow \in Nat
  BY RetentionTypes DEF Types, DatabaseType, RuntimeType
<1>2. \A k \in DOMAIN db.idempotency : db.idempotency[k].at \in Nat
  BY <1>1 DEF Issued
<1>3. CASE AcceptsDurably
  <2>1. /\ up /\ clock <= clock'
        /\ \/ idempotency' = idempotency /\ db'.idempotency = db.idempotency
           \/ \E key, e : /\ idempotency' = Put(idempotency, key, e)
                          /\ db'.idempotency = Put(db.idempotency, key, e)
    BY <1>3 DEF AcceptsDurably, TimeGoesOn
  <2>2. KnownKeys(db.idempotency, idempotency, clock')
    BY <1>1, <1>2, <2>1 DEF KnownKeys
  <2>3. ASSUME NEW key, NEW e, idempotency' = Put(idempotency, key, e),
               db'.idempotency = Put(db.idempotency, key, e)
        PROVE  KnownKeys(db'.idempotency, idempotency', clock')
    BY <2>2, <2>3 DEF KnownKeys, Put
  <2> QED
    BY <2>1, <2>2, <2>3
<1>4. CASE Replies
  <2>1. /\ up /\ clock <= clock'
        /\ idempotency' = idempotency /\ db'.idempotency = db.idempotency
    BY <1>4 DEF Replies, TimeGoesOn
  <2> QED
    BY <1>1, <1>2, <2>1 DEF KnownKeys
<1>5. CASE MovesMemory
  <2>1. /\ up /\ clock <= clock' /\ db'.idempotency = db.idempotency
        /\ \A k \in DOMAIN idempotency :
             \/ k \in DOMAIN idempotency' /\ idempotency'[k] = idempotency[k]
             \/ clock - idempotency[k].at > IdempotencyWindow
    BY <1>5 DEF MovesMemory, TimeGoesOn, DeliveryTables
  <2> SUFFICES ASSUME NEW k \in DOMAIN db.idempotency,
                      clock' - db.idempotency[k].at <= IdempotencyWindow
               PROVE  k \in DOMAIN idempotency' /\ idempotency'[k] = db.idempotency[k]
    BY <2>1 DEF KnownKeys
  <2>2. clock - db.idempotency[k].at <= IdempotencyWindow
    BY <1>1, <1>2, <2>1
  <2>3. k \in DOMAIN idempotency /\ idempotency[k] = db.idempotency[k]
    BY <2>1, <2>2 DEF KnownKeys
  <2>4. ~(clock - idempotency[k].at > IdempotencyWindow)
    BY <1>1, <1>2, <2>2, <2>3
  <2> QED
    BY <2>1, <2>3, <2>4
<1>6. CASE MovesRows
  BY <1>6 DEF MovesRows, KnownKeys, vars
<1>7. CASE PrunesRows
  BY <1>7 DEF PrunesRows, Prunes, KnownKeys, vars
<1>8. CASE Stops
  BY <1>8 DEF Stops
<1>9. CASE Starts
  BY <1>9 DEF Starts, KnownKeys
<1> QED
  BY <1>3, <1>4, <1>5, <1>6, <1>7, <1>8, <1>9 DEF SqliteKinds

(* A retry within the window is answered with the original message.  The   *)
(* entry is written to both tables by persistAcceptance, pruneDB and the   *)
(* sweep drop it only when the window is over, and NewSQLiteStore loads    *)
(* the durable table before it serves the first call.                      *)
THEOREM RetriesFindOriginalHolds == SqliteSpec => []RetriesFindOriginal
<1> DEFINE Known == up => KnownKeys(db.idempotency, idempotency, clock)
<1>1. SqliteInit => Known
  BY DEF SqliteInit, EmptyDatabase, KnownKeys
<1>2. Types /\ JobsType /\ Known /\ [SqliteNext]_sqliteVars => Known'
  <2> SUFFICES ASSUME Types, JobsType, Known, [SqliteNext]_sqliteVars
               PROVE  Known'
    OBVIOUS
  <2>1. Types' /\ SqliteKinds
    BY StepLemma
  <2>2. up' => KnownKeys(db'.idempotency, idempotency', clock')
    BY <2>1, KeysStep
  <2> QED
    BY <2>2
<1>3. Types /\ Known => RetriesFindOriginal
  <2> SUFFICES ASSUME Types, Known, up, NEW key \in DOMAIN db.idempotency,
                      clock - db.idempotency[key].at <= IdempotencyWindow
               PROVE  Duplicate(key) /\ idempotency[key] = db.idempotency[key]
    BY DEF RetriesFindOriginal
  <2>1. key \in DOMAIN idempotency /\ idempotency[key] = db.idempotency[key]
    BY DEF KnownKeys
  <2>2. /\ db.idempotency[key].at \in Nat /\ IdempotencyWindow \in Nat
        /\ now \in Nat /\ clock \in Nat /\ now <= clock
    BY RetentionTypes DEF Types, DatabaseType, RuntimeType, Issued
  <2> QED
    BY <2>1, <2>2 DEF Duplicate
<1> HIDE DEF Known
<1> QED
  BY <1>1, <1>2, <1>3, TypesInvariant, PTL DEF SqliteSpec

(***************************************************************************)
(* Messages and their conversations                                        *)
(***************************************************************************)


\* A runtime copy is what became of its row; without a row its time is over.
Covers ==
  \A id \in DOMAIN messages :
    \/ /\ id \in DOMAIN db.messages
       /\ Continues(messages[id], db.messages[id])
    \/ id \notin DOMAIN db.messages /\ Past(messages[id], clock)

Kept ==
  \A id \in DOMAIN db.messages :
    \/ db.messages[id].conv \in DOMAIN db.conversations
    \/ Past(db.messages[id], clock)

\* The types of the messages of both tables, and the time.
LEMMA BothTypes ==
  ASSUME Types
  PROVE  /\ \A id \in DOMAIN messages : messages[id] \in Message
         /\ \A id \in DOMAIN db.messages : db.messages[id] \in Message
         /\ clock \in Nat /\ now \in Nat /\ now <= clock
BY DEF Types, RuntimeType, DatabaseType

\* Time going on ends no retention that is over.
LEMMA PastLater ==
  ASSUME NEW m \in Message, NEW t \in Nat, NEW u \in Nat, t <= u, Past(m, t)
  PROVE  Past(m, u)
<1>1. Continues(m, m)
  BY DEF Continues
<1> QED
  BY <1>1, PastStays

\* Runtime copies follow their rows, row by row.
LEMMA CoversStep ==
  ASSUME Types, Types', SqliteKinds, Covers, NEW id \in DOMAIN messages'
  PROVE  \/ /\ id \in DOMAIN db'.messages
            /\ Continues(messages'[id], db'.messages[id])
         \/ id \notin DOMAIN db'.messages /\ Past(messages'[id], clock')
<1>1. /\ \A i \in DOMAIN messages : messages[i] \in Message
      /\ \A i \in DOMAIN db.messages : db.messages[i] \in Message
      /\ clock \in Nat /\ now \in Nat
  BY BothTypes
<1>2. messages'[id] \in Message /\ clock' \in Nat
  BY DEF Types, RuntimeType
<1>3. CASE AcceptsDurably
  <2>1. PICK i \in Nat, m \in Message : /\ messages' = Put(messages, i, m)
                                        /\ db'.messages = Put(db.messages, i, m)
    BY <1>3 DEF AcceptsDurably
  <2>2. clock <= clock'
    BY <1>3 DEF AcceptsDurably, TimeGoesOn
  <2>3. CASE id = i
    BY <2>1, <2>3 DEF Put, Continues
  <2>4. CASE id # i
    <3>1. id \in DOMAIN messages /\ messages'[id] = messages[id]
      BY <2>1, <2>4 DEF Put
    <3>2. /\ id \in DOMAIN db'.messages <=> id \in DOMAIN db.messages
          /\ id \in DOMAIN db.messages => db'.messages[id] = db.messages[id]
      BY <2>1, <2>4 DEF Put
    <3>3. CASE id \in DOMAIN db.messages
      BY <3>1, <3>2, <3>3 DEF Covers
    <3>4. CASE id \notin DOMAIN db.messages
      BY <1>1, <1>2, <2>2, <3>1, <3>2, <3>4, PastLater DEF Covers
    <3> QED
      BY <3>3, <3>4
  <2> QED
    BY <2>3, <2>4
<1>4. CASE Replies
  <2>1. PICK i \in DOMAIN messages, n \in Message :
          /\ messages' = [messages EXCEPT ![i] = n]
          /\ db'.messages = Put(db.messages, i, n)
    BY <1>4 DEF Replies
  <2>2. clock <= clock'
    BY <1>4 DEF Replies, TimeGoesOn
  <2>3. CASE id = i
    BY <2>1, <2>3 DEF Put, Continues
  <2>4. CASE id # i
    <3>1. id \in DOMAIN messages /\ messages'[id] = messages[id]
      BY <2>1, <2>4
    <3>2. /\ id \in DOMAIN db'.messages <=> id \in DOMAIN db.messages
          /\ id \in DOMAIN db.messages => db'.messages[id] = db.messages[id]
      BY <2>1, <2>4 DEF Put
    <3>3. CASE id \in DOMAIN db.messages
      BY <3>1, <3>2, <3>3 DEF Covers
    <3>4. CASE id \notin DOMAIN db.messages
      BY <1>1, <1>2, <2>2, <3>1, <3>2, <3>4, PastLater DEF Covers
    <3> QED
      BY <3>3, <3>4
  <2> QED
    BY <2>3, <2>4
<1>5. CASE MovesMemory
  <2>1. /\ id \in DOMAIN messages /\ Continues(messages'[id], messages[id])
        /\ db'.messages = db.messages /\ clock <= clock'
    BY <1>5 DEF MovesMemory, DeliveryTables, TimeGoesOn
  <2>2. CASE id \in DOMAIN db.messages
    <3>1. Continues(messages[id], db.messages[id])
      BY <2>1, <2>2 DEF Covers
    <3> QED
      BY <2>1, <2>2, <3>1, ContinuesOn
  <2>3. CASE id \notin DOMAIN db.messages
    <3>1. Past(messages[id], clock)
      BY <2>1, <2>3 DEF Covers
    <3> QED
      BY <1>1, <1>2, <2>1, <2>3, <3>1, PastStays
  <2> QED
    BY <2>2, <2>3
<1>6. CASE MovesRows
  <2>1. /\ id \in DOMAIN messages /\ messages'[id] = messages[id] /\ clock' = clock
        /\ DOMAIN db'.messages = DOMAIN db.messages
    BY <1>6 DEF MovesRows, vars
  <2>2. CASE id \in DOMAIN db.messages
    <3>1. Continues(messages[id], db.messages[id]) /\ db.messages[id] \in Message
      BY <1>1, <2>1, <2>2 DEF Covers
    <3>2. CASE db'.messages[id] = db.messages[id]
      BY <2>1, <2>2, <3>1, <3>2
    <3>3. CASE \E t \in Nat : db'.messages[id] = Offered(db.messages[id], t)
      <4>1. Continues(db.messages[id], db'.messages[id])
        BY <3>1, <3>3, OfferedContinues
      <4> QED
        BY <2>1, <2>2, <3>1, <4>1, ContinuesOn
    <3> QED
      BY <1>6, <2>2, <3>2, <3>3 DEF MovesRows
  <2>3. CASE id \notin DOMAIN db.messages
    BY <2>1, <2>3 DEF Covers
  <2> QED
    BY <2>2, <2>3
<1>7. CASE PrunesRows
  <2>1. /\ id \in DOMAIN messages /\ messages'[id] = messages[id] /\ clock' = clock
        /\ DOMAIN db'.messages \subseteq DOMAIN db.messages
    BY <1>7 DEF PrunesRows, Prunes, vars
  <2>2. CASE id \in DOMAIN db.messages
    <3>1. Continues(messages[id], db.messages[id]) /\ db.messages[id] \in Message
      BY <1>1, <2>1, <2>2 DEF Covers
    <3>2. CASE id \in DOMAIN db'.messages
      BY <1>7, <2>1, <2>2, <3>1, <3>2 DEF PrunesRows, Prunes
    <3>3. CASE id \notin DOMAIN db'.messages
      <4>1. Past(db.messages[id], clock)
        BY <1>7, <2>2, <3>3 DEF PrunesRows, Prunes
      <4>2. clock <= clock
        BY <1>1
      <4> QED
        BY <1>1, <1>2, <2>1, <3>1, <3>3, <4>1, <4>2, PastStays
    <3> QED
      BY <3>2, <3>3
  <2>3. CASE id \notin DOMAIN db.messages
    BY <2>1, <2>3 DEF Covers
  <2> QED
    BY <2>2, <2>3
<1>8. CASE Stops
  BY <1>8, EmptyTypes DEF Stops
<1>9. CASE Starts
  BY <1>9 DEF Starts, Continues
<1> QED
  BY <1>3, <1>4, <1>5, <1>6, <1>7, <1>8, <1>9 DEF SqliteKinds

\* Rows keep their conversation, or their time is over.
LEMMA KeptStep ==
  ASSUME Types, Types', SqliteKinds, Covers, Kept, NEW id \in DOMAIN db'.messages
  PROVE  \/ db'.messages[id].conv \in DOMAIN db'.conversations
         \/ Past(db'.messages[id], clock')
<1>1. /\ \A i \in DOMAIN messages : messages[i] \in Message
      /\ \A i \in DOMAIN db.messages : db.messages[i] \in Message
      /\ clock \in Nat /\ now \in Nat
  BY BothTypes
<1>2. db'.messages[id] \in Message /\ clock' \in Nat
  BY DEF Types, RuntimeType, DatabaseType
<1>3. ASSUME id \in DOMAIN db.messages, clock <= clock',
             Continues(db'.messages[id], db.messages[id]),
             DOMAIN db.conversations \subseteq DOMAIN db'.conversations
      PROVE  \/ db'.messages[id].conv \in DOMAIN db'.conversations
             \/ Past(db'.messages[id], clock')
  <2>1. CASE db.messages[id].conv \in DOMAIN db.conversations
    BY <1>3, <2>1 DEF Continues
  <2>2. CASE Past(db.messages[id], clock)
    BY <1>1, <1>2, <1>3, <2>2, PastStays
  <2> QED
    BY <1>3, <2>1, <2>2 DEF Kept
<1>4. Continues(db.messages[id], db.messages[id])
  BY DEF Continues
<1>5. CASE AcceptsDurably
  <2>1. PICK i \in Nat, m \in Message :
          /\ db'.messages = Put(db.messages, i, m)
          /\ DOMAIN db'.conversations = DOMAIN db.conversations \cup {m.conv}
    BY <1>5 DEF AcceptsDurably
  <2>2. clock <= clock'
    BY <1>5 DEF AcceptsDurably, TimeGoesOn
  <2>3. CASE id = i
    BY <2>1, <2>3 DEF Put
  <2>4. CASE id # i
    <3>1. id \in DOMAIN db.messages /\ db'.messages[id] = db.messages[id]
      BY <2>1, <2>4 DEF Put
    <3> QED
      BY <1>3, <1>4, <2>1, <2>2, <3>1
  <2> QED
    BY <2>3, <2>4
<1>6. CASE Replies
  <2>1. PICK i \in DOMAIN messages, n \in Message :
          /\ Continues(n, messages[i])
          /\ db'.messages = Put(db.messages, i, n)
    BY <1>6 DEF Replies
  <2>2. clock <= clock' /\ db'.conversations = db.conversations
    BY <1>6 DEF Replies, TimeGoesOn
  <2>3. CASE id = i /\ i \in DOMAIN db.messages
    <3>1. Continues(messages[i], db.messages[i]) /\ db'.messages[id] = n
      BY <2>1, <2>3 DEF Covers, Put
    <3>2. Continues(n, db.messages[id])
      BY <2>1, <2>3, <3>1, ContinuesOn
    <3> QED
      BY <1>3, <2>2, <2>3, <3>1, <3>2
  <2>4. CASE id = i /\ i \notin DOMAIN db.messages
    <3>1. Past(messages[i], clock) /\ db'.messages[id] = n
      BY <2>1, <2>4 DEF Covers, Put
    <3>2. Past(n, clock')
      BY <1>1, <1>2, <2>1, <2>2, <3>1, PastStays
    <3> QED
      BY <3>1, <3>2
  <2>5. CASE id # i
    <3>1. id \in DOMAIN db.messages /\ db'.messages[id] = db.messages[id]
      BY <2>1, <2>5 DEF Put
    <3> QED
      BY <1>3, <1>4, <2>2, <3>1
  <2> QED
    BY <2>3, <2>4, <2>5
<1>7. CASE MovesMemory
  BY <1>3, <1>4, <1>7 DEF MovesMemory, DeliveryTables, TimeGoesOn
<1>8. CASE MovesRows
  <2>1. /\ id \in DOMAIN db.messages /\ clock' = clock
        /\ db'.conversations = db.conversations
        /\ \/ db'.messages[id] = db.messages[id]
           \/ \E t \in Nat : db'.messages[id] = Offered(db.messages[id], t)
    BY <1>8 DEF MovesRows, vars
  <2>2. Continues(db'.messages[id], db.messages[id])
    BY <1>1, <1>4, <2>1, OfferedContinues
  <2> QED
    BY <1>1, <1>3, <2>1, <2>2
<1>9. CASE Prunes
  <2>1. /\ id \in DOMAIN db.messages /\ db'.messages[id] = db.messages[id]
        /\ clock' = clock
        /\ db.messages[id].conv \in DOMAIN db.conversations =>
             db.messages[id].conv \in DOMAIN db'.conversations
    BY <1>9 DEF Prunes
  <2> QED
    BY <2>1 DEF Kept
<1>10. CASE Stops
  BY <1>10 DEF Stops, Kept
<1> QED
  BY <1>5, <1>6, <1>7, <1>8, <1>9, <1>10 DEF SqliteKinds, PrunesRows, Starts

(* A message row that is kept can be found: it has its conversation row, or *)
(* pruneDB deletes it as soon as it runs.  What makes this inductive is     *)
(* that a runtime copy whose row pruneDB has deleted is itself out of       *)
(* retention, so an ack or event that writes it back (saveMessageTo, ON     *)
(* CONFLICT) brings back nothing whose time is not over.                    *)
THEOREM MessageHasConversationHolds == SqliteSpec => []MessageHasConversation
<1>1. SqliteInit => Covers /\ Kept
  BY DEF SqliteInit, Init, EmptyDatabase, Covers, Kept
<1>2. Types /\ JobsType /\ Covers /\ Kept /\ [SqliteNext]_sqliteVars =>
        Covers' /\ Kept'
  <2> SUFFICES ASSUME Types, JobsType, Covers, Kept, [SqliteNext]_sqliteVars
               PROVE  Covers' /\ Kept'
    OBVIOUS
  <2>1. Types' /\ SqliteKinds
    BY StepLemma
  <2>2. \A id \in DOMAIN messages' :
          \/ /\ id \in DOMAIN db'.messages
             /\ Continues(messages'[id], db'.messages[id])
          \/ id \notin DOMAIN db'.messages /\ Past(messages'[id], clock')
    BY <2>1, CoversStep
  <2>3. \A id \in DOMAIN db'.messages :
          \/ db'.messages[id].conv \in DOMAIN db'.conversations
          \/ Past(db'.messages[id], clock')
    BY <2>1, KeptStep
  <2> QED
    BY <2>2, <2>3 DEF Covers, Kept
<1>3. Kept => MessageHasConversation
  BY DEF Kept, MessageHasConversation, Past, OutOfRetention
<1> QED
  BY <1>1, <1>2, <1>3, TypesInvariant, PTL DEF SqliteSpec

(***************************************************************************)
(* Pull cursors                                                            *)
(***************************************************************************)

\* A cursor row is in order, and what lies below it is settled.
CursorsInOrder ==
  \A a \in DOMAIN db.cursors :
    /\ db.cursors[a].acked <= db.cursors[a].next
    /\ \A id \in DOMAIN db.deliveries :
         /\ db.deliveries[id].target = a
         /\ db.deliveries[id].seq < db.cursors[a].acked
         => db.deliveries[id].status \notin Open

\* The same of an agent that may not have a row yet.
LEMMA CursorRowInOrder ==
  ASSUME Types, CursorsInOrder, NEW a
  PROVE  /\ CursorRow(a) \in CursorPair
         /\ CursorRow(a).acked <= CursorRow(a).next
         /\ \A id \in DOMAIN db.deliveries :
              /\ db.deliveries[id].target = a
              /\ db.deliveries[id].seq < CursorRow(a).acked
              => db.deliveries[id].status \notin Open
<1>1. /\ db.cursors \in [DOMAIN db.cursors -> CursorPair]
      /\ db.deliveries \in [DOMAIN db.deliveries -> Delivery]
  BY DEF Types, DatabaseType
<1>2. \A id \in DOMAIN db.deliveries : db.deliveries[id].seq \in Nat
  BY <1>1 DEF Delivery
<1>3. CASE a \in DOMAIN db.cursors
  <2>1. CursorRow(a) = db.cursors[a] /\ CursorRow(a) \in CursorPair
    BY <1>1, <1>3 DEF CursorRow
  <2> QED
    BY <1>3, <2>1 DEF CursorsInOrder
<1>4. CASE a \notin DOMAIN db.cursors
  <2>1. CursorRow(a) = [next |-> 0, acked |-> 0]
    BY <1>4 DEF CursorRow
  <2>2. CursorRow(a) \in CursorPair /\ CursorRow(a).next = 0 /\ CursorRow(a).acked = 0
    BY <2>1 DEF CursorPair
  <2> QED
    BY <1>2, <2>2
<1> QED
  BY <1>3, <1>4

\* Rows that only move and cursors that stay keep their order.
LEMMA SettledStays ==
  ASSUME CursorsInOrder, db'.cursors = db.cursors,
         DOMAIN db'.deliveries \subseteq DOMAIN db.deliveries,
         \A id \in DOMAIN db'.deliveries :
           /\ db'.deliveries[id].target = db.deliveries[id].target
           /\ db'.deliveries[id].seq = db.deliveries[id].seq
           /\ db'.deliveries[id].status \in Open => db.deliveries[id].status \in Open
  PROVE  CursorsInOrder'
BY DEF CursorsInOrder

\* No acknowledged cursor moves back.
CursorsGrow ==
  \A a \in DOMAIN db.cursors :
    a \in DOMAIN db'.cursors /\ db.cursors[a].acked <= db'.cursors[a].acked

\* No step moves an acknowledged cursor back or opens what lies below one.
LEMMA CursorsStep ==
  ASSUME Types, Types', SqliteKinds, CursorsInOrder
  PROVE  CursorsInOrder' /\ CursorsGrow
<1>1. /\ db.cursors \in [DOMAIN db.cursors -> CursorPair]
      /\ db.deliveries \in [DOMAIN db.deliveries -> Delivery]
  BY DEF Types, DatabaseType
<1>2. \A a \in DOMAIN db.cursors : db.cursors[a].acked \in Nat
  BY <1>1 DEF CursorPair
<1>3. db'.cursors = db.cursors => CursorsGrow
  BY <1>2 DEF CursorsGrow
<1>4. CASE AcceptsDurably
  <2>1. PICK i \in Nat, m \in Message :
          IF m.to = Nobody
          THEN db'.deliveries = db.deliveries /\ db'.cursors = db.cursors
          ELSE /\ i \notin DOMAIN db.deliveries
               /\ db'.deliveries = Put(db.deliveries, i, NewDelivery(m))
               /\ db'.cursors = Put(db.cursors, m.to,
                                    [next  |-> CursorRow(m.to).next + 1,
                                     acked |-> CursorRow(m.to).acked])
    BY <1>4 DEF AcceptsDurably
  <2>2. CASE m.to = Nobody
    BY <1>3, <2>1, <2>2 DEF CursorsInOrder
  <2>3. CASE m.to # Nobody
    <3> DEFINE d == NewDelivery(m)
               r == CursorRow(m.to)
               cr == [next |-> r.next + 1, acked |-> r.acked]
    <3>1. /\ db'.deliveries = Put(db.deliveries, i, d)
          /\ db'.cursors = Put(db.cursors, m.to, cr)
          /\ i \notin DOMAIN db.deliveries
      BY <2>1, <2>3
    <3>2. d.target = m.to /\ d.seq = r.next
      BY DEF NewDelivery
    <3>3. r \in CursorPair /\ r.acked <= r.next
      BY CursorRowInOrder
    <3>4. \A id \in DOMAIN db.deliveries :
            db.deliveries[id].target = m.to /\ db.deliveries[id].seq < r.acked =>
              db.deliveries[id].status \notin Open
      BY CursorRowInOrder
    <3>5. m.to \in DOMAIN db.cursors => r = db.cursors[m.to]
      BY DEF CursorRow
    <3>6. r.acked \in Nat /\ r.next \in Nat /\ cr.acked = r.acked /\ cr.next = r.next + 1
      BY <3>3 DEF CursorPair
    <3> HIDE DEF d, r, cr
    <3>7. CursorsGrow
      BY <1>2, <3>1, <3>5, <3>6 DEF CursorsGrow, Put
    <3>8. ASSUME NEW a \in DOMAIN db'.cursors
          PROVE  /\ db'.cursors[a].acked <= db'.cursors[a].next
                 /\ \A id \in DOMAIN db'.deliveries :
                      /\ db'.deliveries[id].target = a
                      /\ db'.deliveries[id].seq < db'.cursors[a].acked
                      => db'.deliveries[id].status \notin Open
      <4>1. CASE a = m.to
        <5>1. db'.cursors[a] = cr
          BY <3>1, <4>1 DEF Put
        <5>2. cr.acked <= cr.next /\ ~(r.next < r.acked)
          BY <3>3, <3>6
        <5>3. \A id \in DOMAIN db'.deliveries :
                \/ db'.deliveries[id] = d
                \/ id \in DOMAIN db.deliveries /\ db'.deliveries[id] = db.deliveries[id]
          BY <3>1 DEF Put
        <5> QED
          BY <3>2, <3>4, <3>6, <4>1, <5>1, <5>2, <5>3
      <4>2. CASE a # m.to
        <5>1. a \in DOMAIN db.cursors /\ db'.cursors[a] = db.cursors[a]
          BY <3>1, <4>2 DEF Put
        <5>2. \A id \in DOMAIN db'.deliveries :
                \/ db'.deliveries[id] = d
                \/ id \in DOMAIN db.deliveries /\ db'.deliveries[id] = db.deliveries[id]
          BY <3>1 DEF Put
        <5> QED
          BY <3>2, <4>2, <5>1, <5>2 DEF CursorsInOrder
      <4> QED
        BY <4>1, <4>2
    <3> QED
      BY <3>7, <3>8 DEF CursorsInOrder
  <2> QED
    BY <2>2, <2>3
<1>5. CASE Replies
  <2>1. PICK i \in DOMAIN messages : db'.deliveries = Settle(db.deliveries, {i})
    BY <1>5 DEF Replies
  <2>2. db'.cursors = db.cursors
    BY <1>5 DEF Replies
  <2>3. /\ DOMAIN db'.deliveries \subseteq DOMAIN db.deliveries
        /\ \A id \in DOMAIN db'.deliveries :
             /\ db'.deliveries[id].target = db.deliveries[id].target
             /\ db'.deliveries[id].seq = db.deliveries[id].seq
             /\ db'.deliveries[id].status \in Open => db.deliveries[id].status \in Open
    BY <1>1, <2>1, SettleKeeps
  <2> QED
    BY <1>3, <2>2, <2>3, SettledStays
<1>6. CASE MovesMemory
  <2>1. db'.cursors = db.cursors /\ db'.deliveries = db.deliveries
    BY <1>6 DEF MovesMemory, DeliveryTables
  <2> QED
    BY <1>3, <2>1 DEF CursorsInOrder
<1>7. CASE MovesRows
  <2>1. /\ DOMAIN db'.deliveries \subseteq DOMAIN db.deliveries
        /\ \A id \in DOMAIN db'.deliveries :
             /\ db'.deliveries[id].target = db.deliveries[id].target
             /\ db'.deliveries[id].seq = db.deliveries[id].seq
             /\ db'.deliveries[id].status \in Open => db.deliveries[id].status \in Open
    BY <1>7 DEF MovesRows
  <2>2. CASE db'.cursors = db.cursors
    BY <1>3, <2>1, <2>2, SettledStays
  <2>3. ASSUME NEW a \in Agents, NEW c \in Nat,
               db'.cursors = Put(db.cursors, a, [next  |-> CursorRow(a).next,
                                                 acked |-> c]),
               CursorRow(a).acked <= CursorRow(a).next =>
                 CursorRow(a).acked <= c /\ c <= CursorRow(a).next,
               CursorRow(a).acked < c =>
                 \A id \in Below(a, c) : db'.deliveries[id].status \notin Open
        PROVE  CursorsInOrder' /\ CursorsGrow
    <3> DEFINE r == CursorRow(a)
               cr == [next |-> r.next, acked |-> c]
    <3>1. db'.cursors = Put(db.cursors, a, cr)
      BY <2>3
    <3>2. /\ r \in CursorPair
          /\ r.acked <= r.next
          /\ \A id \in DOMAIN db.deliveries :
               db.deliveries[id].target = a /\ db.deliveries[id].seq < r.acked =>
                 db.deliveries[id].status \notin Open
      BY CursorRowInOrder
    <3>3. r.acked <= c /\ c <= r.next
      BY <2>3, <3>2
    <3>4. a \in DOMAIN db.cursors => r = db.cursors[a]
      BY DEF CursorRow
    <3>5. r.acked \in Nat /\ r.next \in Nat /\ cr.acked = c /\ cr.next = r.next
      BY <3>2 DEF CursorPair
    <3>6. ASSUME NEW id \in DOMAIN db'.deliveries, db'.deliveries[id].target = a,
                 db'.deliveries[id].seq < c
          PROVE  db'.deliveries[id].status \notin Open
      <4>1. /\ id \in DOMAIN db.deliveries /\ db.deliveries[id].target = a
            /\ db.deliveries[id].seq < c
        BY <2>1, <3>6
      <4>2. CASE r.acked < c
        BY <2>3, <4>1, <4>2 DEF Below
      <4>3. CASE r.acked = c
        BY <2>1, <3>2, <4>1, <4>3
      <4> QED
        BY <3>3, <3>5, <4>2, <4>3
    <3> HIDE DEF r, cr
    <3>7. CursorsGrow
      BY <1>2, <3>1, <3>3, <3>4, <3>5 DEF CursorsGrow, Put
    <3>8. ASSUME NEW b \in DOMAIN db'.cursors
          PROVE  /\ db'.cursors[b].acked <= db'.cursors[b].next
                 /\ \A id \in DOMAIN db'.deliveries :
                      /\ db'.deliveries[id].target = b
                      /\ db'.deliveries[id].seq < db'.cursors[b].acked
                      => db'.deliveries[id].status \notin Open
      <4>1. CASE b = a
        <5>1. db'.cursors[b] = cr
          BY <3>1, <4>1 DEF Put
        <5> QED
          BY <3>3, <3>5, <3>6, <4>1, <5>1
      <4>2. CASE b # a
        <5>1. b \in DOMAIN db.cursors /\ db'.cursors[b] = db.cursors[b]
          BY <3>1, <4>2 DEF Put
        <5> QED
          BY <2>1, <5>1 DEF CursorsInOrder
      <4> QED
        BY <4>1, <4>2
    <3> QED
      BY <3>7, <3>8 DEF CursorsInOrder
  <2> QED
    BY <1>7, <2>2, <2>3 DEF MovesRows, CursorsMove
<1>8. CASE Prunes
  BY <1>3, <1>8, SettledStays DEF Prunes
<1>9. CASE Stops
  BY <1>3, <1>9, SettledStays DEF Stops
<1> QED
  BY <1>4, <1>5, <1>6, <1>7, <1>8, <1>9 DEF SqliteKinds, PrunesRows, Starts

(* Pull cursors stay meaningful, in every step: a poll with an old cursor   *)
(* is clamped to the acknowledged one, one with a new cursor settles what   *)
(* lies below it in the same transaction, an accepted message is numbered   *)
(* at or past it, and no crash, restart or pruning touches a cursor row.    *)
THEOREM CursorsAdvanceHolds == SqliteSpec => CursorsAdvance
<1> DEFINE P == \A a \in DOMAIN db.cursors :
                  /\ a \in DOMAIN db'.cursors
                  /\ db.cursors[a].acked <= db'.cursors[a].acked
                  /\ db'.cursors[a].acked <= db'.cursors[a].next
                  /\ \A id \in DOMAIN db'.deliveries :
                       /\ db'.deliveries[id].target = a
                       /\ db'.deliveries[id].seq < db'.cursors[a].acked
                       => db'.deliveries[id].status \notin Open
<1>1. SqliteInit => CursorsInOrder
  BY DEF SqliteInit, EmptyDatabase, CursorsInOrder
<1>2. Types /\ JobsType /\ CursorsInOrder /\ [SqliteNext]_sqliteVars =>
        CursorsInOrder' /\ [P]_sqliteVars
  <2> SUFFICES ASSUME Types, JobsType, CursorsInOrder, [SqliteNext]_sqliteVars
               PROVE  CursorsInOrder' /\ P
    OBVIOUS
  <2>1. Types' /\ SqliteKinds
    BY StepLemma
  <2>2. CursorsInOrder' /\ CursorsGrow
    BY <2>1, CursorsStep
  <2> QED
    BY <2>2 DEF CursorsInOrder, CursorsGrow
<1>3. CursorsAdvance <=> [][P]_sqliteVars
  BY DEF CursorsAdvance
<1> HIDE DEF P
<1> QED
  BY <1>1, <1>2, <1>3, TypesInvariant, PTL DEF SqliteSpec


(***************************************************************************)
(*                                                                         *)
(* Deliveries: what the backend promises of them as long as the committed  *)
(* message counter never moves back.                                       *)
(*                                                                         *)
(* The code does move it back: CreateConversation may commit counters it   *)
(* has read before a concurrent send (sqlite.go 877-917; CountersCover-    *)
(* Messages fails).  After a restart ids are then handed out again, a new  *)
(* message can take the id of one whose push job is still under way, and   *)
(* neither theorem holds.  The hypothesis leaves everything else alone:    *)
(* conversations are created, and their counters written late.             *)
(*                                                                         *)
(***************************************************************************)

\* No step commits an older message counter.
CountersNeverGoBack == [][db.counters.msg <= db'.counters.msg]_sqliteVars

CountersKept == db.counters.msg <= db'.counters.msg

(***************************************************************************)
(* The inductive invariant                                                 *)
(***************************************************************************)
NextSeq(table, a) == IF a \in DOMAIN table THEN table[a].next ELSE 0

\* Open deliveries of a below c have arrived or are past their deadline.
CoveredTo(rows, a, c, got, t) ==
  \A id \in DOMAIN rows :
    /\ rows[id].target = a /\ rows[id].seq < c
    /\ rows[id].status \in Open
    => id \in got \/ rows[id].expiresAt <= t

\* Ids are numbered by the committed counter, which memory agrees with.
Numbers ==
  /\ up => nextMessageID = db.counters.msg
  /\ ~up => /\ DOMAIN messages = {}
            /\ creations = {} /\ polls = {} /\ claimed = {} /\ jobs = << >>
  /\ \A id \in DOMAIN db.messages : id <= db.counters.msg
  /\ \A id \in DOMAIN messages : id \in Nat /\ id <= db.counters.msg
  /\ \A c \in creations :
       c.counters # << >> => c.counters[2] <= nextMessageID

\* A delivery is claimed, or has one job, or neither; a job that succeeded
\* has delivered its message.
PushQueue ==
  /\ \A k \in DOMAIN jobs :
       /\ jobs[k].msg \notin claimed
       /\ jobs[k].msg <= db.counters.msg
       /\ jobs[k].phase = "ok" => jobs[k].msg \in arrived
  /\ \A id \in claimed : id <= db.counters.msg
  /\ OnePushPerDelivery

\* Sequence numbers of an inbox are used once.
Numbering ==
  \A i \in DOMAIN db.deliveries :
    /\ db.deliveries[i].seq < NextSeq(db.cursors, db.deliveries[i].target)
    /\ \A j \in DOMAIN db.deliveries :
         /\ db.deliveries[i].target = db.deliveries[j].target
         /\ db.deliveries[i].seq = db.deliveries[j].seq
         => i = j

\* A client's cursor lies above what it has, and so will the cursor of a
\* response that is on its way.
Returned ==
  /\ \A a \in Agents : \A c \in cursors[a] :
       /\ c <= NextSeq(db.cursors, a)
       /\ CoveredTo(db.deliveries, a, c, arrived, clock)
  /\ \A p \in polls :
       /\ p.cursor \in cursors[p.agent]
       /\ p.phase = "apply" =>
            /\ p.next <= NextSeq(db.cursors, p.agent)
            /\ CoveredTo(db.deliveries, p.agent, p.next,
                         arrived \cup ToSet(p.batch), clock)

DeliveryInv ==
  /\ Types /\ JobsType /\ CursorsInOrder
  /\ Numbers /\ PushQueue /\ Numbering /\ Returned

(***************************************************************************)
(* What a step does to the delivery rows                                   *)
(***************************************************************************)
\* One row before (r) and after (s) a step: settled rows stay settled, a row
\* is received with proof and fails after its deadline.
RowStep(id, r, s, got, t) ==
  /\ s.target = r.target /\ s.seq = r.seq /\ s.expiresAt = r.expiresAt
  /\ r.status \notin Open => s.status = r.status
  /\ r.status \in Open /\ s.status = "received" =>
       id \in got \/ r.expiresAt <= t
  /\ r.status \in Open /\ s.status = "failed" => r.expiresAt <= t

\* A step that adds no row, gives no id away, and receives what is in got.
RowsMoved(got) ==
  /\ clock <= clock' /\ arrived \subseteq arrived'
  /\ db'.counters.msg = db.counters.msg
  /\ DOMAIN db'.deliveries \subseteq DOMAIN db.deliveries
  /\ \A id \in DOMAIN db'.deliveries :
       RowStep(id, db.deliveries[id], db'.deliveries[id], got, clock)
  /\ \A id \in DOMAIN db.deliveries \ DOMAIN db'.deliveries :
       \/ db.deliveries[id].status \notin Open
       \/ db.deliveries[id].expiresAt <= clock
  /\ \A a \in Agents : NextSeq(db'.cursors, a) = NextSeq(db.cursors, a)

RowsMove == RowsMoved(arrived')

\* A step that accepts message m with a new id.
RowAdded(id, m) ==
  /\ clock' = clock /\ arrived' = arrived
  /\ id = db.counters.msg + 1 /\ db'.counters.msg = id
  /\ db'.messages = Put(db.messages, id, m)
  /\ IF m.to = Nobody
     THEN db'.deliveries = db.deliveries /\ db'.cursors = db.cursors
     ELSE /\ db'.deliveries = Put(db.deliveries, id, NewDelivery(m))
          /\ db'.cursors = Put(db.cursors, m.to,
                               [next  |-> CursorRow(m.to).next + 1,
                                acked |-> CursorRow(m.to).acked])

\* What most steps leave alone: the ids that are given away, ...
KeepsNumbers ==
  /\ up' = up /\ nextMessageID' = nextMessageID
  /\ DOMAIN messages' \subseteq DOMAIN messages
  /\ DOMAIN db'.messages \subseteq DOMAIN db.messages \cup DOMAIN messages
  /\ \A c \in creations' :
       \/ c \in creations \/ c.counters = << >>
       \/ c.counters[2] = nextMessageID

\* ... the push jobs, ...
KeepsPush ==
  /\ claimed' = claimed /\ jobs' = jobs
  /\ \A id \in DOMAIN db'.deliveries :
       db'.deliveries[id].status = "pending" => db.deliveries[id].status = "pending"

\* ... and what clients know.
KeepsClients ==
  /\ cursors' = cursors
  /\ \A p \in polls' :
       \/ p \in polls
       \/ p.phase = "read" /\ p.cursor \in cursors[p.agent]

\* Steps of these kinds.
Ordinary == RowsMove /\ KeepsNumbers /\ KeepsPush /\ KeepsClients

ReadsAs(got) ==
  /\ RowsMoved(got) /\ KeepsNumbers /\ KeepsPush /\ cursors' = cursors
  /\ \E p, q :
       /\ p \in polls /\ polls' = (polls \ {p}) \cup {q}
       /\ q.agent = p.agent /\ q.agent \in Agents /\ q.cursor = p.cursor
       /\ q.next <= NextSeq(db'.cursors, q.agent)
       /\ CoveredTo(db'.deliveries, q.agent, q.next, ToSet(q.batch), clock)

ReadsBatch == ReadsAs(arrived')

Answers ==
  /\ RowsMove /\ KeepsNumbers /\ KeepsPush
  /\ \E p \in polls :
       /\ p.phase = "apply" /\ polls' = polls \ {p}
       /\ \/ cursors' = cursors
          \/ /\ cursors' = [cursors EXCEPT ![p.agent] = @ \cup {p.next}]
             /\ ToSet(p.batch) \subseteq arrived'

Claims ==
  /\ RowsMove /\ KeepsNumbers /\ KeepsClients
  /\ claimed = {} /\ jobs' = jobs
  /\ \A id \in claimed' :
       /\ id \in DOMAIN db.deliveries /\ db.deliveries[id].status = "pending"
       /\ db'.deliveries[id].status # "pending"
  /\ \A id \in DOMAIN db'.deliveries :
       db'.deliveries[id].status = "pending" => db.deliveries[id].status = "pending"

Enqueues ==
  /\ RowsMove /\ KeepsNumbers /\ KeepsClients
  /\ db'.deliveries = db.deliveries
  /\ \E id \in claimed :
       /\ claimed' = claimed \ {id}
       /\ \/ jobs' = jobs
          \/ \E phase \in {"queued", "failed"} :
               jobs' = Append(jobs, [msg |-> id, phase |-> phase])

CallsBack ==
  /\ RowsMove /\ KeepsNumbers /\ KeepsClients
  /\ db'.deliveries = db.deliveries /\ claimed' = claimed
  /\ \E k \in DOMAIN jobs, phase \in {"ok", "failed"} :
       /\ jobs' = [jobs EXCEPT ![k].phase = phase]
       /\ phase = "ok" => jobs[k].msg \in arrived'

Records ==
  /\ RowsMove /\ KeepsNumbers /\ KeepsClients
  /\ claimed' = claimed
  /\ \E k \in DOMAIN jobs :
       /\ jobs' = RemoveAt(jobs, k)
       /\ \A id \in DOMAIN db'.deliveries :
            /\ db'.deliveries[id].status = "pending"
            /\ id # jobs[k].msg
            => db.deliveries[id].status = "pending"

Ends ==
  /\ RowsMove /\ KeepsClients
  /\ DOMAIN db'.messages \subseteq DOMAIN db.messages
  /\ creations' = {} /\ claimed' = {} /\ jobs' = << >>
  /\ \/ /\ ~up' /\ DOMAIN messages' = {} /\ polls' = {}
     \/ /\ up' /\ messages' = db'.messages
        /\ nextMessageID' = db'.counters.msg

AcceptsOne ==
  \E id \in Nat, m \in Message :
    /\ RowAdded(id, m)
    /\ UNCHANGED <<up, creations, polls, claimed, cursors>>
    /\ nextMessageID' = id
    /\ DOMAIN messages' = DOMAIN messages \cup {id}
    /\ \/ jobs' = jobs
       \/ /\ m.to # Nobody => NewDelivery(m).status = "attempting"
          /\ \E phase \in {"queued", "failed"} :
               jobs' = Append(jobs, [msg |-> id, phase |-> phase])

\* While the process is down only time goes on, until it starts.
DeliveryKinds ==
  \/ Ordinary /\ UNCHANGED inFlight
  \/ up /\ (\/ Ordinary \/ ReadsBatch \/ Answers \/ Claims \/ Enqueues
            \/ CallsBack \/ Records \/ AcceptsOne)
  \/ Ends

(***************************************************************************)
(* Steps that leave the delivery rows alone                                *)
(***************************************************************************)
\* Rows, their types and what is known of their fields.
LEMMA RowTypes ==
  ASSUME Types
  PROVE  /\ clock \in Nat /\ now \in Nat /\ now <= clock
         /\ db.counters.msg \in Nat
         /\ \A id \in DOMAIN db.deliveries :
              /\ db.deliveries[id] \in Delivery
              /\ db.deliveries[id].seq \in Nat
              /\ db.deliveries[id].expiresAt \in Nat
              /\ db.deliveries[id].target \in Agents
              /\ db.deliveries[id].status \in Open \cup {"received", "failed"}
              /\ id \in 1..MaxMessages /\ id \in DOMAIN db.messages
         /\ \A a : NextSeq(db.cursors, a) \in Nat
<1>1. \A id \in DOMAIN db.deliveries :
        db.deliveries[id] \in Delivery /\ id \in 1..MaxMessages /\ id \in DOMAIN db.messages
  BY DEF Types, DatabaseType, MessageIDs
<1>2. \A a : NextSeq(db.cursors, a) \in Nat
  BY DEF Types, DatabaseType, CursorPair, NextSeq
<1>3. \A r \in Delivery : /\ r.seq \in Nat /\ r.expiresAt \in Nat
                          /\ r.target \in Agents
                          /\ r.status \in Open \cup {"received", "failed"}
  BY DEF Delivery
<1>4. clock \in Nat /\ now \in Nat /\ now <= clock /\ db.counters.msg \in Nat
  BY DEF Types, RuntimeType, DatabaseType
<1> QED
  BY <1>1, <1>2, <1>3, <1>4

\* Rows that do not change move.
LEMMA SameRows ==
  ASSUME Types, db'.deliveries = db.deliveries, db'.cursors = db.cursors,
         db'.counters.msg = db.counters.msg, clock <= clock',
         arrived \subseteq arrived'
  PROVE  RowsMove
BY RowTypes DEF RowsMove, RowsMoved, RowStep, Open

\* A step that leaves rows, ids, jobs and cursors alone.
QuietRows ==
  /\ db'.deliveries = db.deliveries /\ db'.cursors = db.cursors
  /\ db'.counters.msg = db.counters.msg
  /\ DOMAIN db'.messages = DOMAIN db.messages
  /\ DOMAIN messages' \subseteq DOMAIN messages
  /\ UNCHANGED <<up, nextMessageID, claimed, jobs, cursors>>
  /\ clock <= clock' /\ arrived \subseteq arrived'
  /\ \A c \in creations' :
       \/ c \in creations \/ c.counters = << >>
       \/ c.counters[2] = nextMessageID
  /\ \A p \in polls' :
       \/ p \in polls
       \/ p.phase = "read" /\ p.cursor \in cursors[p.agent]

LEMMA QuietOrdinary ==
  ASSUME Types, QuietRows
  PROVE  Ordinary
BY SameRows DEF QuietRows, Ordinary, KeepsNumbers, KeepsPush, KeepsClients

\* A step that leaves the database, memory and what is on its way alone.
LEMMA StillOrdinary ==
  ASSUME Types, UNCHANGED <<db, nextMessageID, up, creations, polls, claimed, jobs, cursors>>,
         DOMAIN messages' \subseteq DOMAIN messages,
         clock <= clock', arrived \subseteq arrived'
  PROVE  Ordinary
<1>1. QuietRows
  BY DEF QuietRows
<1> QED
  BY <1>1, QuietOrdinary

\* Time, the sweep, a late ack, and the beginning of a shutdown.
LEMMA IdleOrdinary ==
  ASSUME Types,
         \/ (Tick \/ ReadClock) /\ UNCHANGED <<db, process, inFlight, clients>>
         \/ Sweep /\ UNCHANGED <<db, process, inFlight, clients>>
         \/ \E a \in Agents, id \in MessageIDs : LateAck(a, id)
         \/ closePushWorkers
         \/ UNCHANGED sqliteVars
  PROVE  Ordinary
<1>1. clock \in Nat
  BY RowTypes
<1>2. CASE (Tick \/ ReadClock) /\ UNCHANGED <<db, process, inFlight, clients>>
  <2>1. UNCHANGED <<messages, nextMessageID>> /\ clock <= clock'
    BY <1>1, <1>2 DEF Tick, ReadClock
  <2> QED
    BY <1>2, <2>1, StillOrdinary DEF process, inFlight, clients
<1>3. CASE Sweep /\ UNCHANGED <<db, process, inFlight, clients>>
  <2>1. messages' = [id \in KeptMessages |-> SweptMessages[id]]
        /\ KeptMessages \subseteq DOMAIN messages
    BY <1>3 DEF Sweep, KeptMessages
  <2>2. UNCHANGED <<clock, nextMessageID>> /\ DOMAIN messages' \subseteq DOMAIN messages
    BY <1>3, <2>1 DEF Sweep
  <2> QED
    BY <1>1, <1>3, <2>2, StillOrdinary DEF process, inFlight, clients
<1>4. CASE \E a \in Agents, id \in MessageIDs : LateAck(a, id)
  <2>1. UNCHANGED <<vars, db, process, inFlight, cursors>> /\ arrived \subseteq arrived'
    BY <1>4 DEF LateAck, HeardFrom
  <2> QED
    BY <1>1, <2>1, StillOrdinary DEF vars, process, inFlight
<1>5. CASE closePushWorkers
  BY <1>1, <1>5, StillOrdinary DEF closePushWorkers, vars, inFlight, clients
<1>6. CASE UNCHANGED sqliteVars
  BY <1>1, <1>6, StillOrdinary DEF sqliteVars, vars, process, inFlight, clients
<1> QED
  BY <1>2, <1>3, <1>4, <1>5, <1>6

\* RegisterAgent in memory and in the database.
LEMMA RegisterOrdinary ==
  ASSUME Types,
         \/ \E a \in Agents, ttl \in RegistrationTTLs, mode \in Modes :
              BeginRegister(a, ttl, mode)
         \/ \E save \in saves, written \in BOOLEAN : saveAgent(save, written)
  PROVE  Ordinary
<1>1. clock \in Nat
  BY RowTypes
<1>2. CASE \E a \in Agents, ttl \in RegistrationTTLs, mode \in Modes :
             BeginRegister(a, ttl, mode)
  <2>1. UNCHANGED <<clock, messages, nextMessageID, db, up, creations, polls,
                    claimed, jobs, cursors, arrived>>
    BY <1>2 DEF BeginRegister, RegisterAgent, process, clients
  <2> QED
    BY <1>1, <2>1, StillOrdinary
<1>3. CASE \E save \in saves, written \in BOOLEAN : saveAgent(save, written)
  <2>1. PICK save \in saves, written \in BOOLEAN : saveAgent(save, written)
    BY <1>3
  <2> DEFINE rows == Put(db.agents, save[1], save[2])
  <2>2. /\ db' = IF written THEN [db EXCEPT !.agents = rows] ELSE db
        /\ UNCHANGED <<clock, messages, nextMessageID, up, creations, polls,
                       claimed, jobs, cursors, arrived>>
    BY <2>1 DEF saveAgent, vars, process, clients
  <2> HIDE DEF rows
  <2>3. /\ db'.deliveries = db.deliveries /\ db'.cursors = db.cursors
        /\ db'.counters = db.counters /\ db'.messages = db.messages
    BY <2>2 DEF Types, DatabaseType
  <2>4. QuietRows
    BY <1>1, <2>2, <2>3 DEF QuietRows
  <2> QED
    BY <2>4, QuietOrdinary
<1> QED
  BY <1>2, <1>3

\* CreateConversation: memory, the read of the counters and the late write.
LEMMA CreateOrdinary ==
  ASSUME Types, Numbers, CountersKept, up,
         \/ \E actor \in Agents \cup {Nobody}, choice \in ConversationChoices,
               names \in ParticipantChoices : BeginCreate(actor, choice, names)
         \/ \E c \in creations : ReadCounters(c) \/ CommitConversation(c)
  PROVE  Ordinary
<1>1. clock \in Nat
  BY RowTypes
<1>2. CASE \E actor \in Agents \cup {Nobody}, choice \in ConversationChoices,
              names \in ParticipantChoices : BeginCreate(actor, choice, names)
  <2>1. /\ UNCHANGED <<clock, messages, nextMessageID, db, up, polls,
                       claimed, jobs, cursors, arrived>>
        /\ \/ creations' = creations
           \/ \E i, p, t : creations' = creations \cup
                {[id |-> i, participants |-> p, lastMessageAt |-> t,
                  counters |-> << >>]}
    BY <1>2 DEF BeginCreate, CreateConversation, process, clients
  <2>2. \A c \in creations' : c \in creations \/ c.counters = << >>
    BY <2>1
  <2>3. QuietRows
    BY <1>1, <2>1, <2>2 DEF QuietRows
  <2> QED
    BY <2>3, QuietOrdinary
<1>3. CASE \E c \in creations : ReadCounters(c)
  <2>1. PICK c \in creations : ReadCounters(c)
    BY <1>3
  <2> DEFINE read == <<nextConversationID, nextMessageID>>
             d == [c EXCEPT !.counters = read]
  <2>2. /\ creations' = (creations \ {c}) \cup {d}
        /\ UNCHANGED <<clock, messages, nextMessageID, db, up, polls,
                       claimed, jobs, cursors, arrived>>
    BY <2>1 DEF ReadCounters, vars, process, clients
  <2>3. d.counters = read
    BY DEF Types, FlightType, CreationType
  <2>4. d.counters[2] = nextMessageID
    BY <2>3
  <2> HIDE DEF d
  <2>5. \A e \in creations' : e \in creations \/ e.counters[2] = nextMessageID
    BY <2>2, <2>4
  <2>6. QuietRows
    BY <1>1, <2>2, <2>5 DEF QuietRows
  <2> QED
    BY <2>6, QuietOrdinary
<1>4. CASE \E c \in creations : CommitConversation(c)
  <2>1. PICK c \in creations : CommitConversation(c)
    BY <1>4
  <2> DEFINE rows == Put(db.conversations, c.id,
                         [participants |-> c.participants,
                          lastMessageAt |-> c.lastMessageAt])
             read == [conv |-> c.counters[1], msg |-> c.counters[2]]
  <2>2. /\ creations' \subseteq creations /\ c.counters # << >>
        /\ db' = [db EXCEPT !.conversations = rows, !.counters = read]
        /\ UNCHANGED <<clock, messages, nextMessageID, up, polls,
                       claimed, jobs, cursors, arrived>>
    BY <2>1 DEF CommitConversation, vars, process, clients
  <2>3. c.counters[2] \in Nat /\ nextMessageID \in Nat /\ db.counters.msg \in Nat
    BY <2>2 DEF Types, FlightType, CreationType, RuntimeType, DatabaseType
  <2>4. read.msg = c.counters[2]
    OBVIOUS
  <2> HIDE DEF rows, read
  <2>5. /\ db'.deliveries = db.deliveries /\ db'.cursors = db.cursors
        /\ db'.counters = read /\ db'.messages = db.messages
    BY <2>2 DEF Types, DatabaseType
  <2>6. db'.counters.msg <= nextMessageID /\ nextMessageID = db.counters.msg
    BY <2>2, <2>4, <2>5 DEF Numbers
  <2>7. db'.counters.msg = db.counters.msg
    BY <2>3, <2>4, <2>5, <2>6 DEF CountersKept
  <2>8. QuietRows
    BY <1>1, <2>2, <2>5, <2>7 DEF QuietRows
  <2> QED
    BY <2>8, QuietOrdinary
<1> QED
  BY <1>2, <1>3, <1>4

\* A poll takes up its cursor.
LEMMA BeginPollOrdinary ==
  ASSUME Types, NEW a \in Agents, NEW cursor \in cursors[a], NEW limit \in Limits,
         BeginPoll(a, cursor, limit)
  PROVE  Ordinary
<1> DEFINE p == [agent |-> a, cursor |-> cursor, limit |-> limit, phase |-> "read",
                 batch |-> << >>, at |-> << >>, next |-> 0]
<1>1. /\ polls' = polls \cup {p}
      /\ UNCHANGED <<clock, messages, nextMessageID, db, up, creations,
                     claimed, jobs, cursors, arrived>>
  BY DEF BeginPoll, vars, process, clients
<1>2. p.phase = "read" /\ p.cursor \in cursors[p.agent]
  OBVIOUS
<1> HIDE DEF p
<1>3. clock \in Nat
  BY RowTypes
<1>4. QuietRows
  BY <1>1, <1>2, <1>3 DEF QuietRows
<1> QED
  BY <1>4, QuietOrdinary

(***************************************************************************)
(* What the helpers do to a row                                            *)
(***************************************************************************)
\* A row as it was, or with a new status for which there is a reason.
LEMMA StatusStep ==
  ASSUME NEW id, NEW r \in Delivery, NEW status \in Open \cup {"received", "failed"},
         NEW at \in Nat, NEW got, NEW t,
         r.status \in Open,
         status = "received" => id \in got \/ r.expiresAt <= t,
         status = "failed" => r.expiresAt <= t
  PROVE  /\ RowStep(id, r, [r EXCEPT !.status = status], got, t)
         /\ RowStep(id, r, [r EXCEPT !.status = status, !.nextAttemptAt = at], got, t)
         /\ [r EXCEPT !.status = status].status = status
         /\ [r EXCEPT !.status = status, !.nextAttemptAt = at].status = status
<1> DEFINE s1 == [r EXCEPT !.status = status]
           s2 == [r EXCEPT !.status = status, !.nextAttemptAt = at]
<1>1. /\ s1.target = r.target /\ s1.seq = r.seq /\ s1.expiresAt = r.expiresAt
      /\ s1.status = status
  BY DEF Delivery
<1>3. /\ s2.target = r.target /\ s2.seq = r.seq /\ s2.expiresAt = r.expiresAt
      /\ s2.status = status
  BY DEF Delivery
<1> HIDE DEF s1, s2
<1>2. RowStep(id, r, s1, got, t) /\ RowStep(id, r, s2, got, t)
  BY <1>1, <1>3 DEF RowStep
<1> QED
  BY <1>1, <1>2, <1>3 DEF s1, s2

LEMMA StillRow ==
  ASSUME NEW id, NEW r \in Delivery, NEW got, NEW t
  PROVE  RowStep(id, r, r, got, t)
BY DEF RowStep, Open, Delivery

\* Two changes of a row in one step.
LEMMA RowStepsOn ==
  ASSUME NEW id, NEW q \in Delivery, NEW r \in Delivery, NEW s \in Delivery,
         NEW got, NEW t,
         RowStep(id, q, r, got, t), RowStep(id, r, s, got, t)
  PROVE  RowStep(id, q, s, got, t)
BY DEF RowStep, Open, Delivery

\* Settle: only rows that have arrived or expired may be among the ids.
LEMMA SettleRows ==
  ASSUME NEW rows, rows \in [DOMAIN rows -> Delivery], NEW ids, NEW got, NEW t,
         \A id \in DOMAIN rows :
           id \in ids /\ rows[id].status \in Open =>
             id \in got \/ rows[id].expiresAt <= t
  PROVE  \A id \in DOMAIN rows :
           /\ RowStep(id, rows[id], Settle(rows, ids)[id], got, t)
           /\ Settle(rows, ids)[id].status = "pending" => rows[id].status = "pending"
<1> SUFFICES ASSUME NEW id \in DOMAIN rows
             PROVE  /\ RowStep(id, rows[id], Settle(rows, ids)[id], got, t)
                    /\ Settle(rows, ids)[id].status = "pending" =>
                         rows[id].status = "pending"
  OBVIOUS
<1>1. rows[id] \in Delivery
  OBVIOUS
<1>2. CASE id \in ids /\ rows[id].status \in Open
  <2>1. Settle(rows, ids)[id] = [rows[id] EXCEPT !.status = "received"]
    BY <1>2 DEF Settle
  <2>2. /\ RowStep(id, rows[id], [rows[id] EXCEPT !.status = "received"], got, t)
        /\ [rows[id] EXCEPT !.status = "received"].status = "received"
    BY <1>1, <1>2, StatusStep, 0 \in Nat
  <2> QED
    BY <2>1, <2>2
<1>3. CASE ~(id \in ids /\ rows[id].status \in Open)
  <2>1. Settle(rows, ids)[id] = rows[id]
    BY <1>3 DEF Settle
  <2> QED
    BY <1>1, <2>1, StillRow
<1> QED
  BY <1>2, <1>3

\* FailOverdue: rows fail when their deadline has passed.
LEMMA FailRows ==
  ASSUME NEW rows, rows \in [DOMAIN rows -> Delivery], NEW got,
         now \in Nat, clock \in Nat, now <= clock
  PROVE  /\ DOMAIN FailOverdue(rows) = DOMAIN rows
         /\ \A id \in DOMAIN rows :
              /\ FailOverdue(rows)[id] \in Delivery
              /\ RowStep(id, rows[id], FailOverdue(rows)[id], got, clock)
              /\ FailOverdue(rows)[id].status = "pending" => rows[id].status = "pending"
<1>1. DOMAIN FailOverdue(rows) = DOMAIN rows
  BY DEF FailOverdue
<1>2. ASSUME NEW id \in DOMAIN rows
      PROVE  /\ FailOverdue(rows)[id] \in Delivery
             /\ RowStep(id, rows[id], FailOverdue(rows)[id], got, clock)
             /\ FailOverdue(rows)[id].status = "pending" => rows[id].status = "pending"
  <2>1. rows[id] \in Delivery /\ rows[id].expiresAt \in Nat
    BY DEF Delivery
  <2>2. FailOverdue(rows)[id] \in Delivery
    BY FailOverdueType DEF RowMoves
  <2>3. CASE Overdue(rows[id])
    <3> DEFINE s == [rows[id] EXCEPT !.status = "failed", !.nextAttemptAt = 0]
    <3>1. FailOverdue(rows)[id] = s
      BY <2>3 DEF FailOverdue
    <3>2. rows[id].status \in Open /\ rows[id].expiresAt <= clock
      BY <2>1, <2>3 DEF Overdue
    <3>3. RowStep(id, rows[id], s, got, clock) /\ s.status = "failed"
      <4>1. /\ s.target = rows[id].target /\ s.seq = rows[id].seq
            /\ s.expiresAt = rows[id].expiresAt /\ s.status = "failed"
        BY <2>1 DEF Delivery
      <4> HIDE DEF s
      <4> QED
        BY <3>2, <4>1 DEF RowStep
    <3> HIDE DEF s
    <3> QED
      BY <2>2, <3>1, <3>3
  <2>4. CASE ~Overdue(rows[id])
    <3>1. FailOverdue(rows)[id] = rows[id]
      BY <2>4 DEF FailOverdue
    <3> QED
      BY <2>1, <3>1, StillRow
  <2> QED
    BY <2>3, <2>4
<1> QED
  BY <1>1, <1>2

\* Recovered: attempts are given back.
LEMMA RecoverRows ==
  ASSUME NEW rows, rows \in [DOMAIN rows -> Delivery], NEW got, NEW t
  PROVE  /\ DOMAIN Recovered(rows) = DOMAIN rows
         /\ Recovered(rows) \in [DOMAIN rows -> Delivery]
         /\ \A id \in DOMAIN rows : RowStep(id, rows[id], Recovered(rows)[id], got, t)
<1>1. DOMAIN Recovered(rows) = DOMAIN rows
  BY DEF Recovered
<1>2. ASSUME NEW id \in DOMAIN rows
      PROVE  /\ Recovered(rows)[id] \in Delivery
             /\ RowStep(id, rows[id], Recovered(rows)[id], got, t)
  <2>1. rows[id] \in Delivery
    OBVIOUS
  <2>2. Recovered(rows)[id] \in Delivery
    BY RecoveredType DEF RowMoves
  <2>3. CASE rows[id].status = "attempting"
    <3> DEFINE s == [rows[id] EXCEPT !.status = "pending"]
    <3>1. Recovered(rows)[id] = s
      BY <2>3 DEF Recovered
    <3>2. RowStep(id, rows[id], s, got, t)
      <4>1. rows[id].status \in Open /\ "pending" \in Open
        BY <2>3 DEF Open
      <4> QED
        BY <2>1, <4>1, StatusStep, 0 \in Nat
    <3> QED
      BY <2>2, <3>1, <3>2
  <2>4. CASE rows[id].status # "attempting"
    <3>1. Recovered(rows)[id] = rows[id]
      BY <2>4 DEF Recovered
    <3> QED
      BY <2>1, <3>1, StillRow
  <2> QED
    BY <2>3, <2>4
<1>3. Recovered(rows) = [id \in DOMAIN rows |-> Recovered(rows)[id]]
  BY DEF Recovered
<1> QED
  BY <1>1, <1>2, <1>3

\* A step that changes rows one by one and drops none.
LEMMA RowsInPlaceBy ==
  ASSUME Types, NEW D, NEW got,
         DOMAIN D = DOMAIN db.deliveries,
         \A id \in DOMAIN db.deliveries :
           RowStep(id, db.deliveries[id], D[id], got, clock),
         db'.deliveries = D, db'.counters = db.counters,
         \A a \in Agents : NextSeq(db'.cursors, a) = NextSeq(db.cursors, a),
         clock' = clock, arrived \subseteq arrived'
  PROVE  RowsMoved(got)
<1>1. clock <= clock'
  BY RowTypes
<1> QED
  BY <1>1 DEF RowsMoved

LEMMA RowsInPlace ==
  ASSUME Types, NEW D,
         DOMAIN D = DOMAIN db.deliveries,
         \A id \in DOMAIN db.deliveries :
           RowStep(id, db.deliveries[id], D[id], arrived', clock),
         db'.deliveries = D, db'.counters = db.counters,
         \A a \in Agents : NextSeq(db'.cursors, a) = NextSeq(db.cursors, a),
         clock' = clock, arrived \subseteq arrived'
  PROVE  RowsMove
BY RowsInPlaceBy DEF RowsMove

(***************************************************************************)
(* Acknowledgments, events and pruning                                     *)
(***************************************************************************)
\* ack, and postEvent early or late: hearing from the recipient.
LEMMA ReplyOrdinary ==
  ASSUME Types, NEW a \in Agents, NEW id \in MessageIDs,
         \/ \E status \in {"accepted", "rejected"} : DurableAck(a, id, status)
         \/ \E type \in {"progress", "final", "error"} : DurableEvent(a, id, type)
         \/ LateEvent(a, id)
  PROVE  Ordinary
<1> DEFINE D == Settle(db.deliveries, {id})
<1>1. /\ \E n : persistAck(id, n)
      /\ UNCHANGED <<clock, nextMessageID, up, creations, polls, claimed, jobs, cursors>>
      /\ arrived' = arrived \cup {id}
      /\ id \in DOMAIN messages /\ DOMAIN messages' = DOMAIN messages
  <2>1. CASE LateEvent(a, id)
    BY <2>1 DEF LateEvent, HeardFrom, vars, process, inFlight
  <2>2. CASE \/ \E status \in {"accepted", "rejected"} : DurableAck(a, id, status)
             \/ \E type \in {"progress", "final", "error"} : DurableEvent(a, id, type)
    <3>1. /\ \/ \E status \in {"accepted", "rejected"} : Ack(a, id, status)
             \/ \E type \in {"progress", "final", "error"} : PostEvent(a, id, type)
          /\ persistAck(id, messages'[id])
          /\ UNCHANGED <<up, creations, polls, claimed, jobs, cursors>>
          /\ arrived' = arrived \cup {id}
      BY <2>2 DEF DurableAck, DurableEvent, HeardFrom, process, inFlight
    <3>2. id \in DOMAIN messages /\ \E n : SetMessage(id, n)
      BY <3>1, RepliedContinues DEF Types
    <3>3. /\ DOMAIN messages' = DOMAIN messages
          /\ UNCHANGED <<clock, nextMessageID>>
      BY <3>2 DEF SetMessage
    <3> QED
      BY <3>1, <3>2, <3>3
  <2> QED
    BY <2>1, <2>2
<1>2. PICK n : persistAck(id, n)
  BY <1>1
<1> DEFINE M == Put(db.messages, id, n)
<1>3. db' = [db EXCEPT !.messages = M, !.deliveries = D]
  BY <1>2 DEF persistAck
<1>4. DOMAIN M = DOMAIN db.messages \cup {id}
  BY DEF Put
<1>5. db.deliveries \in [DOMAIN db.deliveries -> Delivery]
  BY DEF Types, DatabaseType
<1>6. DOMAIN D = DOMAIN db.deliveries
  BY DEF Settle
<1>7. \A i \in DOMAIN db.deliveries :
        /\ RowStep(i, db.deliveries[i], D[i], arrived', clock)
        /\ D[i].status = "pending" => db.deliveries[i].status = "pending"
  <2>1. \A i \in DOMAIN db.deliveries :
          i \in {id} /\ db.deliveries[i].status \in Open =>
            i \in arrived' \/ db.deliveries[i].expiresAt <= clock
    BY <1>1
  <2> QED
    BY <1>5, <2>1, SettleRows
<1> HIDE DEF D, M
<1>8. /\ db'.messages = M /\ db'.deliveries = D
      /\ db'.counters = db.counters /\ db'.cursors = db.cursors
  BY <1>3 DEF Types, DatabaseType
<1>9. RowsMove
  BY <1>1, <1>6, <1>7, <1>8, RowsInPlace
<1>10. KeepsNumbers
  BY <1>1, <1>4, <1>8 DEF KeepsNumbers
<1>11. KeepsPush
  BY <1>1, <1>6, <1>7, <1>8 DEF KeepsPush
<1>12. KeepsClients
  BY <1>1 DEF KeepsClients
<1> QED
  BY <1>9, <1>10, <1>11, <1>12 DEF Ordinary

\* The pruned database, whatever rows it starts from.
LEMMA PrunedRows ==
  ASSUME Types, NEW rows, rows \in [DOMAIN db.deliveries -> Delivery],
         \A id \in DOMAIN db.deliveries :
           /\ RowStep(id, db.deliveries[id], rows[id], arrived', clock)
           /\ rows[id].status = "received" => db.deliveries[id].status = "received",
         db' = Pruned(rows), clock' = clock, arrived \subseteq arrived'
  PROVE  /\ RowsMove
         /\ db'.counters = db.counters
         /\ DOMAIN db'.messages \subseteq DOMAIN db.messages
         /\ \A id \in DOMAIN db'.deliveries :
              db'.deliveries[id].status = "pending" => rows[id].status = "pending"
<1> DEFINE R == FailOverdue(rows)
           msgs == {id \in DOMAIN db.messages :
                      \/ id \in DOMAIN R /\ R[id].status \in Open
                      \/ ~PrunedMessage(db.messages[id])}
           used == {db.messages[id].conv : id \in msgs}
           D == [id \in DOMAIN R \cap msgs |-> R[id]]
           M == [id \in msgs |-> db.messages[id]]
           I == [k \in {k \in DOMAIN db.idempotency : ~StaleEntry(db.idempotency[k])} |->
                   db.idempotency[k]]
           C == [c \in {c \in DOMAIN db.conversations : ~IdleConversation(c, used)} |->
                   db.conversations[c]]
           L == [l \in {l \in DOMAIN db.links : db.links[l] \in msgs} |-> db.links[l]]
<1>1. /\ now \in Nat /\ clock \in Nat /\ now <= clock
      /\ \A id \in DOMAIN db.deliveries : /\ db.deliveries[id] \in Delivery
                                          /\ id \in DOMAIN db.messages
  BY RowTypes
<1>2. db' = [db EXCEPT !.deliveries = D, !.messages = M, !.idempotency = I,
                       !.conversations = C, !.links = L]
  BY DEF Pruned
<1>3. /\ DOMAIN R = DOMAIN db.deliveries
      /\ \A id \in DOMAIN db.deliveries :
           /\ R[id] \in Delivery
           /\ RowStep(id, rows[id], R[id], arrived', clock)
           /\ R[id].status = "pending" => rows[id].status = "pending"
  BY <1>1, FailRows
<1> HIDE DEF R
<1>4. \A id \in DOMAIN db.deliveries :
        RowStep(id, db.deliveries[id], R[id], arrived', clock)
  <2>1. \A id \in DOMAIN db.deliveries :
          rows[id] \in Delivery /\ db.deliveries[id] \in Delivery
    BY <1>1
  <2> QED
    BY <1>3, <2>1, RowStepsOn
<1>5. DOMAIN D = DOMAIN R \cap msgs /\ \A id \in DOMAIN D : D[id] = R[id]
  OBVIOUS
<1>6. \A id \in DOMAIN R \ msgs : R[id].status \notin Open
  BY <1>1, <1>3
<1>7. DOMAIN M = msgs /\ msgs \subseteq DOMAIN db.messages
  OBVIOUS
<1> HIDE DEF msgs, D, M, I, C, L
<1>8. /\ db'.deliveries = D /\ db'.messages = M
      /\ db'.counters = db.counters /\ db'.cursors = db.cursors
  BY <1>2 DEF Types, DatabaseType
<1>9. \A id \in DOMAIN db.deliveries \ DOMAIN D :
        \/ db.deliveries[id].status \notin Open
        \/ db.deliveries[id].expiresAt <= clock
  <2> SUFFICES ASSUME NEW id \in DOMAIN db.deliveries, id \notin DOMAIN D,
                      db.deliveries[id].status \in Open
               PROVE  db.deliveries[id].expiresAt <= clock
    OBVIOUS
  <2>1. R[id].status \notin Open /\ R[id] \in Delivery
    BY <1>3, <1>5, <1>6
  <2>2. CASE R[id].status = "failed"
    BY <1>4, <2>2 DEF RowStep
  <2>3. CASE R[id].status = "received"
    <3>1. rows[id] \in Delivery /\ RowStep(id, rows[id], R[id], {}, clock)
      BY <1>1, FailRows DEF R
    <3>2. rows[id].status = "received" \/ rows[id].expiresAt <= clock
      BY <2>3, <3>1 DEF RowStep, Open, Delivery
    <3>3. rows[id].expiresAt = db.deliveries[id].expiresAt
      BY DEF RowStep
    <3> QED
      BY <3>2, <3>3 DEF Open
  <2> QED
    BY <2>1, <2>2, <2>3 DEF Delivery, Open
<1>10. clock <= clock'
  BY <1>1
<1>11. RowsMove
  BY <1>3, <1>4, <1>5, <1>8, <1>9, <1>10 DEF RowsMove, RowsMoved
<1> QED
  BY <1>3, <1>5, <1>7, <1>8, <1>11

\* pruneDB.
LEMMA PruneOrdinary ==
  ASSUME Types, pruneDB
  PROVE  Ordinary
<1>1. /\ db' = Pruned(db.deliveries)
      /\ UNCHANGED <<clock, messages, nextMessageID, up, creations, polls,
                     claimed, jobs, cursors, arrived>>
  BY DEF pruneDB, vars, process, inFlight, clients
<1>2. db.deliveries \in [DOMAIN db.deliveries -> Delivery]
  BY DEF Types, DatabaseType
<1>3. \A id \in DOMAIN db.deliveries :
        /\ RowStep(id, db.deliveries[id], db.deliveries[id], arrived', clock)
        /\ db.deliveries[id].status = "received" => db.deliveries[id].status = "received"
  BY <1>2, StillRow
<1>4. clock' = clock /\ arrived \subseteq arrived'
  BY <1>1
<1>5. /\ RowsMove
      /\ DOMAIN db'.messages \subseteq DOMAIN db.messages
      /\ \A id \in DOMAIN db'.deliveries :
           db'.deliveries[id].status = "pending" => db.deliveries[id].status = "pending"
  BY <1>1, <1>2, <1>3, <1>4, PrunedRows
<1> QED
  BY <1>1, <1>5 DEF Ordinary, KeepsNumbers, KeepsPush, KeepsClients

(***************************************************************************)
(* The delivery loop and the push workers                                  *)
(***************************************************************************)
\* The delivery loop claims what is due and fails what is overdue.
LEMMA ClaimDelivery ==
  ASSUME Types, claimDuePushes
  PROVE  Claims
<1> DEFINE due == {id \in DOMAIN db.deliveries : DueForPush(id)}
           D == [id \in DOMAIN db.deliveries |->
                   IF id \in due THEN [db.deliveries[id] EXCEPT !.status = "attempting"]
                   ELSE FailOverdue(db.deliveries)[id]]
           M == OfferAll(db.messages, due)
<1>1. /\ db' = [db EXCEPT !.deliveries = D, !.messages = M]
      /\ claimed = {} /\ claimed' = due
      /\ UNCHANGED <<clock, messages, nextMessageID, up, creations, polls,
                     jobs, cursors, arrived>>
  BY DEF claimDuePushes, vars, process, clients
<1>2. /\ now \in Nat /\ clock \in Nat /\ now <= clock
      /\ db.deliveries \in [DOMAIN db.deliveries -> Delivery]
  BY RowTypes DEF Types, DatabaseType
<1>3. DOMAIN D = DOMAIN db.deliveries /\ DOMAIN M = DOMAIN db.messages
  BY DEF OfferAll
<1>4. ASSUME NEW id \in DOMAIN db.deliveries
      PROVE  /\ RowStep(id, db.deliveries[id], D[id], arrived', clock)
             /\ D[id].status = "pending" => db.deliveries[id].status = "pending"
             /\ id \in due => /\ db.deliveries[id].status = "pending"
                              /\ D[id].status # "pending"
  <2>1. CASE id \in due
    <3>1. db.deliveries[id].status = "pending" /\ db.deliveries[id] \in Delivery
      BY <1>2, <2>1 DEF DueForPush
    <3>2. "attempting" \in Open /\ db.deliveries[id].status \in Open
      BY <3>1 DEF Open
    <3> DEFINE s == [db.deliveries[id] EXCEPT !.status = "attempting"]
    <3>3. /\ RowStep(id, db.deliveries[id], s, arrived', clock)
          /\ s.status = "attempting"
      BY <3>1, <3>2, StatusStep, 0 \in Nat
    <3>4. D[id] = s
      BY <2>1
    <3> HIDE DEF s, D
    <3> QED
      BY <3>1, <3>3, <3>4
  <2>2. CASE id \notin due
    <3>1. D[id] = FailOverdue(db.deliveries)[id]
      BY <2>2
    <3> HIDE DEF D
    <3> QED
      BY <1>2, <2>2, <3>1, FailRows
  <2> QED
    BY <2>1, <2>2
<1>5. due \subseteq DOMAIN db.deliveries
  OBVIOUS
<1> HIDE DEF due, D, M
<1>6. /\ db'.messages = M /\ db'.deliveries = D
      /\ db'.counters = db.counters /\ db'.cursors = db.cursors
  BY <1>1 DEF Types, DatabaseType
<1>7. RowsMove
  BY <1>1, <1>3, <1>4, <1>6, RowsInPlace
<1>8. KeepsNumbers /\ KeepsClients
  BY <1>1, <1>3, <1>6 DEF KeepsNumbers, KeepsClients
<1> QED
  BY <1>1, <1>3, <1>4, <1>5, <1>6, <1>7, <1>8 DEF Claims

\* Runtime copies keep their ids when they are offered.
LEMMA OfferKeepsIds ==
  ASSUME NEW at, OfferInMemory(at)
  PROVE  DOMAIN messages' = DOMAIN messages
BY DEF OfferInMemory

\* What the queue makes of a job.
LEMMA EnqueuedJob ==
  ASSUME NEW id, enqueuePushJob(id)
  PROVE  \/ jobs' = jobs
         \/ \E phase \in {"queued", "failed"} :
              jobs' = Append(jobs, [msg |-> id, phase |-> phase])
BY DEF enqueuePushJob

\* The delivery loop enqueues a claim.
LEMMA EnqueueDelivery ==
  ASSUME Types, NEW id \in claimed, enqueueClaimedPush(id)
  PROVE  Enqueues
<1>1. /\ UNCHANGED <<clock, nextMessageID, db, up, creations, polls, cursors, arrived>>
      /\ claimed' = claimed \ {id}
  BY DEF enqueueClaimedPush, process, clients
<1>2. DOMAIN messages' = DOMAIN messages
  BY OfferKeepsIds DEF enqueueClaimedPush
<1>3. \/ jobs' = jobs
      \/ \E phase \in {"queued", "failed"} :
           jobs' = Append(jobs, [msg |-> id, phase |-> phase])
  BY EnqueuedJob DEF enqueueClaimedPush
<1>4. RowsMove
  BY <1>1, RowTypes, SameRows
<1>5. KeepsNumbers /\ KeepsClients
  BY <1>1, <1>2 DEF KeepsNumbers, KeepsClients
<1> QED
  BY <1>1, <1>3, <1>4, <1>5 DEF Enqueues

\* A worker has called back.
LEMMA CallbackDelivery ==
  ASSUME Types, NEW k \in DOMAIN jobs, NEW phase \in {"ok", "failed"},
         NEW arrives \in BOOLEAN, sendPushCallback(k, phase, arrives)
  PROVE  CallsBack
<1>1. /\ UNCHANGED <<clock, messages, nextMessageID, db, up, creations, polls,
                     claimed, cursors>>
      /\ jobs' = [jobs EXCEPT ![k].phase = phase]
      /\ arrived \subseteq arrived'
      /\ phase = "ok" => jobs[k].msg \in arrived'
  BY DEF sendPushCallback, vars, process
<1>2. RowsMove
  BY <1>1, RowTypes, SameRows
<1>3. KeepsNumbers /\ KeepsClients
  BY <1>1 DEF KeepsNumbers, KeepsClients
<1> QED
  BY <1>1, <1>2, <1>3 DEF CallsBack

\* A receipt changes a row only for a reason.
LEMMA ReceiptRow ==
  ASSUME Types, NEW id, NEW job \in Job, NEW r \in Delivery,
         NEW backoff \in PushBackoffs, NEW got,
         job.phase \in {"ok", "failed"}, job.phase = "ok" => id \in got
  PROVE  RowStep(id, r, PushReceipt(job, r, backoff), got, clock)
<1>1. /\ now \in Nat /\ clock \in Nat /\ now <= clock
      /\ now + backoff \in Nat /\ r.expiresAt \in Nat
  BY RowTypes, SqliteAssumption, BackendAssumption DEF Delivery
<1>2. CASE r.status # "attempting"
  <2>1. PushReceipt(job, r, backoff) = r
    BY <1>2 DEF PushReceipt
  <2> QED
    BY <2>1, StillRow
<1>3. CASE r.status = "attempting" /\ job.phase = "ok"
  <2>1. PushReceipt(job, r, backoff) =
          [r EXCEPT !.status = "received", !.nextAttemptAt = 0]
    BY <1>3 DEF PushReceipt
  <2>2. r.status \in Open
    BY <1>3 DEF Open
  <2>3. id \in got /\ "received" \in Open \cup {"received", "failed"}
    BY <1>3
  <2>4. RowStep(id, r, [r EXCEPT !.status = "received", !.nextAttemptAt = 0], got, clock)
    BY <2>2, <2>3, StatusStep, 0 \in Nat
  <2> QED
    BY <2>1, <2>4
<1>4. CASE r.status = "attempting" /\ job.phase = "failed"
  <2>1. PushReceipt(job, r, backoff) = FailedAttempt(r, backoff)
    BY <1>4 DEF PushReceipt
  <2>2. r.status \in Open /\ "pending" \in Open
    BY <1>4 DEF Open
  <2>3. CASE r.expiresAt <= now
    <3>1. FailedAttempt(r, backoff) = [r EXCEPT !.status = "failed", !.nextAttemptAt = 0]
      BY <2>3 DEF FailedAttempt
    <3>2. r.expiresAt <= clock
      BY <1>1, <2>3
    <3>3. "failed" \in Open \cup {"received", "failed"}
      OBVIOUS
    <3>4. RowStep(id, r, [r EXCEPT !.status = "failed", !.nextAttemptAt = 0], got, clock)
      BY <2>2, <3>2, <3>3, StatusStep, 0 \in Nat
    <3> QED
      BY <2>1, <3>1, <3>4
  <2>4. CASE ~(r.expiresAt <= now)
    <3>1. FailedAttempt(r, backoff) =
            [r EXCEPT !.status = "pending", !.nextAttemptAt = now + backoff]
      BY <2>4 DEF FailedAttempt
    <3>2. "pending" \in Open \cup {"received", "failed"}
      BY <2>2
    <3>3. RowStep(id, r, [r EXCEPT !.status = "pending", !.nextAttemptAt = now + backoff],
                  got, clock)
      BY <1>1, <2>2, <3>2, StatusStep
    <3> QED
      BY <2>1, <3>1, <3>3
  <2> QED
    BY <2>3, <2>4
<1> QED
  BY <1>2, <1>3, <1>4

\* The receipt of a push, or the failure to write it.
LEMMA RecordDelivery ==
  ASSUME Types, JobsType, PushQueue, NEW k \in DOMAIN jobs,
         NEW backoff \in PushBackoffs, NEW written \in BOOLEAN,
         recordPush(k, backoff, written)
  PROVE  Records
<1> DEFINE id == jobs[k].msg
           r == PushReceipt(jobs[k], db.deliveries[id], backoff)
           D == [db.deliveries EXCEPT ![id] = r]
<1>1. /\ UNCHANGED <<clock, messages, nextMessageID, up, creations, polls,
                     claimed, cursors, arrived>>
      /\ jobs' = RemoveAt(jobs, k)
      /\ k \in DOMAIN jobs \ Queued
      /\ db' = IF written /\ id \in DOMAIN db.deliveries
               THEN [db EXCEPT !.deliveries[id] = PushReceipt(jobs[k], @, backoff)]
               ELSE db
  BY DEF recordPush, vars, process, clients
<1>2. KeepsClients
  BY <1>1 DEF KeepsClients
<1>3. CASE db' = db
  <2>1. RowsMove
    <3>1. clock <= clock' /\ arrived \subseteq arrived'
      BY <1>1, RowTypes
    <3> QED
      BY <1>3, <3>1, SameRows
  <2>2. KeepsNumbers
    BY <1>1, <1>3 DEF KeepsNumbers
  <2> QED
    BY <1>1, <1>2, <1>3, <2>1, <2>2 DEF Records
<1>4. CASE written /\ id \in DOMAIN db.deliveries
  <2>1. jobs[k] \in Job
    BY DEF JobsType
  <2>2. jobs[k].phase \in {"ok", "failed"}
    BY <1>1, <2>1 DEF Queued, Job
  <2>3. jobs[k].phase = "ok" => id \in arrived'
    BY <1>1 DEF PushQueue
  <2>4. \A i \in DOMAIN db.deliveries : db.deliveries[i] \in Delivery
    BY RowTypes
  <2>5. RowStep(id, db.deliveries[id], r, arrived', clock)
    BY <1>4, <2>1, <2>2, <2>3, <2>4, ReceiptRow
  <2>6. \A i \in DOMAIN db.deliveries :
          RowStep(i, db.deliveries[i], db.deliveries[i], arrived', clock)
    BY <2>4, StillRow
  <2>7. db' = [db EXCEPT !.deliveries = D]
    BY <1>1, <1>4
  <2> HIDE DEF r
  <2>8. /\ DOMAIN D = DOMAIN db.deliveries
        /\ \A i \in DOMAIN db.deliveries :
             D[i] = IF i = id THEN r ELSE db.deliveries[i]
    BY DEF Types, DatabaseType
  <2> HIDE DEF D, id
  <2>9. \A i \in DOMAIN db.deliveries :
          RowStep(i, db.deliveries[i], D[i], arrived', clock)
    BY <2>5, <2>6, <2>8
  <2>10. /\ db'.messages = db.messages /\ db'.deliveries = D
         /\ db'.counters = db.counters /\ db'.cursors = db.cursors
    BY <2>7 DEF Types, DatabaseType
  <2>11. RowsMove
    BY <1>1, <2>8, <2>9, <2>10, RowsInPlace
  <2>12. KeepsNumbers
    BY <1>1, <2>10 DEF KeepsNumbers
  <2>13. \A i \in DOMAIN db'.deliveries :
           db'.deliveries[i].status = "pending" /\ i # id =>
             db.deliveries[i].status = "pending"
    BY <2>8, <2>10
  <2> QED
    BY <1>1, <1>2, <2>11, <2>12, <2>13 DEF Records, id
<1> QED
  BY <1>1, <1>3, <1>4

(***************************************************************************)
(* Shutdown, crash and restart                                             *)
(***************************************************************************)
\* A crash leaves the rows as they are, Close gives the attempts back.
LEMMA StopEnds ==
  ASSUME Types, Close \/ Crash
  PROVE  Ends
<1> DEFINE D == Recovered(db.deliveries)
<1>1. /\ UNCHANGED <<clock, cursors, arrived>> /\ up' = FALSE
      /\ messages' = << >> /\ creations' = {} /\ polls' = {}
      /\ claimed' = {} /\ jobs' = << >>
  BY DEF Close, Crash, LoseMemory, clients
<1>2. clock <= clock' /\ arrived \subseteq arrived'
  BY <1>1, RowTypes
<1>3. RowsMove /\ db'.messages = db.messages
  <2>1. CASE Crash
    <3>1. db' = db
      BY <2>1 DEF Crash
    <3> QED
      BY <1>2, <3>1, SameRows
  <2>2. CASE Close
    <3>1. db.deliveries \in [DOMAIN db.deliveries -> Delivery]
      BY DEF Types, DatabaseType
    <3>2. /\ DOMAIN D = DOMAIN db.deliveries
          /\ \A id \in DOMAIN db.deliveries :
               RowStep(id, db.deliveries[id], D[id], arrived', clock)
      BY <3>1, RecoverRows
    <3>3. db' = [db EXCEPT !.deliveries = D]
      BY <2>2 DEF Close
    <3> HIDE DEF D
    <3>4. /\ db'.messages = db.messages /\ db'.deliveries = D
          /\ db'.counters = db.counters /\ db'.cursors = db.cursors
      BY <3>3 DEF Types, DatabaseType
    <3> QED
      BY <1>1, <3>2, <3>4, RowsInPlace
  <2> QED
    BY <2>1, <2>2
<1>4. KeepsClients
  BY <1>1 DEF KeepsClients
<1>5. DOMAIN messages' = {}
  BY <1>1
<1> QED
  BY <1>1, <1>3, <1>4, <1>5 DEF Ends

\* NewSQLiteStore on the database that is there.
LEMMA RestartRows ==
  ASSUME Types, Restart
  PROVE  /\ RowsMove /\ KeepsClients
         /\ DOMAIN db'.messages \subseteq DOMAIN db.messages
<1> DEFINE D == Recovered(db.deliveries)
<1>1. /\ db' = Pruned(D) /\ ~up /\ up'
      /\ UNCHANGED <<clock, creations, polls, claimed, jobs, cursors, arrived>>
      /\ messages' = db'.messages /\ nextMessageID' = db'.counters.msg
  BY DEF Restart, LoadedMessageID, inFlight, clients
<1>2. db.deliveries \in [DOMAIN db.deliveries -> Delivery]
  BY DEF Types, DatabaseType
<1>3. /\ D \in [DOMAIN db.deliveries -> Delivery]
      /\ \A id \in DOMAIN db.deliveries :
           RowStep(id, db.deliveries[id], D[id], arrived', clock)
  BY <1>2, RecoverRows
<1>4. \A id \in DOMAIN db.deliveries :
        D[id].status = "received" => db.deliveries[id].status = "received"
  <2> SUFFICES ASSUME NEW id \in DOMAIN db.deliveries, D[id].status = "received"
               PROVE  db.deliveries[id].status = "received"
    OBVIOUS
  <2>1. CASE db.deliveries[id].status = "attempting"
    <3>1. D[id] = [db.deliveries[id] EXCEPT !.status = "pending"]
      BY <2>1 DEF Recovered
    <3>2. db.deliveries[id] \in Delivery /\ "pending" \in Open \cup {"received", "failed"}
      BY <1>2 DEF Open
    <3>3. db.deliveries[id].status \in Open
      BY <2>1 DEF Open
    <3>4. [db.deliveries[id] EXCEPT !.status = "pending"].status = "pending"
      BY <3>2 DEF Delivery
    <3> HIDE DEF D
    <3> QED
      BY <3>1, <3>4
  <2>2. CASE db.deliveries[id].status # "attempting"
    BY <2>2 DEF Recovered
  <2> QED
    BY <2>1, <2>2
<1> HIDE DEF D
<1>5. clock' = clock /\ arrived \subseteq arrived'
  BY <1>1
<1>6. RowsMove /\ DOMAIN db'.messages \subseteq DOMAIN db.messages
  BY <1>1, <1>3, <1>4, <1>5, PrunedRows
<1>7. KeepsClients
  BY <1>1 DEF KeepsClients
<1> QED
  BY <1>6, <1>7

LEMMA RestartEnds ==
  ASSUME Types, Numbers, Restart
  PROVE  Ends
<1>1. /\ ~up /\ up' /\ UNCHANGED <<creations, claimed, jobs>>
      /\ messages' = db'.messages /\ nextMessageID' = db'.counters.msg
  BY DEF Restart, LoadedMessageID, inFlight
<1>2. creations' = {} /\ claimed' = {} /\ jobs' = << >>
  BY <1>1 DEF Numbers
<1> QED
  BY <1>1, <1>2, RestartRows DEF Ends

(***************************************************************************)
(* Polls                                                                   *)
(***************************************************************************)
\* A list in the order of sequence numbers has all of a finite set.
LEMMA InOrderHasAll ==
  ASSUME Types, NEW a, NEW cursor, NEW ids \in InSeqOrder(Deliverable(a, cursor))
  PROVE  /\ ids \in Seq(Deliverable(a, cursor))
         /\ \A id \in Deliverable(a, cursor) : \E k \in 1..Len(ids) : ids[k] = id
         /\ \A j, k \in 1..Len(ids) :
              j < k => db.deliveries[ids[j]].seq <= db.deliveries[ids[k]].seq
<1> DEFINE D == Deliverable(a, cursor)
           n == Cardinality(D)
<1>1. D \subseteq 1..MaxMessages
  BY DEF Deliverable, Types, DatabaseType, MessageIDs
<1>2. IsFiniteSet(D)
  <2>1. IsFiniteSet(1..MaxMessages)
    BY Bounds, FS_Interval
  <2> QED
    BY <1>1, <2>1, FS_Subset
<1>3. n \in Nat
  BY <1>2, FS_CardinalityType
<1>4. /\ ids \in [1..n -> D]
      /\ \A i, j \in 1..n : i # j => ids[i] # ids[j]
      /\ \A j, k \in DOMAIN ids :
           j < k => db.deliveries[ids[j]].seq <= db.deliveries[ids[k]].seq
  BY DEF InSeqOrder, SetToSeqs
<1> HIDE DEF D
<1>5. ids \in Injection(1..n, D)
  BY <1>4 DEF Injection, IsInjective
<1>6. Cardinality(1..n) = n /\ IsFiniteSet(1..n)
  <2>1. Cardinality(1..n) = IF 1 > n THEN 0 ELSE n - 1 + 1
    BY <1>3, FS_Interval
  <2> HIDE DEF n
  <2> QED
    BY <1>3, <2>1, FS_Interval
<1>7. ids \in Surjection(1..n, D)
  BY <1>2, <1>5, <1>6, FS_Injection
<1> HIDE DEF n
<1>8. ids \in Seq(D) /\ Len(ids) = n /\ DOMAIN ids = 1..n
  BY <1>3, <1>4
<1>9. \A id \in D : \E k \in 1..n : ids[k] = id
  BY <1>7 DEF Surjection
<1> QED
  BY <1>4, <1>8, <1>9 DEF D

\* The batch is a prefix of the list.
LEMMA BatchPrefix ==
  ASSUME Types, NEW a, NEW cursor, NEW ids \in InSeqOrder(Deliverable(a, cursor)),
         NEW limit \in Nat
  PROVE  \E n \in 0..Len(ids) : FirstOf(ids, limit) = SubSeq(ids, 1, n)
<1> DEFINE events == [k \in DOMAIN ids |-> EventOf(ids[k], db.messages[ids[k]])]
           S == {n \in 0..Len(ids) : /\ n <= MaxInboxEvents
                                     /\ limit > 0 => n <= limit
                                     /\ n > 1 => Bytes(SubSeq(events, 1, n)) <= BatchBytes}
<1>1. Len(ids) \in Nat
  BY InOrderHasAll
<1>2. 0 \in S
  BY <1>1, ConfigAssumption
<1>3. S \subseteq 0..Len(ids)
  OBVIOUS
<1>4. FirstOf(ids, limit) = SubSeq(ids, 1, Max(S))
  BY DEF FirstOf
<1> HIDE DEF S
<1>5. Max(S) \in 0..Len(ids)
  BY <1>1, <1>2, <1>3, MaxIn
<1> QED
  BY <1>4, <1>5


\* Whatever is deliverable up to the last of a batch is in the batch.
LEMMA BatchCovers ==
  ASSUME Types, Numbering, NEW a, NEW cursor, NEW limit \in Nat,
         NEW ids \in InSeqOrder(Deliverable(a, cursor)),
         NEW batch, batch = FirstOf(ids, limit), batch # << >>
  PROVE  LET last == batch[Len(batch)]
         IN  /\ last \in DOMAIN db.deliveries
             /\ db.deliveries[last].target = a
             /\ \A id \in Deliverable(a, cursor) :
                  db.deliveries[id].seq <= db.deliveries[last].seq =>
                    id \in ToSet(batch)
<1>1. PICK n \in 0..Len(ids) : batch = SubSeq(ids, 1, n)
  BY BatchPrefix
<1>2. /\ ids \in Seq(Deliverable(a, cursor)) /\ Len(ids) \in Nat
      /\ \A id \in Deliverable(a, cursor) : \E k \in 1..Len(ids) : ids[k] = id
      /\ \A j, k \in 1..Len(ids) :
           j < k => db.deliveries[ids[j]].seq <= db.deliveries[ids[k]].seq
  BY InOrderHasAll
<1> DEFINE S == Deliverable(a, cursor)
<1> HIDE DEF S
<1>3. n \in 1..Len(ids) /\ Len(batch) = n /\ \A k \in 1..n : batch[k] = ids[k]
  <2>1. ids \in Seq(S)
    BY <1>2 DEF S
  <2> QED
    BY <1>1, <2>1
<1>4. batch[Len(batch)] = ids[n] /\ ids[n] \in Deliverable(a, cursor)
  BY <1>2, <1>3
<1>5. \A k \in 1..n : ids[k] \in ToSet(batch)
  <2>1. DOMAIN batch = 1..n
    BY <1>1, <1>2, <1>3
  <2> QED
    BY <1>3, <2>1 DEF ToSet
<1>6. \A id \in Deliverable(a, cursor) :
        /\ id \in DOMAIN db.deliveries /\ db.deliveries[id].target = a
        /\ db.deliveries[id].seq \in Nat
  BY RowTypes DEF Deliverable
<1>7. ASSUME NEW id \in Deliverable(a, cursor),
             db.deliveries[id].seq <= db.deliveries[ids[n]].seq
      PROVE  id \in ToSet(batch)
  <2>1. PICK k \in 1..Len(ids) : ids[k] = id
    BY <1>2
  <2>2. CASE k <= n
    BY <1>5, <2>1, <2>2
  <2>3. CASE n < k
    <3>1. db.deliveries[ids[n]].seq <= db.deliveries[id].seq
      BY <1>2, <1>3, <2>1, <2>3
    <3>2. db.deliveries[id].seq = db.deliveries[ids[n]].seq
      BY <1>4, <1>6, <1>7, <3>1
    <3>3. id = ids[n]
      BY <1>4, <1>6, <3>2 DEF Numbering
    <3> QED
      BY <1>3, <1>5, <3>3
  <2> QED
    BY <1>3, <2>1, <2>2, <2>3
<1> QED
  BY <1>4, <1>6, <1>7

\* A cursor is clamped upwards to the acknowledged one, or downwards.
LEMMA ClampedBelow ==
  ASSUME Types, CursorsInOrder, NEW a \in Agents, NEW cursor \in Nat
  PROVE  /\ CursorRow(a).acked \in Nat /\ CursorRow(a).next \in Nat
         /\ CursorRow(a).next = NextSeq(db.cursors, a)
         /\ ClampCursor(a, cursor) \in Nat
         /\ CursorRow(a).acked <= ClampCursor(a, cursor)
         /\ ClampCursor(a, cursor) <= NextSeq(db.cursors, a)
         /\ \/ ClampCursor(a, cursor) = CursorRow(a).acked
            \/ ClampCursor(a, cursor) <= cursor
<1>1. /\ CursorRow(a) \in CursorPair
      /\ CursorRow(a).acked <= CursorRow(a).next
  BY CursorRowInOrder
<1>2. CursorRow(a).next \in Nat /\ CursorRow(a).acked \in Nat
  BY <1>1 DEF CursorPair
<1>3. CursorRow(a).next = NextSeq(db.cursors, a)
  BY DEF CursorRow, NextSeq
<1>4. /\ ClampCursor(a, cursor) \in Nat
      /\ CursorRow(a).acked <= ClampCursor(a, cursor)
      /\ ClampCursor(a, cursor) <= CursorRow(a).next
  BY <1>1, ClampCursorRange
<1>5. Max({cursor, CursorRow(a).acked}) =
        IF cursor >= CursorRow(a).acked THEN cursor ELSE CursorRow(a).acked
  BY <1>2, MaxMinOfTwo
<1>6. Max({cursor, CursorRow(a).acked}) \in Nat
  BY <1>2, <1>5
<1>7. ClampCursor(a, cursor) =
        IF Max({cursor, CursorRow(a).acked}) <= CursorRow(a).next
        THEN Max({cursor, CursorRow(a).acked}) ELSE CursorRow(a).next
  BY <1>2, <1>6, MaxMinOfTwo DEF ClampCursor
<1>8. \/ ClampCursor(a, cursor) = CursorRow(a).acked
      \/ ClampCursor(a, cursor) <= cursor
  BY <1>1, <1>2, <1>5, <1>7
<1> QED
  BY <1>2, <1>3, <1>4, <1>8


\* The rows of a poll's agent after its transaction.
LEMMA ReadRows ==
  ASSUME Types, CursorsInOrder, NEW p \in polls, NEW D, NEW got,
         CoveredTo(db.deliveries, p.agent, p.cursor, got, clock),
         D = IF ClampCursor(p.agent, p.cursor) > CursorRow(p.agent).acked
             THEN Settle(db.deliveries, Below(p.agent, ClampCursor(p.agent, p.cursor)))
             ELSE db.deliveries
  PROVE  /\ DOMAIN D = DOMAIN db.deliveries
         /\ \A id \in DOMAIN db.deliveries :
              /\ RowStep(id, db.deliveries[id], D[id], got, clock)
              /\ D[id].status = "pending" => db.deliveries[id].status = "pending"
              /\ D[id].status \in Open => db.deliveries[id].status \in Open
              /\ /\ D[id].target = p.agent
                 /\ D[id].seq < ClampCursor(p.agent, p.cursor)
                 => D[id].status \notin Open
<1> DEFINE a == p.agent
           c == ClampCursor(a, p.cursor)
           A == CursorRow(a).acked
           B == Below(a, c)
<1>1. a \in Agents /\ p.cursor \in Nat
  BY DEF Types, FlightType, PollRecord
<1>2. /\ A \in Nat /\ c \in Nat /\ A <= c
      /\ c = A \/ c <= p.cursor
  BY <1>1, ClampedBelow
<1>3. /\ db.deliveries \in [DOMAIN db.deliveries -> Delivery]
      /\ \A id \in DOMAIN db.deliveries :
           /\ db.deliveries[id].seq \in Nat
           /\ db.deliveries[id] \in Delivery
  BY RowTypes DEF Types, DatabaseType
<1>4. \A id \in DOMAIN db.deliveries :
        /\ db.deliveries[id].target = a /\ db.deliveries[id].seq < A
        => db.deliveries[id].status \notin Open
  BY CursorRowInOrder
<1>5. CoveredTo(db.deliveries, a, p.cursor, got, clock)
  OBVIOUS
<1>6. \A id \in DOMAIN db.deliveries :
        id \in B <=> db.deliveries[id].target = a /\ db.deliveries[id].seq < c
  BY DEF Below
<1>7. D = IF c > A THEN Settle(db.deliveries, B) ELSE db.deliveries
  OBVIOUS
<1> HIDE DEF c, A, B
<1>8. CASE c > A
  <2>1. \A id \in DOMAIN db.deliveries :
          id \in B /\ db.deliveries[id].status \in Open =>
            id \in got \/ db.deliveries[id].expiresAt <= clock
    <3>1. c <= p.cursor
      BY <1>2, <1>8
    <3>2. \A id \in DOMAIN db.deliveries :
            id \in B => db.deliveries[id].target = a /\ db.deliveries[id].seq < p.cursor
      BY <1>1, <1>2, <1>3, <1>6, <3>1
    <3> QED
      BY <1>5, <3>2 DEF CoveredTo
  <2>2. D = Settle(db.deliveries, B)
    BY <1>7, <1>8
  <2>3. \A id \in DOMAIN db.deliveries :
          /\ RowStep(id, db.deliveries[id], D[id], got, clock)
          /\ D[id].status = "pending" => db.deliveries[id].status = "pending"
    BY <1>3, <2>1, <2>2, SettleRows
  <2>4. /\ DOMAIN D = DOMAIN db.deliveries
        /\ \A id \in DOMAIN db.deliveries :
             /\ D[id].target = db.deliveries[id].target
             /\ D[id].seq = db.deliveries[id].seq
             /\ D[id].status \in Open => db.deliveries[id].status \in Open
             /\ id \in B => D[id].status \notin Open
    BY <1>3, <2>2, SettleKeeps
  <2> HIDE DEF a
  <2>5. \A id \in DOMAIN db.deliveries :
          D[id].target = a /\ D[id].seq < c => D[id].status \notin Open
    BY <1>6, <2>4
  <2> QED
    BY <2>3, <2>4, <2>5 DEF a, c
<1>9. CASE ~(c > A)
  <2>1. D = db.deliveries /\ c = A
    BY <1>2, <1>7, <1>9
  <2>2. \A id \in DOMAIN db.deliveries :
          RowStep(id, db.deliveries[id], D[id], got, clock)
    BY <1>3, <2>1, StillRow
  <2>3. \A id \in DOMAIN db.deliveries :
          D[id].target = a /\ D[id].seq < c => D[id].status \notin Open
    BY <1>4, <2>1
  <2> QED
    BY <2>1, <2>2, <2>3 DEF c
<1> QED
  BY <1>8, <1>9

\* The transaction of a poll, whose client has got what is below its cursor.
LEMMA ReadAs ==
  ASSUME Types, CursorsInOrder, Numbering, NEW p \in polls, NEW got,
         CoveredTo(db.deliveries, p.agent, p.cursor, got, clock),
         readDurableInbox(p)
  PROVE  ReadsAs(got)
<1> DEFINE a == p.agent
           c == ClampCursor(a, p.cursor)
           cr == [CursorRow(a) EXCEPT !.acked = c]
           K == Put(db.cursors, a, cr)
           D == IF c > CursorRow(a).acked THEN Settle(db.deliveries, Below(a, c))
                ELSE db.deliveries
<1>1. PollRecord(p) /\ a \in Agents /\ p.cursor \in Nat /\ p.limit \in Nat
  BY DEF Types, FlightType, PollRecord
<1>2. PICK ids, batch, next :
        /\ ids \in InSeqOrder(Deliverable(a, c))
        /\ batch = FirstOf(ids, p.limit)
        /\ next = IF batch = << >> THEN c
                  ELSE db.deliveries[batch[Len(batch)]].seq + 1
        /\ db' = [db EXCEPT !.cursors = K, !.deliveries = D,
                            !.messages = OfferAll(@, ToSet(batch))]
        /\ polls' = (polls \ {p}) \cup
             {[p EXCEPT !.phase = "apply", !.batch = batch, !.next = next,
                        !.at = [id \in ToSet(batch) |-> db'.messages[id].deliveredAt]]}
  BY DEF readDurableInbox
<1>3. UNCHANGED <<clock, messages, nextMessageID, up, creations, claimed, jobs,
                  cursors, arrived>>
  BY DEF readDurableInbox, vars, process, clients
<1> DEFINE M == OfferAll(db.messages, ToSet(batch))
           at == [id \in ToSet(batch) |-> db'.messages[id].deliveredAt]
           q == WithBatch(p, batch, next, at)
<1> HIDE DEF at
<1>4. q = [agent |-> p.agent, cursor |-> p.cursor, limit |-> p.limit,
           phase |-> "apply", batch |-> batch, at |-> at, next |-> next]
  BY <1>1, PollUpdate
<1>5. polls' = (polls \ {p}) \cup {q}
  BY <1>2 DEF at, WithBatch
<1>6. DOMAIN M = DOMAIN db.messages
  BY DEF OfferAll
<1>7. /\ DOMAIN D = DOMAIN db.deliveries
      /\ \A id \in DOMAIN db.deliveries :
           /\ RowStep(id, db.deliveries[id], D[id], got, clock)
           /\ D[id].status = "pending" => db.deliveries[id].status = "pending"
           /\ D[id].status \in Open => db.deliveries[id].status \in Open
           /\ D[id].target = a /\ D[id].seq < c => D[id].status \notin Open
  BY <1>3, ReadRows
<1>8. /\ cr.next = CursorRow(a).next
      /\ CursorRow(a).next = NextSeq(db.cursors, a)
      /\ c \in Nat /\ c <= NextSeq(db.cursors, a)
  <2>1. CursorRow(a) \in CursorPair
    BY CursorRowInOrder
  <2>2. cr.next = CursorRow(a).next
    BY <2>1 DEF CursorPair
  <2> QED
    BY <1>1, <2>2, ClampedBelow
<1> HIDE DEF cr
<1>9. \A b \in Agents : NextSeq(K, b) = NextSeq(db.cursors, b)
  BY <1>8 DEF Put, NextSeq
<1> HIDE DEF M, D, K, at, q
<1>10. /\ db'.messages = M /\ db'.deliveries = D
       /\ db'.counters = db.counters /\ db'.cursors = K
  BY <1>2 DEF Types, DatabaseType, M
<1>11. RowsMoved(got)
  BY <1>3, <1>7, <1>9, <1>10, RowsInPlaceBy
<1>12. KeepsNumbers
  BY <1>3, <1>6, <1>10 DEF KeepsNumbers
<1>13. KeepsPush
  BY <1>3, <1>7, <1>10 DEF KeepsPush
<1>14. \A id \in DOMAIN db.deliveries : D[id].seq = db.deliveries[id].seq
                                        /\ D[id].target = db.deliveries[id].target
                                        /\ D[id].expiresAt = db.deliveries[id].expiresAt
  BY <1>7 DEF RowStep
<1>15. /\ clock \in Nat /\ now \in Nat /\ now <= clock
       /\ NextSeq(db.cursors, a) \in Nat
       /\ \A id \in DOMAIN db.deliveries :
            /\ db.deliveries[id].seq \in Nat /\ db.deliveries[id].expiresAt \in Nat
  BY RowTypes
<1>16. CASE batch = << >>
  <2>1. next = c
    BY <1>2, <1>16
  <2>2. CoveredTo(D, a, next, ToSet(batch), clock)
    BY <1>7, <2>1 DEF CoveredTo
  <2>3. next <= NextSeq(K, a)
    BY <1>1, <1>8, <1>9, <2>1
  <2> QED
    BY <1>1, <1>3, <1>4, <1>5, <1>10, <1>11, <1>12, <1>13, <2>2, <2>3 DEF ReadsAs
<1>17. CASE batch # << >>
  <2> DEFINE last == batch[Len(batch)]
  <2> HIDE DEF c
  <2>1. /\ last \in DOMAIN db.deliveries
        /\ db.deliveries[last].target = a
        /\ \A id \in Deliverable(a, c) :
             db.deliveries[id].seq <= db.deliveries[last].seq => id \in ToSet(batch)
    <3>1. /\ p.limit \in Nat /\ ids \in InSeqOrder(Deliverable(a, c))
          /\ batch = FirstOf(ids, p.limit) /\ batch # << >>
      BY <1>1, <1>2, <1>17
    <3> HIDE DEF a
    <3> QED
      BY <3>1, BatchCovers
  <2>2. next = db.deliveries[last].seq + 1
    BY <1>2, <1>17
  <2> HIDE DEF last
  <2>3. next <= NextSeq(K, a)
    <3>1. db.deliveries[last].seq < NextSeq(db.cursors, a)
      BY <2>1 DEF Numbering
    <3>2. db.deliveries[last].seq \in Nat
      BY <1>15, <2>1
    <3>3. NextSeq(K, a) = NextSeq(db.cursors, a)
      BY <1>1, <1>9
    <3> QED
      BY <1>15, <2>2, <3>1, <3>2, <3>3
  <2>4. CoveredTo(D, a, next, ToSet(batch), clock)
    <3> SUFFICES ASSUME NEW id \in DOMAIN D, D[id].target = a, D[id].seq < next,
                        D[id].status \in Open
                 PROVE  id \in ToSet(batch) \/ D[id].expiresAt <= clock
      BY DEF CoveredTo
    <3>1. /\ id \in DOMAIN db.deliveries
          /\ db.deliveries[id].seq \in Nat /\ db.deliveries[last].seq \in Nat
          /\ db.deliveries[id].expiresAt \in Nat
      BY <1>7, <1>15, <2>1
    <3>2. /\ db.deliveries[id].target = a /\ db.deliveries[id].status \in Open
          /\ D[id].seq = db.deliveries[id].seq
          /\ D[id].expiresAt = db.deliveries[id].expiresAt
      BY <1>7, <1>14, <3>1
    <3>3. ~(D[id].seq < c)
      BY <1>7, <3>1
    <3>4. /\ db.deliveries[id].seq >= c
          /\ db.deliveries[id].seq <= db.deliveries[last].seq
      BY <1>8, <2>2, <3>1, <3>2, <3>3
    <3>5. CASE db.deliveries[id].expiresAt <= now
      BY <1>15, <3>1, <3>2, <3>5
    <3>6. CASE db.deliveries[id].expiresAt > now
      <4>1. id \in Deliverable(a, c)
        BY <3>1, <3>2, <3>4, <3>6 DEF Deliverable
      <4> QED
        BY <2>1, <3>4, <4>1
    <3> QED
      BY <1>15, <3>1, <3>5, <3>6
  <2> QED
    BY <1>1, <1>3, <1>4, <1>5, <1>10, <1>11, <1>12, <1>13, <2>3, <2>4 DEF ReadsAs
<1> QED
  BY <1>16, <1>17

LEMMA ReadDelivery ==
  ASSUME Types, CursorsInOrder, Numbering, Returned, NEW p \in polls,
         readDurableInbox(p)
  PROVE  ReadsBatch
<1>1. p.agent \in Agents /\ p.cursor \in cursors[p.agent]
  BY DEF Types, FlightType, PollRecord, Returned
<1>2. arrived' = arrived
  BY DEF readDurableInbox, clients
<1>3. CoveredTo(db.deliveries, p.agent, p.cursor, arrived', clock)
  BY <1>1, <1>2 DEF Returned
<1>4. ASSUME NEW got, got = arrived'
      PROVE  ReadsAs(got)
  BY <1>3, <1>4, ReadAs
<1> QED
  BY <1>4 DEF ReadsBatch


\* The response of a poll, which may be lost.
LEMMA FinishDelivery ==
  ASSUME Types, NEW p \in polls, NEW arrives \in BOOLEAN, FinishPoll(p, arrives)
  PROVE  Answers
<1>1. /\ UNCHANGED <<clock, nextMessageID, db, up, creations, claimed, jobs>>
      /\ p.phase = "apply" /\ polls' = polls \ {p}
      /\ arrived \subseteq arrived'
      /\ \/ cursors' = cursors
         \/ /\ cursors' = [cursors EXCEPT ![p.agent] = @ \cup {p.next}]
            /\ ToSet(p.batch) \subseteq arrived'
  BY DEF FinishPoll, process
<1>2. DOMAIN messages' = DOMAIN messages
  BY OfferKeepsIds DEF FinishPoll
<1>3. RowsMove
  BY <1>1, RowTypes, SameRows
<1>4. KeepsNumbers /\ KeepsPush
  BY <1>1, <1>2 DEF KeepsNumbers, KeepsPush
<1> QED
  BY <1>1, <1>3, <1>4 DEF Answers

(***************************************************************************)
(* Acceptance, and all steps together                                      *)
(***************************************************************************)
\* A message, its row and the counter are written in one transaction.
LEMMA AcceptDelivery ==
  ASSUME Types, Numbers, up, NEW m, AcceptsMessage(nextMessageID + 1, m),
         AcceptDurably
  PROVE  AcceptsOne
<1> DEFINE id == nextMessageID + 1
           key == <<m.from, m.to, m.req>>
           C == Put(db.conversations, m.conv,
                    [participants  |-> conversations'[m.conv].participants,
                     lastMessageAt |-> now])
           M == Put(db.messages, id, m)
           L == Put(db.links, <<m.conv, Len(conversations'[m.conv].msgs) - 1>>, id)
           N == [conv |-> nextConversationID', msg |-> nextMessageID']
           D == IF m.to = Nobody THEN db.deliveries
                ELSE Put(db.deliveries, id, NewDelivery(m))
           cr == [next |-> CursorRow(m.to).next + 1, acked |-> CursorRow(m.to).acked]
           K == IF m.to = Nobody THEN db.cursors ELSE Put(db.cursors, m.to, cr)
           I == IF m.req = Injected THEN db.idempotency
                ELSE Put(db.idempotency, key, [msg |-> id, at |-> now])
<1>1. /\ m \in Message
      /\ messages' = Put(messages, id, m)
      /\ nextMessageID' = id
      /\ UNCHANGED <<clock, now, agents>>
  BY DEF AcceptsMessage
<1>2. id \in Nat /\ id = db.counters.msg + 1
  BY DEF Types, RuntimeType, Numbers
<1>3. messages'[id] = m /\ DOMAIN messages' = DOMAIN messages \cup {id}
  BY <1>1 DEF Put
<1>4. CursorRow(m.to) = [next |-> CursorRow(m.to).next, acked |-> CursorRow(m.to).acked]
  BY DEF Types, DatabaseType, CursorRow, CursorPair
<1>5. [CursorRow(m.to) EXCEPT !.next = @ + 1] = cr
  BY <1>4
<1>6. /\ db' = [db EXCEPT
           !.conversations = C, !.messages = M, !.links = L, !.counters = N,
           !.deliveries = D, !.cursors = K, !.idempotency = I]
      /\ UNCHANGED <<up, creations, polls, claimed, cursors, arrived>>
      /\ IF PushedAtOnce(m) THEN enqueuePushJob(id) ELSE jobs' = jobs
  BY <1>3, <1>5 DEF AcceptDurably, persistAcceptance, process, clients
<1> HIDE DEF C, M, L, N, D, K, I
<1>7. db' = [agents |-> db.agents, messages |-> M, deliveries |-> D,
             idempotency |-> I, conversations |-> C, links |-> L,
             counters |-> N, cursors |-> K]
  BY <1>6 DEF Types, DatabaseType
<1>8. /\ db'.messages = M /\ db'.deliveries = D
      /\ db'.counters = N /\ db'.cursors = K
  BY <1>7
<1>9. db'.counters.msg = id
  BY <1>1, <1>8 DEF N
<1> HIDE DEF id
<1>10. RowAdded(id, m)
  <2>1. clock' = clock /\ arrived' = arrived
    BY <1>1, <1>6
  <2>2. db'.messages = Put(db.messages, id, m)
    BY <1>8 DEF M
  <2>3. CASE m.to = Nobody
    <3>1. db'.deliveries = db.deliveries /\ db'.cursors = db.cursors
      BY <1>8, <2>3 DEF D, K
    <3> QED
      BY <1>2, <1>9, <2>1, <2>2, <2>3, <3>1 DEF RowAdded
  <2>4. CASE m.to # Nobody
    <3>1. /\ db'.deliveries = Put(db.deliveries, id, NewDelivery(m))
          /\ db'.cursors = Put(db.cursors, m.to, cr)
      BY <1>8, <2>4 DEF D, K
    <3> QED
      BY <1>2, <1>9, <2>1, <2>2, <2>4, <3>1 DEF RowAdded
  <2> QED
    BY <2>3, <2>4
<1>11. \/ jobs' = jobs
       \/ /\ m.to # Nobody => NewDelivery(m).status = "attempting"
          /\ \E phase \in {"queued", "failed"} :
               jobs' = Append(jobs, [msg |-> id, phase |-> phase])
  <2>1. CASE PushedAtOnce(m)
    <3>1. NewDelivery(m).status = "attempting"
      BY <2>1 DEF NewDelivery
    <3> QED
      BY <1>6, <2>1, <3>1, EnqueuedJob
  <2>2. CASE ~PushedAtOnce(m)
    BY <1>6, <2>2
  <2> QED
    BY <2>1, <2>2
<1>12. /\ UNCHANGED <<up, creations, polls, claimed, cursors>>
       /\ nextMessageID' = id /\ DOMAIN messages' = DOMAIN messages \cup {id}
  BY <1>1, <1>3, <1>6
<1> QED
  BY <1>1, <1>2, <1>10, <1>11, <1>12 DEF AcceptsOne


\* Every step is of one of the kinds.
LEMMA KindsLemma ==
  ASSUME DeliveryInv, [SqliteNext]_sqliteVars, [CountersKept]_sqliteVars
  PROVE  DeliveryKinds
<1>0. Types /\ JobsType /\ CursorsInOrder /\ Numbers /\ PushQueue /\ Numbering /\ Returned
  BY DEF DeliveryInv
<1>1. CASE UNCHANGED sqliteVars
  BY <1>0, <1>1, IdleOrdinary DEF DeliveryKinds, sqliteVars
<1>2. CASE SqliteNext /\ CountersKept
  <2>1. CASE (Tick \/ ReadClock) /\ UNCHANGED <<db, process, inFlight, clients>>
    BY <1>0, <2>1, IdleOrdinary DEF DeliveryKinds
  <2>2. CASE up /\ Runtime
    <3>1. CASE Sweep /\ UNCHANGED <<db, process, inFlight, clients>>
      BY <1>0, <2>2, <3>1, IdleOrdinary DEF DeliveryKinds
    <3>2. CASE \/ \E a \in Agents, ttl \in RegistrationTTLs, mode \in Modes :
                    BeginRegister(a, ttl, mode)
               \/ \E save \in saves, written \in BOOLEAN : saveAgent(save, written)
      BY <1>0, <2>2, <3>2, RegisterOrdinary DEF DeliveryKinds
    <3>3. CASE \/ \E actor \in Agents \cup {Nobody}, choice \in ConversationChoices,
                     names \in ParticipantChoices : BeginCreate(actor, choice, names)
               \/ \E c \in creations : ReadCounters(c) \/ CommitConversation(c)
      BY <1>0, <1>2, <2>2, <3>3, CreateOrdinary DEF DeliveryKinds
    <3>4. CASE \E from, to \in Agents, req \in RequestIDs, type \in SendTypes,
                 choice \in ConversationChoices, ttl \in MessageTTLs, size \in Sizes :
                 DurableSend(from, to, req, type, choice, ttl, size)
      <4>1. AcceptDurably /\ \E m : AcceptsMessage(nextMessageID + 1, m)
        BY <1>0, <3>4, SendAcceptsDurably DEF DurableSend, Types
      <4> QED
        BY <1>0, <2>2, <4>1, AcceptDelivery DEF DeliveryKinds
    <3>5. CASE \E to \in Agents \cup {Nobody}, choice \in ConversationChoices,
                 size \in Sizes : DurableInject(to, choice, size)
      <4>1. AcceptDurably /\ \E m : AcceptsMessage(nextMessageID + 1, m)
        BY <1>0, <3>5, InjectAcceptsDurably DEF DurableInject, Types
      <4> QED
        BY <1>0, <2>2, <4>1, AcceptDelivery DEF DeliveryKinds
    <3>6. CASE \E a \in Agents, id \in MessageIDs :
                 \/ \E status \in {"accepted", "rejected"} : DurableAck(a, id, status)
                 \/ \E type \in {"progress", "final", "error"} : DurableEvent(a, id, type)
                 \/ LateEvent(a, id)
      BY <1>0, <2>2, <3>6, ReplyOrdinary DEF DeliveryKinds
    <3>7. CASE \E a \in Agents, id \in MessageIDs : LateAck(a, id)
      BY <1>0, <2>2, <3>7, IdleOrdinary DEF DeliveryKinds
    <3>8. CASE \E a \in Agents, limit \in Limits : \E cursor \in cursors[a] :
                 BeginPoll(a, cursor, limit)
      BY <1>0, <2>2, <3>8, BeginPollOrdinary DEF DeliveryKinds
    <3>9. CASE \E p \in polls : readDurableInbox(p)
      BY <1>0, <2>2, <3>9, ReadDelivery DEF DeliveryKinds
    <3>10. CASE \E p \in polls, arrives \in BOOLEAN : FinishPoll(p, arrives)
      BY <1>0, <2>2, <3>10, FinishDelivery DEF DeliveryKinds
    <3> QED
      BY <2>2, <3>1, <3>2, <3>3, <3>4, <3>5, <3>6, <3>7, <3>8, <3>9, <3>10 DEF Runtime
  <2>3. CASE up /\ PushPool
    BY <1>0, <2>3, CallbackDelivery, RecordDelivery DEF PushPool, DeliveryKinds
  <2>4. CASE up /\ ~closing /\ Background
    BY <1>0, <2>4, ClaimDelivery, EnqueueDelivery, PruneOrdinary
       DEF Background, DeliveryKinds
  <2>5. CASE up /\ closePushWorkers
    BY <1>0, <2>5, IdleOrdinary DEF DeliveryKinds
  <2>6. CASE Close \/ Crash
    BY <1>0, <2>6, StopEnds DEF DeliveryKinds
  <2>7. CASE Restart
    BY <1>0, <2>7, RestartEnds DEF DeliveryKinds
  <2> QED
    BY <1>2, <2>1, <2>2, <2>3, <2>4, <2>5, <2>6, <2>7 DEF SqliteNext
<1> QED
  BY <1>1, <1>2

(***************************************************************************)
(* The invariant is inductive                                              *)
(***************************************************************************)
\* Ids stay below the committed counter.
LEMMA NumbersStep ==
  ASSUME Types, Types', Numbers, DeliveryKinds
  PROVE  Numbers'
<1>1. db.counters.msg \in Nat /\ nextMessageID \in Nat
  BY DEF Types, RuntimeType, DatabaseType
<1>2. \A id \in DOMAIN messages \cup DOMAIN db.messages :
        id \in Nat /\ id <= db.counters.msg
  BY DEF Numbers, Types, DatabaseType, MessageIDs
<1>7. \A id \in DOMAIN db'.messages : id \in Nat
  BY DEF Types, DatabaseType, MessageIDs
<1>3. CASE Ordinary /\ UNCHANGED inFlight
  BY <1>1, <1>2, <1>3 DEF Numbers, Ordinary, KeepsNumbers, RowsMove, RowsMoved, inFlight
<1>6. CASE up /\ (\/ Ordinary \/ ReadsBatch \/ Answers \/ Claims \/ Enqueues
                 \/ CallsBack \/ Records)
  <2>1. KeepsNumbers /\ db'.counters.msg = db.counters.msg
    BY <1>6 DEF Ordinary, ReadsBatch, ReadsAs, Answers, Claims, Enqueues, CallsBack, Records,
                RowsMove, RowsMoved
  <2>2. \A c \in creations' : c.counters # << >> => c.counters[2] <= nextMessageID
    BY <1>1, <1>6, <2>1 DEF Numbers, KeepsNumbers
  <2> QED
    BY <1>2, <1>6, <2>1, <2>2 DEF Numbers, KeepsNumbers
<1>4. CASE Ends
  BY <1>2, <1>4, <1>7 DEF Numbers, Ends, RowsMove, RowsMoved
<1>5. CASE up /\ AcceptsOne
  <2>1. PICK id \in Nat, m \in Message :
          /\ id = db.counters.msg + 1 /\ db'.counters.msg = id
          /\ db'.messages = Put(db.messages, id, m)
          /\ UNCHANGED <<up, creations, polls, claimed>>
          /\ nextMessageID' = id
          /\ DOMAIN messages' = DOMAIN messages \cup {id}
    BY <1>5 DEF AcceptsOne, RowAdded
  <2>2. DOMAIN db'.messages = DOMAIN db.messages \cup {id}
    BY <2>1 DEF Put
  <2>3. \A c \in creations : c.counters # << >> => c.counters[2] \in Nat
    BY DEF Types, FlightType, CreationType
  <2>4. \A c \in creations' : c.counters # << >> => c.counters[2] <= nextMessageID'
    <3> SUFFICES ASSUME NEW c \in creations', c.counters # << >>
                 PROVE  c.counters[2] <= nextMessageID'
      OBVIOUS
    <3>1. c.counters[2] \in Nat /\ c.counters[2] <= nextMessageID
      BY <2>1, <2>3 DEF Numbers
    <3>2. nextMessageID' = nextMessageID + 1
      BY <1>5, <2>1 DEF Numbers
    <3> QED
      BY <1>1, <3>1, <3>2
  <2>5. \A i \in DOMAIN messages' \cup DOMAIN db'.messages :
          i \in Nat /\ i <= db'.counters.msg
    <3> SUFFICES ASSUME NEW i \in DOMAIN messages' \cup DOMAIN db'.messages
                 PROVE  i \in Nat /\ i <= db'.counters.msg
      OBVIOUS
    <3>1. CASE i = id
      BY <2>1, <3>1
    <3>2. CASE i \in DOMAIN messages \cup DOMAIN db.messages
      <4>1. i <= db.counters.msg
        BY <1>2, <3>2
      <4>2. i \in Nat
        BY <1>2, <3>2
      <4> QED
        BY <1>1, <2>1, <4>1, <4>2
    <3> QED
      BY <2>1, <2>2, <3>1, <3>2
  <2> QED
    BY <1>5, <2>1, <2>4, <2>5 DEF Numbers
<1> QED
  BY <1>3, <1>4, <1>5, <1>6 DEF DeliveryKinds


\* All kinds but acceptance move the rows.
LEMMA KindsMove ==
  ASSUME DeliveryKinds
  PROVE  RowsMove \/ AcceptsOne
BY DEF DeliveryKinds, Ordinary, ReadsBatch, ReadsAs, RowsMove, Answers, Claims, Enqueues,
       CallsBack, Records, Ends

\* The row of an accepted message, and what it leaves alone.
LEMMA AddedRow ==
  ASSUME Types, Numbers, NEW id \in Nat, NEW m \in Message, RowAdded(id, m)
  PROVE  /\ id \notin DOMAIN db.deliveries /\ id \notin DOMAIN db.messages
         /\ DOMAIN db'.messages = DOMAIN db.messages \cup {id}
         /\ \A i \in DOMAIN db.deliveries :
              /\ i \in DOMAIN db'.deliveries
              /\ db'.deliveries[i] = db.deliveries[i]
         /\ m.to = Nobody => DOMAIN db'.deliveries = DOMAIN db.deliveries
         /\ m.to # Nobody =>
              /\ DOMAIN db'.deliveries = DOMAIN db.deliveries \cup {id}
              /\ db'.deliveries[id] = NewDelivery(m)
              /\ m.to \in Agents
              /\ NewDelivery(m) \in Delivery
              /\ NewDelivery(m).target = m.to
              /\ NewDelivery(m).seq = NextSeq(db.cursors, m.to)
              /\ NextSeq(db'.cursors, m.to) = NextSeq(db.cursors, m.to) + 1
         /\ \A a \in Agents :
              a # m.to => NextSeq(db'.cursors, a) = NextSeq(db.cursors, a)
<1>1. db.counters.msg \in Nat /\ id = db.counters.msg + 1
  BY RowTypes DEF RowAdded
<1>2. id \notin DOMAIN db.messages
  <2>1. id \in DOMAIN db.messages => id <= db.counters.msg
    BY DEF Numbers
  <2> QED
    BY <1>1, <2>1
<1>3. id \notin DOMAIN db.deliveries
  BY <1>2, RowTypes
<1>4. DOMAIN db'.messages = DOMAIN db.messages \cup {id}
  BY DEF RowAdded, Put
<1>5. CASE m.to = Nobody
  <2>1. db'.deliveries = db.deliveries /\ db'.cursors = db.cursors
    BY <1>5 DEF RowAdded
  <2> QED
    BY <1>2, <1>3, <1>4, <1>5, <2>1
<1>6. CASE m.to # Nobody
  <2> DEFINE d == NewDelivery(m)
             cr == [next  |-> CursorRow(m.to).next + 1, acked |-> CursorRow(m.to).acked]
  <2>1. d \in Delivery /\ m.to \in Agents
    BY <1>6, NewDeliveryType, MessageTypes
  <2>2. d.target = m.to /\ d.seq = CursorRow(m.to).next
    BY DEF NewDelivery
  <2>3. CursorRow(m.to).next = NextSeq(db.cursors, m.to)
    BY DEF CursorRow, NextSeq
  <2>4. cr.next = NextSeq(db.cursors, m.to) + 1
    BY <2>3
  <2>5. db'.deliveries = Put(db.deliveries, id, d)
    BY <1>6 DEF RowAdded
  <2>6. db'.cursors = Put(db.cursors, m.to, cr)
    BY <1>6 DEF RowAdded
  <2> HIDE DEF d, cr
  <2>7. /\ DOMAIN db'.deliveries = DOMAIN db.deliveries \cup {id}
        /\ db'.deliveries[id] = d
        /\ \A i \in DOMAIN db.deliveries : db'.deliveries[i] = db.deliveries[i]
    BY <1>3, <2>5 DEF Put
  <2>8. /\ NextSeq(db'.cursors, m.to) = cr.next
        /\ \A a \in Agents : a # m.to => NextSeq(db'.cursors, a) = NextSeq(db.cursors, a)
    BY <2>6 DEF NextSeq, Put
  <2> QED
    BY <1>2, <1>3, <1>4, <1>6, <2>1, <2>2, <2>3, <2>4, <2>7, <2>8 DEF d
<1> QED
  BY <1>5, <1>6

\* No sequence number is used twice.
LEMMA NumberingStep ==
  ASSUME Types, Numbers, Numbering, DeliveryKinds
  PROVE  Numbering'
<1>1. CASE RowsMove
  <2>1. \A id \in DOMAIN db'.deliveries :
          /\ id \in DOMAIN db.deliveries
          /\ db'.deliveries[id].target = db.deliveries[id].target
          /\ db'.deliveries[id].seq = db.deliveries[id].seq
    BY <1>1 DEF RowsMove, RowsMoved, RowStep
  <2>2. \A id \in DOMAIN db.deliveries : db.deliveries[id].target \in Agents
    BY RowTypes
  <2>3. \A a \in Agents : NextSeq(db'.cursors, a) = NextSeq(db.cursors, a)
    BY <1>1 DEF RowsMove, RowsMoved
  <2> QED
    BY <2>1, <2>2, <2>3 DEF Numbering
<1>2. CASE AcceptsOne
  <2>1. PICK id \in Nat, m \in Message : RowAdded(id, m)
    BY <1>2 DEF AcceptsOne
  <2>2. /\ \A i \in DOMAIN db.deliveries :
             /\ db'.deliveries[i] = db.deliveries[i]
             /\ db.deliveries[i].target \in Agents /\ db.deliveries[i].seq \in Nat
             /\ db.deliveries[i].seq < NextSeq(db.cursors, db.deliveries[i].target)
        /\ \A a \in Agents : NextSeq(db.cursors, a) \in Nat
    BY <2>1, AddedRow, RowTypes DEF Numbering
  <2>3. \A a \in Agents : NextSeq(db.cursors, a) <= NextSeq(db'.cursors, a)
    <3> SUFFICES ASSUME NEW a \in Agents
                 PROVE  NextSeq(db.cursors, a) <= NextSeq(db'.cursors, a)
      OBVIOUS
    <3>1. CASE a = m.to
      <4>1. a # Nobody
        BY InputAssumption
      <4>2. NextSeq(db'.cursors, a) = NextSeq(db.cursors, a) + 1
        BY <2>1, <3>1, <4>1, AddedRow
      <4> QED
        BY <2>2, <4>2
    <3>2. CASE a # m.to
      BY <2>1, <2>2, <3>2, AddedRow
    <3> QED
      BY <3>1, <3>2
  <2>4. CASE m.to = Nobody
    <3>1. DOMAIN db'.deliveries = DOMAIN db.deliveries
          /\ db'.cursors = db.cursors
      BY <2>1, <2>4, AddedRow DEF RowAdded
    <3> QED
      BY <2>2, <3>1 DEF Numbering
  <2>5. CASE m.to # Nobody
    <3>1. /\ DOMAIN db'.deliveries = DOMAIN db.deliveries \cup {id}
          /\ db'.deliveries[id].target = m.to /\ m.to \in Agents
          /\ db'.deliveries[id].seq = NextSeq(db.cursors, m.to)
          /\ NextSeq(db'.cursors, m.to) = NextSeq(db.cursors, m.to) + 1
      BY <2>1, <2>5, AddedRow
    <3>2. \A i \in DOMAIN db.deliveries :
            /\ db'.deliveries[i].seq < NextSeq(db'.cursors, db'.deliveries[i].target)
            /\ db'.deliveries[i].target = m.to =>
                 db'.deliveries[i].seq < NextSeq(db.cursors, m.to)
      <4> SUFFICES ASSUME NEW i \in DOMAIN db.deliveries
                   PROVE  /\ db'.deliveries[i].seq < NextSeq(db'.cursors, db'.deliveries[i].target)
                          /\ db'.deliveries[i].target = m.to =>
                               db'.deliveries[i].seq < NextSeq(db.cursors, m.to)
        OBVIOUS
      <4> DEFINE a == db.deliveries[i].target
                 n == NextSeq(db.cursors, a)
                 nn == NextSeq(db'.cursors, a)
      <4>1. /\ db'.deliveries[i] = db.deliveries[i] /\ a \in Agents
            /\ db.deliveries[i].seq \in Nat /\ db.deliveries[i].seq < n
            /\ n \in Nat /\ n <= nn
        BY <2>2, <2>3
      <4>2. nn \in Nat
        <5>1. CASE a = m.to
          BY <2>2, <3>1, <5>1
        <5>2. CASE a # m.to
          <6>1. nn = n
            BY <2>1, <4>1, <5>2, AddedRow
          <6> QED
            BY <4>1, <6>1
        <5> QED
          BY <5>1, <5>2
      <4> HIDE DEF n, nn
      <4>3. db.deliveries[i].seq < nn
        BY <4>1, <4>2
      <4> QED
        BY <4>1, <4>3 DEF n, nn
    <3>3. NextSeq(db.cursors, m.to) \in Nat
      BY <2>2, <3>1
    <3>4. \A i, j \in DOMAIN db.deliveries :
            /\ db'.deliveries[i].target = db'.deliveries[j].target
            /\ db'.deliveries[i].seq = db'.deliveries[j].seq
            => i = j
      BY <2>2 DEF Numbering
    <3>5. \A i \in DOMAIN db.deliveries :
            db'.deliveries[i].target = m.to =>
              db'.deliveries[i].seq # db'.deliveries[id].seq
      BY <2>2, <3>1, <3>2, <3>3
    <3>6. db'.deliveries[id].seq < NextSeq(db'.cursors, m.to)
      BY <3>1, <3>3
    <3> QED
      BY <3>1, <3>2, <3>4, <3>5, <3>6 DEF Numbering
  <2> QED
    BY <2>4, <2>5
<1> QED
  BY <1>1, <1>2, KindsMove


\* A covered prefix stays covered.
LEMMA CoveredMore ==
  ASSUME Types, Types', Numbers, DeliveryKinds, NEW a \in Agents, NEW c \in Nat,
         NEW got, NEW more, got \subseteq more,
         c <= NextSeq(db.cursors, a),
         CoveredTo(db.deliveries, a, c, got, clock)
  PROVE  /\ c <= NextSeq(db'.cursors, a)
         /\ CoveredTo(db'.deliveries, a, c, more, clock')
<1>0. /\ clock \in Nat /\ NextSeq(db.cursors, a) \in Nat
      /\ \A id \in DOMAIN db.deliveries : /\ db.deliveries[id].expiresAt \in Nat
                                          /\ db.deliveries[id].seq \in Nat
  BY RowTypes
<1>1. CASE RowsMove
  <2>1. c <= NextSeq(db'.cursors, a)
    BY <1>1 DEF RowsMove, RowsMoved
  <2>2. ASSUME NEW id \in DOMAIN db'.deliveries,
               db'.deliveries[id].target = a, db'.deliveries[id].seq < c,
               db'.deliveries[id].status \in Open
        PROVE  id \in more \/ db'.deliveries[id].expiresAt <= clock'
    <3>1. /\ id \in DOMAIN db.deliveries /\ clock <= clock' /\ clock' \in Nat
          /\ db.deliveries[id].target = a /\ db.deliveries[id].seq < c
          /\ db'.deliveries[id].expiresAt = db.deliveries[id].expiresAt
          /\ db.deliveries[id].status \in Open
      BY <1>1, <2>2 DEF RowsMove, RowsMoved, RowStep, Types, RuntimeType
    <3>2. id \in got \/ db.deliveries[id].expiresAt <= clock
      BY <3>1 DEF CoveredTo
    <3> QED
      BY <1>0, <3>1, <3>2
  <2> QED
    BY <2>1, <2>2 DEF CoveredTo
<1>2. CASE AcceptsOne
  <2>1. PICK id \in Nat, m \in Message : RowAdded(id, m)
    BY <1>2 DEF AcceptsOne
  <2>2. clock' = clock
    BY <2>1 DEF RowAdded
  <2>3. CASE m.to = a
    <3>1. a # Nobody
      BY InputAssumption
    <3>2. /\ DOMAIN db'.deliveries = DOMAIN db.deliveries \cup {id}
          /\ db'.deliveries[id].seq = NextSeq(db.cursors, a)
          /\ NextSeq(db'.cursors, a) = NextSeq(db.cursors, a) + 1
      BY <2>1, <2>3, <3>1, AddedRow
    <3>3. \A i \in DOMAIN db.deliveries : db'.deliveries[i] = db.deliveries[i]
      BY <2>1, AddedRow
    <3>4. c <= NextSeq(db'.cursors, a)
      BY <1>0, <3>2
    <3>5. ~(db'.deliveries[id].seq < c)
      BY <1>0, <3>2
    <3> QED
      BY <2>2, <3>2, <3>3, <3>4, <3>5 DEF CoveredTo
  <2>4. CASE m.to # a
    <3>1. /\ NextSeq(db'.cursors, a) = NextSeq(db.cursors, a)
          /\ \A i \in DOMAIN db.deliveries : db'.deliveries[i] = db.deliveries[i]
      BY <2>1, <2>4, AddedRow
    <3>2. \A i \in DOMAIN db'.deliveries :
            i \in DOMAIN db.deliveries \/ db'.deliveries[i].target # a
      BY <2>1, <2>4, AddedRow
    <3> QED
      BY <2>2, <3>1, <3>2 DEF CoveredTo
  <2> QED
    BY <2>3, <2>4
<1> QED
  BY <1>1, <1>2, KindsMove

\* What clients have and what they are about to get stays below their cursors.
LEMMA ReturnedStep ==
  ASSUME Types, Types', Numbers, Returned, DeliveryKinds
  PROVE  Returned'
<1>1. /\ \A a \in Agents : cursors[a] \subseteq Nat
      /\ cursors \in [Agents -> SUBSET Nat]
      /\ \A p \in polls : p.agent \in Agents /\ p.next \in Nat
  BY DEF Types, FlightType, PollRecord
<1>2. arrived \subseteq arrived'
  BY KindsMove DEF RowsMove, RowsMoved, AcceptsOne, RowAdded
<1>3. \A a \in Agents : \A c \in cursors[a] :
        /\ c <= NextSeq(db'.cursors, a)
        /\ CoveredTo(db'.deliveries, a, c, arrived', clock')
  BY <1>1, <1>2, CoveredMore DEF Returned
<1>4. ASSUME NEW p \in polls, p.phase = "apply", NEW more,
             arrived \cup ToSet(p.batch) \subseteq more
      PROVE  /\ p.next <= NextSeq(db'.cursors, p.agent)
             /\ CoveredTo(db'.deliveries, p.agent, p.next, more, clock')
  BY <1>1, <1>4, CoveredMore DEF Returned
<1>5. \A p \in polls :
        p.phase = "apply" =>
          /\ p.next <= NextSeq(db'.cursors, p.agent)
          /\ CoveredTo(db'.deliveries, p.agent, p.next,
                       arrived' \cup ToSet(p.batch), clock')
  <2> SUFFICES ASSUME NEW p \in polls, p.phase = "apply"
               PROVE  /\ p.next <= NextSeq(db'.cursors, p.agent)
                      /\ CoveredTo(db'.deliveries, p.agent, p.next,
                                   arrived' \cup ToSet(p.batch), clock')
    OBVIOUS
  <2>1. arrived \cup ToSet(p.batch) \subseteq arrived' \cup ToSet(p.batch)
    BY <1>2
  <2> QED
    BY <1>4, <2>1
<1>6. CASE KeepsClients
  BY <1>3, <1>5, <1>6 DEF KeepsClients, Returned
<1>7. CASE AcceptsOne
  <2>1. cursors' = cursors /\ polls' = polls
    BY <1>7 DEF AcceptsOne
  <2> QED
    BY <1>3, <1>5, <2>1 DEF Returned
<1>8. CASE ReadsBatch
  <2>1. PICK p, q :
          /\ p \in polls /\ polls' = (polls \ {p}) \cup {q}
          /\ q.agent = p.agent /\ q.agent \in Agents /\ q.cursor = p.cursor
          /\ q.next <= NextSeq(db'.cursors, q.agent)
          /\ CoveredTo(db'.deliveries, q.agent, q.next, ToSet(q.batch), clock)
    BY <1>8 DEF ReadsBatch, ReadsAs
  <2>2. cursors' = cursors /\ clock <= clock'
    BY <1>8 DEF ReadsBatch, ReadsAs, RowsMove, RowsMoved
  <2>3. /\ clock \in Nat /\ clock' \in Nat
        /\ \A id \in DOMAIN db'.deliveries : db'.deliveries[id].expiresAt \in Nat
    BY DEF Types, RuntimeType, DatabaseType, Delivery
  <2>4. CoveredTo(db'.deliveries, q.agent, q.next, arrived' \cup ToSet(q.batch), clock')
    BY <2>1, <2>2, <2>3 DEF CoveredTo
  <2>5. q.cursor \in cursors[q.agent]
    BY <2>1 DEF Returned
  <2> QED
    BY <1>3, <1>5, <2>1, <2>2, <2>4, <2>5 DEF Returned
<1>9. CASE Answers
  <2>1. PICK p \in polls :
          /\ p.phase = "apply" /\ polls' = polls \ {p}
          /\ \/ cursors' = cursors
             \/ /\ cursors' = [cursors EXCEPT ![p.agent] = @ \cup {p.next}]
                /\ ToSet(p.batch) \subseteq arrived'
    BY <1>9 DEF Answers
  <2>2. CASE cursors' = cursors
    BY <1>3, <1>5, <2>1, <2>2 DEF Returned
  <2>3. CASE /\ cursors' = [cursors EXCEPT ![p.agent] = @ \cup {p.next}]
             /\ ToSet(p.batch) \subseteq arrived'
    <3>1. /\ p.next <= NextSeq(db'.cursors, p.agent)
          /\ CoveredTo(db'.deliveries, p.agent, p.next, arrived', clock')
      BY <1>2, <1>4, <2>1, <2>3
    <3>2. \A a \in Agents :
            /\ cursors[a] \subseteq cursors'[a]
            /\ \A c \in cursors'[a] :
                 \/ c \in cursors[a]
                 \/ a = p.agent /\ c = p.next
      <4> DEFINE new == cursors[p.agent] \cup {p.next}
      <4>1. cursors' = [cursors EXCEPT ![p.agent] = new]
        BY <2>3
      <4>2. \A a \in Agents : cursors'[a] = IF a = p.agent THEN new ELSE cursors[a]
        <5> HIDE DEF new
        <5> QED
          BY <1>1, <4>1
      <4> QED
        BY <4>2
    <3>3. \A a \in Agents : \A c \in cursors'[a] :
            /\ c <= NextSeq(db'.cursors, a)
            /\ CoveredTo(db'.deliveries, a, c, arrived', clock')
      BY <1>3, <3>1, <3>2
    <3> QED
      BY <1>1, <1>5, <2>1, <3>2, <3>3 DEF Returned
  <2> QED
    BY <2>1, <2>2, <2>3
<1> QED
  BY <1>6, <1>7, <1>8, <1>9
     DEF DeliveryKinds, Ordinary, Claims, Enqueues, CallsBack, Records, Ends


(***************************************************************************)
(* The push queue                                                          *)
(***************************************************************************)
\* A job is appended, changes its phase, or is removed.
LEMMA AppendedJob ==
  ASSUME NEW s \in Seq(Job), NEW j \in Job
  PROVE  /\ DOMAIN Append(s, j) = DOMAIN s \cup {Len(s) + 1}
         /\ Append(s, j)[Len(s) + 1] = j
         /\ \A k \in DOMAIN s : Append(s, j)[k] = s[k] /\ k # Len(s) + 1
OBVIOUS

LEMMA ChangedJob ==
  ASSUME NEW s \in Seq(Job), NEW k \in DOMAIN s, NEW phase
  PROVE  LET t == [s EXCEPT ![k].phase = phase]
         IN  /\ DOMAIN t = DOMAIN s
             /\ \A i \in DOMAIN s : t[i].msg = s[i].msg
             /\ t[k].phase = phase
             /\ \A i \in DOMAIN s : i # k => t[i] = s[i]
<1>1. s \in [1..Len(s) -> Job] /\ \A i \in DOMAIN s : s[i] \in Job
  OBVIOUS
<1> DEFINE j == [s[k] EXCEPT !.phase = phase]
<1>2. j.msg = s[k].msg /\ j.phase = phase
  BY <1>1 DEF Job
<1>3. [s EXCEPT ![k].phase = phase] = [s EXCEPT ![k] = j]
  OBVIOUS
<1> HIDE DEF j
<1> QED
  BY <1>1, <1>2, <1>3

LEMMA RemovedJob ==
  ASSUME NEW s \in Seq(Job), NEW k \in DOMAIN s
  PROVE  /\ DOMAIN RemoveAt(s, k) \subseteq Nat
         /\ \A i \in DOMAIN RemoveAt(s, k) :
              /\ (IF i < k THEN i ELSE i + 1) \in DOMAIN s
              /\ RemoveAt(s, k)[i] = s[IF i < k THEN i ELSE i + 1]
<1>1. k \in 1..Len(s) /\ Len(s) \in Nat /\ k \in Nat
  OBVIOUS
<1> DEFINE p == SubSeq(s, 1, k - 1)
           q == SubSeq(s, k + 1, Len(s))
<1>2. RemoveAt(s, k) = p \o q
  BY DEF RemoveAt
<1>3. p \in Seq(Job) /\ Len(p) = k - 1 /\ \A i \in 1..(k - 1) : p[i] = s[i]
  BY <1>1
<1>4. /\ q \in Seq(Job) /\ Len(q) = Len(s) - k
      /\ \A i \in 1..(Len(s) - k) : q[i] = s[k + i]
  BY <1>1
<1> HIDE DEF p, q
<1>5. /\ p \o q \in Seq(Job) /\ Len(p \o q) = Len(s) - 1
      /\ DOMAIN (p \o q) = 1..(Len(s) - 1)
  BY <1>1, <1>3, <1>4
<1>6. \A i \in 1..(Len(s) - 1) :
        (p \o q)[i] = IF i <= k - 1 THEN p[i] ELSE q[i - (k - 1)]
  <2>1. /\ Len(p \o q) = Len(p) + Len(q)
        /\ \A i \in 1..(Len(p) + Len(q)) :
             (p \o q)[i] = IF i <= Len(p) THEN p[i] ELSE q[i - Len(p)]
    BY <1>3, <1>4, ConcatProperties
  <2> QED
    BY <1>3, <1>5, <2>1
<1>7. ASSUME NEW i \in 1..(Len(s) - 1)
      PROVE  /\ (IF i < k THEN i ELSE i + 1) \in 1..Len(s)
             /\ (p \o q)[i] = s[IF i < k THEN i ELSE i + 1]
  <2>1. CASE i < k
    <3>1. i <= k - 1 /\ i \in 1..(k - 1) /\ i \in 1..Len(s)
      BY <1>1, <2>1
    <3> QED
      BY <1>3, <1>6, <2>1, <3>1
  <2>2. CASE ~(i < k)
    <3>1. (p \o q)[i] = q[i - (k - 1)]
      <4>1. ~(i <= k - 1)
        BY <1>1, <2>2
      <4> QED
        BY <1>6, <4>1
    <3>2. i - (k - 1) \in 1..(Len(s) - k) /\ k + (i - (k - 1)) = i + 1
      BY <1>1, <2>2
    <3>3. q[i - (k - 1)] = s[k + (i - (k - 1))]
      BY <1>4, <3>2
    <3>4. i + 1 \in 1..Len(s)
      BY <1>1
    <3> QED
      BY <2>2, <3>1, <3>2, <3>3, <3>4
  <2> QED
    BY <2>1, <2>2
<1>8. DOMAIN s = 1..Len(s)
  OBVIOUS
<1>9. 1..(Len(s) - 1) \subseteq Nat
  BY <1>1
<1> QED
  BY <1>2, <1>5, <1>7, <1>8, <1>9


\* Jobs that were there, or fewer, leave the queue in order.
LEMMA FewerJobs ==
  ASSUME Types, JobsType, PushQueue, RowsMove,
         claimed' \subseteq claimed,
         \/ jobs' = jobs /\ KeepsPush
         \/ jobs' = jobs /\ db'.deliveries = db.deliveries
  PROVE  PushQueue'
<1>1. /\ db'.counters.msg = db.counters.msg /\ arrived \subseteq arrived'
      /\ DOMAIN db'.deliveries \subseteq DOMAIN db.deliveries
  BY DEF RowsMove, RowsMoved
<1>2. \A id \in DOMAIN db'.deliveries :
        db'.deliveries[id].status = "pending" => db.deliveries[id].status = "pending"
  BY DEF KeepsPush
<1> QED
  BY <1>1, <1>2 DEF PushQueue, OnePushPerDelivery

\* Claims, jobs and rows keep together.
LEMMA PushQueueStep ==
  ASSUME Types, Types', JobsType, JobsType', Numbers, PushQueue, DeliveryKinds
  PROVE  PushQueue'
<1>1. /\ jobs \in Seq(Job) /\ db.counters.msg \in Nat /\ claimed \subseteq Nat
      /\ \A k \in DOMAIN jobs : jobs[k].msg \in MessageIDs
  <2>1. jobs \in Seq(Job) /\ claimed \subseteq MessageIDs
    BY DEF JobsType
  <2>2. \A k \in DOMAIN jobs : jobs[k] \in Job
    BY <2>1
  <2> QED
    BY <2>1, <2>2, RowTypes DEF MessageIDs, Job
<1>2. \A id \in DOMAIN db.deliveries : id <= db.counters.msg
  BY RowTypes DEF Numbers
<1>3. CASE Ordinary \/ ReadsBatch \/ Answers
  <2>1. RowsMove /\ KeepsPush
    BY <1>3 DEF Ordinary, ReadsBatch, ReadsAs, RowsMove, Answers
  <2>2. claimed' \subseteq claimed /\ jobs' = jobs
    BY <2>1 DEF KeepsPush
  <2> QED
    BY <2>1, <2>2, FewerJobs
<1>4. CASE Claims
  <2>1. /\ claimed = {} /\ jobs' = jobs
        /\ db'.counters.msg = db.counters.msg /\ arrived \subseteq arrived'
        /\ DOMAIN db'.deliveries \subseteq DOMAIN db.deliveries
        /\ \A id \in claimed' :
             /\ id \in DOMAIN db.deliveries /\ db.deliveries[id].status = "pending"
             /\ db'.deliveries[id].status # "pending"
        /\ \A id \in DOMAIN db'.deliveries :
             db'.deliveries[id].status = "pending" => db.deliveries[id].status = "pending"
    BY <1>4 DEF Claims, RowsMove, RowsMoved
  <2>2. \A k \in DOMAIN jobs : jobs[k].msg \notin claimed'
    BY <2>1 DEF PushQueue, OnePushPerDelivery
  <2> QED
    BY <1>2, <2>1, <2>2 DEF PushQueue, OnePushPerDelivery
<1>5. CASE Enqueues
  <2>1. PICK id \in claimed :
          /\ claimed' = claimed \ {id}
          /\ \/ jobs' = jobs
             \/ \E phase \in {"queued", "failed"} :
                  jobs' = Append(jobs, [msg |-> id, phase |-> phase])
    BY <1>5 DEF Enqueues
  <2>2. RowsMove /\ db'.deliveries = db.deliveries
    BY <1>5 DEF Enqueues
  <2>3. CASE jobs' = jobs
    <3>1. claimed' \subseteq claimed
      BY <2>1
    <3> QED
      BY <2>2, <2>3, <3>1, FewerJobs
  <2>4. CASE \E phase \in {"queued", "failed"} :
               jobs' = Append(jobs, [msg |-> id, phase |-> phase])
    <3>1. PICK phase \in {"queued", "failed"} :
            jobs' = Append(jobs, [msg |-> id, phase |-> phase])
      BY <2>4
    <3> DEFINE n == Len(jobs) + 1
               j == [msg |-> id, phase |-> phase]
    <3>2. j \in Job /\ j.msg = id /\ j.phase # "ok"
      BY <2>1 DEF Job, JobsType
    <3> HIDE DEF j
    <3>3. /\ DOMAIN jobs' = DOMAIN jobs \cup {n} /\ jobs'[n] = j
          /\ \A k \in DOMAIN jobs : jobs'[k] = jobs[k] /\ k # n
      BY <1>1, <3>1, <3>2, AppendedJob DEF j
    <3> HIDE DEF n
    <3>4. \A k \in DOMAIN jobs : jobs[k].msg # id
      BY <2>1 DEF PushQueue
    <3>5. /\ db'.counters.msg = db.counters.msg /\ arrived \subseteq arrived'
      BY <2>2 DEF RowsMove, RowsMoved
    <3> QED
      BY <2>1, <2>2, <3>2, <3>3, <3>4, <3>5 DEF PushQueue, OnePushPerDelivery
  <2> QED
    BY <2>1, <2>3, <2>4
<1>6. CASE CallsBack
  <2>1. PICK k \in DOMAIN jobs, phase \in {"ok", "failed"} :
          /\ jobs' = [jobs EXCEPT ![k].phase = phase]
          /\ phase = "ok" => jobs[k].msg \in arrived'
    BY <1>6 DEF CallsBack
  <2>2. /\ DOMAIN jobs' = DOMAIN jobs
        /\ \A i \in DOMAIN jobs : jobs'[i].msg = jobs[i].msg
        /\ jobs'[k].phase = phase
        /\ \A i \in DOMAIN jobs : i # k => jobs'[i] = jobs[i]
    <3> DEFINE t == [jobs EXCEPT ![k].phase = phase]
    <3>1. /\ DOMAIN t = DOMAIN jobs
          /\ \A i \in DOMAIN jobs : t[i].msg = jobs[i].msg
          /\ t[k].phase = phase
          /\ \A i \in DOMAIN jobs : i # k => t[i] = jobs[i]
      BY <1>1, <2>1, ChangedJob
    <3>2. jobs' = t
      BY <2>1
    <3> HIDE DEF t
    <3> QED
      BY <3>1, <3>2
  <2>3. /\ db'.deliveries = db.deliveries /\ claimed' = claimed
        /\ db'.counters.msg = db.counters.msg /\ arrived \subseteq arrived'
    BY <1>6 DEF CallsBack, RowsMove, RowsMoved
  <2> QED
    BY <2>1, <2>2, <2>3 DEF PushQueue, OnePushPerDelivery
<1>7. CASE Records
  <2>1. PICK k \in DOMAIN jobs :
          /\ jobs' = RemoveAt(jobs, k)
          /\ \A id \in DOMAIN db'.deliveries :
               /\ db'.deliveries[id].status = "pending"
               /\ id # jobs[k].msg
               => db.deliveries[id].status = "pending"
    BY <1>7 DEF Records
  <2>2. /\ claimed' = claimed /\ DOMAIN db'.deliveries \subseteq DOMAIN db.deliveries
        /\ db'.counters.msg = db.counters.msg /\ arrived \subseteq arrived'
    BY <1>7 DEF Records, RowsMove, RowsMoved
  <2> DEFINE old(i) == IF i < k THEN i ELSE i + 1
  <2>3. \A i \in DOMAIN jobs' : i \in Nat /\ old(i) \in DOMAIN jobs
                                /\ jobs'[i] = jobs[old(i)]
    BY <1>1, <2>1, RemovedJob
  <2>4. k \in Nat
    BY <1>1
  <2>5. \A i, j \in DOMAIN jobs' : /\ old(i) = old(j) => i = j
                                   /\ old(i) # k
    BY <2>3, <2>4
  <2> HIDE DEF old
  <2>6. \A i \in DOMAIN jobs' : jobs'[i].msg # jobs[k].msg
    BY <2>1, <2>3, <2>5 DEF PushQueue, OnePushPerDelivery
  <2>7. \A i, j \in DOMAIN jobs' : jobs'[i].msg = jobs'[j].msg => i = j
    BY <2>3, <2>5 DEF PushQueue, OnePushPerDelivery
  <2>8. \A id \in DOMAIN db'.deliveries :
          (id \in claimed' \/ \E i \in DOMAIN jobs' : jobs'[i].msg = id) =>
             db'.deliveries[id].status # "pending"
    <3> SUFFICES ASSUME NEW id \in DOMAIN db'.deliveries,
                        id \in claimed' \/ \E i \in DOMAIN jobs' : jobs'[i].msg = id
                 PROVE  db'.deliveries[id].status # "pending"
      OBVIOUS
    <3>1. id # jobs[k].msg
      BY <2>2, <2>6 DEF PushQueue
    <3>2. id \in claimed \/ \E i \in DOMAIN jobs : jobs[i].msg = id
      BY <2>2, <2>3
    <3>3. db.deliveries[id].status # "pending"
      BY <2>2, <3>2 DEF PushQueue, OnePushPerDelivery
    <3> QED
      BY <2>1, <3>1, <3>3
  <2> QED
    BY <2>2, <2>3, <2>7, <2>8 DEF PushQueue, OnePushPerDelivery
<1>8. CASE Ends
  <2>1. claimed' = {} /\ DOMAIN jobs' = {}
    BY <1>8 DEF Ends
  <2> QED
    BY <2>1 DEF PushQueue, OnePushPerDelivery
<1>9. CASE AcceptsOne
  <2>1. PICK id \in Nat, m \in Message :
          /\ RowAdded(id, m)
          /\ claimed' = claimed
          /\ \/ jobs' = jobs
             \/ /\ m.to # Nobody => NewDelivery(m).status = "attempting"
                /\ \E phase \in {"queued", "failed"} :
                     jobs' = Append(jobs, [msg |-> id, phase |-> phase])
    BY <1>9 DEF AcceptsOne
  <2>2. /\ id = db.counters.msg + 1 /\ db'.counters.msg = id
        /\ arrived' = arrived
    BY <2>1 DEF RowAdded
  <2>3. /\ id \notin claimed
        /\ \A k \in DOMAIN jobs : jobs[k].msg # id
        /\ \A i \in claimed : i <= id
        /\ \A k \in DOMAIN jobs : jobs[k].msg <= id
    <3>1. \A i \in claimed : i <= db.counters.msg /\ i \in Nat
      BY <1>1 DEF PushQueue
    <3>2. \A k \in DOMAIN jobs : jobs[k].msg <= db.counters.msg /\ jobs[k].msg \in Nat
      BY <1>1 DEF PushQueue, MessageIDs
    <3> DEFINE last == db.counters.msg
    <3>3. last \in Nat /\ id = last + 1
      BY <1>1, <2>2
    <3> HIDE DEF last
    <3>4. \A i \in Nat : i <= last => i # id /\ i <= id
      BY <3>3
    <3> QED
      BY <3>1, <3>2, <3>4 DEF last
  <2>4. \A i \in DOMAIN db'.deliveries :
          \/ i \in DOMAIN db.deliveries /\ db'.deliveries[i] = db.deliveries[i]
          \/ i = id /\ m.to # Nobody /\ db'.deliveries[i] = NewDelivery(m)
    BY <2>1, AddedRow
  <2>5. CASE jobs' = jobs
    BY <2>1, <2>2, <2>3, <2>4, <2>5 DEF PushQueue, OnePushPerDelivery
  <2>6. CASE /\ m.to # Nobody => NewDelivery(m).status = "attempting"
             /\ \E phase \in {"queued", "failed"} :
                  jobs' = Append(jobs, [msg |-> id, phase |-> phase])
    <3>1. PICK phase \in {"queued", "failed"} :
            jobs' = Append(jobs, [msg |-> id, phase |-> phase])
      BY <2>6
    <3> DEFINE n == Len(jobs) + 1
               j == [msg |-> id, phase |-> phase]
    <3>2. DOMAIN db'.messages \subseteq MessageIDs /\ id \in DOMAIN db'.messages
      BY <2>1, AddedRow DEF Types, DatabaseType
    <3>3. j \in Job /\ j.msg = id /\ j.phase # "ok"
      BY <3>2 DEF Job
    <3> HIDE DEF j
    <3>4. /\ DOMAIN jobs' = DOMAIN jobs \cup {n} /\ jobs'[n] = j
          /\ \A k \in DOMAIN jobs : jobs'[k] = jobs[k] /\ k # n
      BY <1>1, <3>1, <3>3, AppendedJob DEF j
    <3> HIDE DEF n
    <3>5. \A i \in DOMAIN db'.deliveries : i = id => db'.deliveries[i].status # "pending"
      <4>1. id \notin DOMAIN db.deliveries
        BY <2>1, AddedRow
      <4> QED
        BY <2>4, <2>6, <4>1
    <3> QED
      BY <2>1, <2>2, <2>3, <2>4, <3>3, <3>4, <3>5 DEF PushQueue, OnePushPerDelivery
  <2> QED
    BY <2>1, <2>5, <2>6
<1> QED
  BY <1>3, <1>4, <1>5, <1>6, <1>7, <1>8, <1>9 DEF DeliveryKinds


\* Where the system starts there is nothing to deliver.
LEMMA InitDelivery ==
  ASSUME SqliteInit
  PROVE  DeliveryInv
<1>1. Types /\ JobsType
  BY InitTypes
<1>2. /\ db = EmptyDatabase /\ up = TRUE /\ claimed = {} /\ jobs = << >>
      /\ creations = {} /\ polls = {} /\ arrived = {}
      /\ cursors = [a \in Agents |-> {0}]
      /\ messages = << >> /\ nextMessageID = 0
  BY DEF SqliteInit, NothingInFlight, Init
<1>3. /\ db.messages = << >> /\ db.deliveries = << >> /\ db.cursors = << >>
      /\ db.counters = [conv |-> 0, msg |-> 0]
  BY <1>2 DEF EmptyDatabase
<1>4. /\ DOMAIN db.messages = {} /\ DOMAIN db.deliveries = {} /\ DOMAIN db.cursors = {}
      /\ DOMAIN messages = {} /\ DOMAIN jobs = {} /\ db.counters.msg = 0
  BY <1>2, <1>3
<1>5. CursorsInOrder
  BY <1>4 DEF CursorsInOrder
<1>6. Numbers
  BY <1>2, <1>4 DEF Numbers
<1>7. PushQueue
  BY <1>2, <1>4 DEF PushQueue, OnePushPerDelivery
<1>8. Numbering
  BY <1>4 DEF Numbering
<1>9. Returned
  BY <1>2, <1>4 DEF Returned, NextSeq, CoveredTo
<1> QED
  BY <1>1, <1>5, <1>6, <1>7, <1>8, <1>9 DEF DeliveryInv

\* The invariant is kept by every step that keeps the counter.
LEMMA DeliveryStep ==
  ASSUME DeliveryInv, [SqliteNext]_sqliteVars, [CountersKept]_sqliteVars
  PROVE  DeliveryInv'
<1>1. /\ Types /\ JobsType /\ CursorsInOrder /\ Numbers /\ PushQueue
      /\ Numbering /\ Returned
  BY DEF DeliveryInv
<1>2. Types' /\ SqliteKinds
  BY <1>1, StepLemma
<1>3. JobsType'
  BY <1>1, JobsStep
<1>4. CursorsInOrder'
  BY <1>1, <1>2, CursorsStep
<1>5. DeliveryKinds
  BY KindsLemma
<1>6. Numbers'
  BY <1>1, <1>2, <1>5, NumbersStep
<1>7. PushQueue'
  BY <1>1, <1>2, <1>3, <1>5, PushQueueStep
<1>8. Numbering'
  BY <1>1, <1>2, <1>5, NumberingStep
<1>9. Returned'
  BY <1>1, <1>2, <1>5, ReturnedStep
<1> QED
  BY <1>2, <1>3, <1>4, <1>6, <1>7, <1>8, <1>9 DEF DeliveryInv

LEMMA DeliveryInvariant ==
  SqliteSpec /\ CountersNeverGoBack => []DeliveryInv
<1>1. SqliteInit => DeliveryInv
  BY InitDelivery
<1>2. DeliveryInv /\ [SqliteNext]_sqliteVars /\ [CountersKept]_sqliteVars => DeliveryInv'
  BY DeliveryStep
<1>3. CountersNeverGoBack <=> [][CountersKept]_sqliteVars
  BY DEF CountersNeverGoBack, CountersKept
<1> QED
  BY <1>1, <1>2, <1>3, PTL DEF SqliteSpec

(* A delivery has at most one push job, and a row that is claimed or has a *)
(* job is not claimed again (claimDuePushes, enqueuePushJob, recordPush),  *)
(* while a crash loses the claims and the jobs together and a restart      *)
(* makes their rows due again.  Needed of the invariant are PushQueue,     *)
(* and Numbers for the jobs of a message that has just been accepted.      *)
THEOREM OnePushPerDeliveryHolds ==
  SqliteSpec /\ CountersNeverGoBack => []OnePushPerDelivery
<1>1. DeliveryInv => OnePushPerDelivery
  BY DEF DeliveryInv, PushQueue
<1> QED
  BY <1>1, DeliveryInvariant, PTL


(***************************************************************************)
(* The abstract specification of delivery                                  *)
(***************************************************************************)
\* Transport as a function of the rows and of the last id given away.
TransportOf(rows, last, id) ==
  IF id \in DOMAIN rows
  THEN IF rows[id].status \in Open THEN "pending" ELSE rows[id].status
  ELSE IF id <= last THEN "gone" ELSE "none"

LEMMA TransportIs ==
  /\ \A id : Transport(id) = TransportOf(db.deliveries, db.counters.msg, id)
  /\ \A id : Transport(id)' = TransportOf(db'.deliveries, db'.counters.msg, id)
BY DEF Transport, TransportOf

\* The state a delivery is in.
LEMMA TransportType ==
  ASSUME NEW rows, rows \in [DOMAIN rows -> Delivery], NEW last, NEW id
  PROVE  TransportOf(rows, last, id) \in
           {"none", "pending", "received", "failed", "gone"}
BY DEF TransportOf, Delivery

\* What may become of one delivery.
MayBecome(id, before, after, got, late, without) ==
  \/ after = before
  \/ before = "none" /\ after = "pending"
  \/ before = "none" /\ after = "gone" /\ id \in without
  \/ before = "pending" /\ after = "received" /\ id \in got \cup late
  \/ before = "pending" /\ after = "failed" /\ id \in late
  \/ /\ before \in {"received", "failed"} \/ (before = "pending" /\ id \in late)
     /\ after = "gone"

\* Rows that move.
LEMMA RowsMoveTransport ==
  ASSUME Types, Types', Numbers, RowsMove, NEW id \in MessageIDs, NEW without
  PROVE  MayBecome(id, TransportOf(db.deliveries, db.counters.msg, id),
                   TransportOf(db'.deliveries, db'.counters.msg, id), arrived',
                   {i \in DOMAIN db.deliveries : db.deliveries[i].expiresAt <= clock},
                   without)
<1> DEFINE late == {i \in DOMAIN db.deliveries : db.deliveries[i].expiresAt <= clock}
           r == db.deliveries[id]
           s == db'.deliveries[id]
<1>1. /\ db'.counters.msg = db.counters.msg
      /\ DOMAIN db'.deliveries \subseteq DOMAIN db.deliveries
      /\ id \in DOMAIN db'.deliveries => RowStep(id, r, s, arrived', clock)
      /\ id \in DOMAIN db.deliveries \ DOMAIN db'.deliveries =>
           r.status \notin Open \/ r.expiresAt <= clock
  BY DEF RowsMove, RowsMoved
<1>2. id \in DOMAIN db.deliveries =>
        /\ id <= db.counters.msg
        /\ r.status \in Open \cup {"received", "failed"}
        /\ id \in late <=> r.expiresAt <= clock
  BY RowTypes DEF Numbers
<1>3. id \in DOMAIN db'.deliveries => s.status \in Open \cup {"received", "failed"}
  BY DEF Types, DatabaseType, Delivery
<1> HIDE DEF late, r, s
<1>4. CASE id \in DOMAIN db'.deliveries
  <2>1. /\ TransportOf(db.deliveries, db.counters.msg, id) =
             IF r.status \in Open THEN "pending" ELSE r.status
        /\ TransportOf(db'.deliveries, db'.counters.msg, id) =
             IF s.status \in Open THEN "pending" ELSE s.status
    BY <1>1, <1>4 DEF TransportOf, r, s
  <2> QED
    BY <1>1, <1>2, <1>3, <1>4, <2>1 DEF MayBecome, RowStep, late
<1>5. CASE id \in DOMAIN db.deliveries \ DOMAIN db'.deliveries
  <2>1. /\ TransportOf(db.deliveries, db.counters.msg, id) =
             IF r.status \in Open THEN "pending" ELSE r.status
        /\ TransportOf(db'.deliveries, db'.counters.msg, id) = "gone"
    BY <1>1, <1>2, <1>5 DEF TransportOf, r, s
  <2> QED
    BY <1>1, <1>2, <1>5, <2>1 DEF MayBecome, late
<1>6. CASE id \notin DOMAIN db.deliveries
  BY <1>1, <1>6 DEF TransportOf, MayBecome
<1> QED
  BY <1>4, <1>5, <1>6

\* A message is accepted.
LEMMA RowAddedTransport ==
  ASSUME Types, Numbers, NEW new \in Nat, NEW m \in Message, RowAdded(new, m),
         NEW id \in MessageIDs, NEW late
  PROVE  MayBecome(id, TransportOf(db.deliveries, db.counters.msg, id),
                   TransportOf(db'.deliveries, db'.counters.msg, id), arrived', late,
                   {i \in DOMAIN db'.messages : db'.messages[i].to = Nobody})
<1>1. /\ db.counters.msg \in Nat /\ id \in Nat
      /\ new = db.counters.msg + 1 /\ db'.counters.msg = new
      /\ db'.messages = Put(db.messages, new, m)
  BY RowTypes DEF RowAdded, MessageIDs
<1>2. /\ new \notin DOMAIN db.deliveries
      /\ \A i \in DOMAIN db.deliveries :
           i \in DOMAIN db'.deliveries /\ db'.deliveries[i] = db.deliveries[i]
      /\ \A i \in DOMAIN db'.deliveries : i \in DOMAIN db.deliveries \/ i = new
      /\ m.to = Nobody => new \notin DOMAIN db'.deliveries
      /\ m.to # Nobody => /\ new \in DOMAIN db'.deliveries
                          /\ db'.deliveries[new] = NewDelivery(m)
  BY AddedRow
<1>3. CASE id = new
  <2>1. TransportOf(db.deliveries, db.counters.msg, id) = "none"
    BY <1>1, <1>2, <1>3 DEF TransportOf
  <2>2. CASE m.to = Nobody
    <3>1. TransportOf(db'.deliveries, db'.counters.msg, id) = "gone"
      BY <1>1, <1>2, <1>3, <2>2 DEF TransportOf
    <3>2. db'.messages[new] = m /\ new \in DOMAIN db'.messages
      BY <1>1 DEF Put
    <3> QED
      BY <1>3, <2>1, <2>2, <3>1, <3>2 DEF MayBecome
  <2>3. CASE m.to # Nobody
    <3>1. NewDelivery(m).status \in Open
      BY DEF NewDelivery, Open
    <3>2. TransportOf(db'.deliveries, db'.counters.msg, id) = "pending"
      BY <1>2, <1>3, <2>3, <3>1 DEF TransportOf
    <3> QED
      BY <2>1, <3>2 DEF MayBecome
  <2> QED
    BY <2>2, <2>3
<1>4. CASE id # new
  <2>1. id <= db.counters.msg <=> id <= db'.counters.msg
    BY <1>1, <1>4
  <2>2. TransportOf(db'.deliveries, db'.counters.msg, id) =
          TransportOf(db.deliveries, db.counters.msg, id)
    BY <1>2, <1>4, <2>1 DEF TransportOf
  <2> QED
    BY <2>2 DEF MayBecome
<1> QED
  BY <1>3, <1>4


\* What has expired stays so, or is gone.
LEMMA ExpiredStays ==
  ASSUME Types, Types', Numbers, DeliveryKinds, NEW id \in DOMAIN db.deliveries,
         db.deliveries[id].expiresAt <= clock,
         ~(id \in DOMAIN db'.deliveries /\ db'.deliveries[id].expiresAt <= clock')
  PROVE  TransportOf(db'.deliveries, db'.counters.msg, id) = "gone"
<1>1. /\ clock \in Nat /\ clock' \in Nat /\ db.deliveries[id].expiresAt \in Nat
      /\ id <= db.counters.msg
  BY RowTypes DEF Types, RuntimeType, Numbers
<1>2. CASE RowsMove
  <2>1. /\ clock <= clock' /\ db'.counters.msg = db.counters.msg
        /\ id \in DOMAIN db'.deliveries =>
             db'.deliveries[id].expiresAt = db.deliveries[id].expiresAt
    BY <1>2 DEF RowsMove, RowsMoved, RowStep
  <2> QED
    BY <1>1, <2>1 DEF TransportOf
<1>3. CASE AcceptsOne
  <2>1. PICK new \in Nat, m \in Message : RowAdded(new, m)
    BY <1>3 DEF AcceptsOne
  <2>2. /\ clock' = clock /\ id \in DOMAIN db'.deliveries
        /\ db'.deliveries[id] = db.deliveries[id]
    BY <2>1, AddedRow DEF RowAdded
  <2> QED
    BY <2>2
<1> QED
  BY <1>2, <1>3, KindsMove

\* Every step is a step of the abstract specification.
LEMMA NextDelivers ==
  ASSUME DeliveryInv, Types', DeliveryKinds
  PROVE  AtLeastOnce!Next
<1>0. Types /\ Numbers
  BY DEF DeliveryInv
<1> DEFINE before(id) == TransportOf(db.deliveries, db.counters.msg, id)
           after(id) == TransportOf(db'.deliveries, db'.counters.msg, id)
           late == {id \in DOMAIN db.deliveries : db.deliveries[id].expiresAt <= clock}
           late2 == {id \in DOMAIN db'.deliveries : db'.deliveries[id].expiresAt <= clock'}
           without == {id \in DOMAIN db'.messages : db'.messages[id].to = Nobody}
<1>1. /\ [id \in MessageIDs |-> Transport(id)] = [id \in MessageIDs |-> before(id)]
      /\ [id \in MessageIDs |-> Transport(id)]' = [id \in MessageIDs |-> after(id)]
  BY TransportIs DEF MessageIDs
<1>2. \A id \in MessageIDs :
        after(id) \in {"none", "pending", "received", "failed", "gone"}
  BY TransportType DEF Types, DatabaseType
<1>3. arrived \subseteq arrived'
  BY KindsMove DEF RowsMove, RowsMoved, AcceptsOne, RowAdded
<1>4. \A id \in late \ late2 : id \in MessageIDs /\ after(id) = "gone"
  BY <1>0, ExpiredStays, RowTypes DEF MessageIDs
<1>5. \A id \in MessageIDs :
        MayBecome(id, before(id), after(id), arrived', late, without)
  <2>1. CASE RowsMove
    BY <1>0, <2>1, RowsMoveTransport
  <2>2. CASE AcceptsOne
    <3>1. PICK new \in Nat, m \in Message : RowAdded(new, m)
      BY <2>2 DEF AcceptsOne
    <3> QED
      BY <1>0, <3>1, RowAddedTransport
  <2> QED
    BY <2>1, <2>2, KindsMove
<1> HIDE DEF before, after
<1>6. /\ [id \in MessageIDs |-> after(id)] \in
             [MessageIDs -> {"none", "pending", "received", "failed", "gone"}]
      /\ \A id \in late \ late2 : [i \in MessageIDs |-> after(i)][id] = "gone"
      /\ \A id \in MessageIDs :
           /\ [i \in MessageIDs |-> before(i)][id] = before(id)
           /\ [i \in MessageIDs |-> after(i)][id] = after(id)
  BY <1>2, <1>4
<1> QED
  BY <1>1, <1>3, <1>5, <1>6
     DEF AtLeastOnce!Next, AtLeastOnce!Accepted, AtLeastOnce!Undirected,
         AtLeastOnce!Received, AtLeastOnce!Failed, AtLeastOnce!Forgotten,
         AtLeastOnce!TransportStates, MayBecome

LEMMA InitDelivers ==
  ASSUME SqliteInit
  PROVE  AtLeastOnce!Init
<1>1. /\ db.messages = << >> /\ db.deliveries = << >>
      /\ db.counters = [conv |-> 0, msg |-> 0] /\ arrived = {}
  BY DEF SqliteInit, EmptyDatabase
<1>2. DOMAIN db.messages = {} /\ DOMAIN db.deliveries = {} /\ db.counters.msg = 0
  BY <1>1
<1>3. \A id \in MessageIDs : Transport(id) = "none"
  BY <1>2, Bounds DEF Transport, MessageIDs
<1> QED
  BY <1>1, <1>2, <1>3 DEF AtLeastOnce!Init

(* The backend implements at-least-once delivery: an accepted message goes *)
(* on being delivered, through polls, pushes, receipts, pruning, crashes   *)
(* and restarts, until its recipient has it or its deadline has passed.    *)
(* Returned is what makes it true of polls: everything below a cursor that *)
(* a client has, or is about to get, has arrived or expired, so that the   *)
(* poll that brings the cursor may settle it.  PushQueue makes it true of  *)
(* receipts, and Numbers of the ids of pruned messages.                    *)
THEOREM ImplementsDeliveryHolds ==
  SqliteSpec /\ CountersNeverGoBack => ImplementsDelivery
<1>1. SqliteInit => AtLeastOnce!Init
  BY InitDelivers
<1>2. DeliveryInv /\ [SqliteNext]_sqliteVars /\ [CountersKept]_sqliteVars
        => AtLeastOnce!Next
  <2> SUFFICES ASSUME DeliveryInv, [SqliteNext]_sqliteVars, [CountersKept]_sqliteVars
               PROVE  AtLeastOnce!Next
    OBVIOUS
  <2>1. Types'
    BY StepLemma DEF DeliveryInv
  <2> QED
    BY <2>1, KindsLemma, NextDelivers
<1>3. CountersNeverGoBack <=> [][CountersKept]_sqliteVars
  BY DEF CountersNeverGoBack, CountersKept
<1>4. SqliteSpec /\ CountersNeverGoBack => AtLeastOnce!Spec
  BY <1>1, <1>2, <1>3, DeliveryInvariant, PTL DEF SqliteSpec, AtLeastOnce!Spec
<1> QED
  BY <1>4 DEF ImplementsDelivery
=============================================================================
