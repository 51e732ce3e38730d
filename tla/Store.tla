------------------------------- MODULE Store -------------------------------
(***************************************************************************)
(* The runtime state of the bus kept by Store (pkg/bus/store.go): the      *)
(* agent registry, messages and their lifecycle, per-agent inboxes, the    *)
(* idempotency table and conversations.  Every handler runs under s.mu, so *)
(* every handler is one action.  It reads the clock before it waits for    *)
(* s.mu, so the time it works with may lie behind the clock, and behind    *)
(* the time of a handler that got the lock earlier.                        *)
(*                                                                         *)
(* Every handler begins with sweepLocked, which does nothing unless        *)
(* SweepMinInterval has passed since the last sweep.  The sweep is the     *)
(* action Sweep, and every handler has the guard ~SweepDue: a handler that *)
(* finds the sweep due is the action Sweep followed by the handler's own   *)
(* action at the same instant, and Sweep on its own is the whole effect of *)
(* the calls that only read (Health, ListAgents, ListConversations,        *)
(* ObserveSince, ...).  Calls that fail or find a duplicate leave the      *)
(* state alone and need no action.                                         *)
(***************************************************************************)
EXTENDS Integers, Sequences, FiniteSets, SequencesExt

CONSTANTS
  Agents,                 \* agent identifiers
  Access,                 \* pairs <<agent, name>>: agentCanAccessName
  ControlPlane,           \* agents any sender may publish to
  Modes,                  \* registration modes that clients ask for
  Routes,                 \* pairs <<sender, target>> that messages take
  RequestIDs,             \* request_id values that senders use
  SendTypes,              \* message types that senders use
  ConversationChoices,    \* conversation_id of a request; 0 is "none given"
  ParticipantChoices,     \* participant lists of CreateConversation
  RegistrationTTLs,       \* ttl_seconds of a registration, after defaulting
  MessageTTLs,            \* ttl_seconds of a message, after defaulting
  DefaultMessageTTL,
  Sizes,                  \* inboxEventSize of the events
  SweepMinInterval, IdempotencyWindow, AckTimeout, GracePeriod,
  ProgressMinInterval,
  MessageRetention, MessageMaxAge, ConversationRetention, AgentRetention,
  MaxInboxEvents,         \* MaxInboxEventsPerAgent
  MaxInboxBytes,          \* MaxInboxBytesPerAgent, 0 when unlimited
  MaxLag,                 \* longest wait for s.mu after reading the clock
  MaxTime, MaxMessages, MaxConversations   \* bounds of the model

Nobody == "nobody"        \* the empty agent id
Human == "human"          \* sender "human:<identity>" of an injection
Injected == "inject"      \* request_id "inject-<nanoseconds>"

(* NewStore replaces every non-positive interval by a positive default and *)
(* every negative retention by 0, which switches that retention off.       *)
ASSUME ConfigAssumption ==
  /\ SweepMinInterval \in Nat \ {0}
  /\ {IdempotencyWindow, AckTimeout, GracePeriod, ProgressMinInterval,
      DefaultMessageTTL, MaxInboxEvents} \subseteq Nat \ {0}
  /\ {MessageRetention, MessageMaxAge, ConversationRetention,
      AgentRetention, MaxInboxBytes} \subseteq Nat
  /\ RegistrationTTLs \cup MessageTTLs \cup Sizes \subseteq Nat \ {0}

ASSUME InputAssumption ==
  /\ {Nobody, Human} \cap Agents = {}
  /\ Injected \notin RequestIDs
  /\ Access \subseteq Agents \X Agents
  /\ ControlPlane \subseteq Agents
  /\ Routes \subseteq (Agents \cup {Human}) \X (Agents \cup {Nobody})
  /\ Modes \subseteq {"pull", "push"}
  /\ SendTypes \subseteq {"request", "response", "inform"}
  /\ ConversationChoices \subseteq Nat
  /\ ParticipantChoices \subseteq SUBSET Agents
  /\ MaxTime \in Nat \ {0}
  /\ {MaxLag, MaxMessages, MaxConversations} \subseteq Nat

VARIABLES
  clock,              \* the time; 0 stands for the zero time.Time
  now,                \* what the handler that gets s.mu next has read
  lastSweepAt,
  agents,             \* registered agent -> status, expiry, mode
  messages,           \* live message id -> message
  inboxes,            \* registered agent -> inboxBase and inboxes
  idempotency,        \* <<from, to, request id>> -> message id and time
  conversations,      \* conversation id -> participants, messages, time
  nextMessageID, nextConversationID

vars == <<clock, now, lastSweepAt, agents, messages, inboxes, idempotency,
          conversations, nextMessageID, nextConversationID>>

MessageIDs == 1..MaxMessages
TerminalStates == {"completed", "rejected", "error"}
States == {"pending", "waiting_ack", "executing"} \cup TerminalStates

Agent == [status : {"active", "expired"}, expiresAt : Nat, mode : Modes]
Event == [msg : MessageIDs, size : Nat]
Inbox == [base : Nat, events : Seq(Event)]
Entry == [msg : MessageIDs, at : Nat]
Conversation == [participants : SUBSET Agents, lastMessageAt : Nat,
                 msgs : Seq(MessageIDs)]
Message ==
  [type : {"request", "response", "inform"},
   from : Agents \cup {Human}, to : Agents \cup {Nobody},
   conv : Nat, req : RequestIDs \cup {Injected}, size : Nat,
   state : States, queued : BOOLEAN,
   createdAt : Nat, ttlAt : Nat, deliveredAt : Nat, progressAt : Nat,
   terminalAt : Nat, graceUntil : Nat]

Key == Agents \X Agents \X RequestIDs

TypeOK ==
  /\ clock \in 1..MaxTime
  /\ now \in 1..clock /\ clock - now <= MaxLag
  /\ lastSweepAt \in 0..clock
  /\ DOMAIN agents \subseteq Agents
  /\ agents \in [DOMAIN agents -> Agent]
  /\ nextMessageID \in 0..MaxMessages
  /\ nextConversationID \in 0..MaxConversations
  /\ DOMAIN messages \subseteq 1..nextMessageID
  /\ messages \in [DOMAIN messages -> Message]
  /\ inboxes \in [DOMAIN agents -> Inbox]
  /\ DOMAIN idempotency \subseteq Key
  /\ idempotency \in [DOMAIN idempotency -> Entry]
  /\ DOMAIN conversations \subseteq Nat
  /\ conversations \in [DOMAIN conversations -> Conversation]

Init ==
  /\ clock = 1 /\ now = 1
  /\ lastSweepAt = 0
  /\ agents = << >>
  /\ messages = << >>
  /\ inboxes = << >>
  /\ idempotency = << >>
  /\ conversations = << >>
  /\ nextMessageID = 0
  /\ nextConversationID = 0

(***************************************************************************)
(* Helpers                                                                 *)
(***************************************************************************)
\* Mutation: a rejected request is not seen as terminal.
isTerminalButRejected(state) == state \in {"completed", "error"}

isTerminal(state) == state \in TerminalStates

\* A map with one entry set.
Put(f, k, v) == [x \in DOMAIN f \cup {k} |-> IF x = k THEN v ELSE f[x]]

Active(a) == a \in DOMAIN agents /\ agents[a].status = "active"

\* actor = Nobody is a call without an agent identity, which is not checked.
CanAccess(actor, name) == actor = Nobody \/ <<actor, name>> \in Access
MayPublish(from, to) == to \in ControlPlane \/ CanAccess(from, to)

Bytes(events) == SumFunction([k \in DOMAIN events |-> events[k].size])

(* appendInboxLocked drops the oldest events while the inbox is over the   *)
(* count cap or the byte budget, but never the newest one.  Dropping more  *)
(* only helps, so the number dropped is the number of shorter cuts that    *)
(* would still be over.                                                    *)
Over(events, d) ==
  LET rest == SubSeq(events, d + 1, Len(events))
  IN  \/ Len(rest) > MaxInboxEvents
      \/ MaxInboxBytes > 0 /\ Bytes(rest) > MaxInboxBytes
DropCount(events) == Cardinality({d \in 0..Len(events) - 2 : Over(events, d)})

dropInboxPrefix(box, n) ==
  [base |-> box.base + n, events |-> SubSeq(box.events, n + 1, Len(box.events))]

(* Appending several events one after the other, trimming each time, leaves *)
(* what a single trim at the end leaves.                                    *)
appendInbox(box, events) ==
  LET full == [base |-> box.base, events |-> box.events \o events]
  IN  dropInboxPrefix(full, DropCount(full.events))

EventOf(id, m) == [msg |-> id, size |-> m.size]

(***************************************************************************)
(* sweepLocked and pruneLocked                                             *)
(***************************************************************************)
SweepDue == lastSweepAt = 0 \/ now - lastSweepAt >= SweepMinInterval

SweptAgent(a) ==
  IF agents[a].status = "active" /\ now > agents[a].expiresAt
  THEN [agents[a] EXCEPT !.status = "expired"] ELSE agents[a]

SweptAgents == [a \in DOMAIN agents |-> SweptAgent(a)]

Pending(m) == m.type = "request" /\ ~isTerminal(m.state)

\* Mutation: only the ack timeout is looked at.
TimedOutWithoutTTL(m) ==
  m.state = "waiting_ack" /\ m.deliveredAt # 0 /\ now - m.deliveredAt > AckTimeout
\* Mutation: a request that was taken up is exempt from its TTL.
TimedOutUnlessExecuting(m) ==
  /\ m.state # "executing"
  /\ \/ now > m.ttlAt
     \/ m.deliveredAt # 0 /\ now - m.deliveredAt > AckTimeout

TimedOut(m) ==
  \/ now > m.ttlAt
  \/ /\ m.state = "waiting_ack"
     /\ m.deliveredAt # 0
     /\ now - m.deliveredAt > AckTimeout

\* Mutation: the release wants time left in the grace period.
ReleasedWithinGrace(m) ==
  /\ Pending(m) /\ ~TimedOut(m)
  /\ m.queued /\ now < m.graceUntil
  /\ m.to \in DOMAIN agents /\ SweptAgents[m.to].status = "active"

\* A queued request whose target is active goes to the target's inbox.
Released(m) ==
  /\ Pending(m) /\ ~TimedOut(m)
  /\ m.queued
  /\ m.to \in DOMAIN agents /\ SweptAgents[m.to].status = "active"

GraceOver(m) == m.queued /\ m.graceUntil # 0 /\ now > m.graceUntil

\* Mutation: the released request stays marked queued.
ReleasedStillQueued(m) ==
  [m EXCEPT !.state = "waiting_ack", !.deliveredAt = now]

ReleasedMessage(m) ==
  [m EXCEPT !.queued = FALSE, !.state = "waiting_ack", !.deliveredAt = now]

SweptMessage(m) ==
  CASE ~Pending(m)   -> m
    [] Pending(m) /\ TimedOut(m) ->
         [m EXCEPT !.state = "error", !.terminalAt = now]
    [] Released(m)   -> ReleasedMessage(m)
    [] Pending(m) /\ ~TimedOut(m) /\ ~Released(m) ->
         IF GraceOver(m)
         THEN [m EXCEPT !.queued = FALSE, !.state = "error",
                        !.terminalAt = now]
         ELSE m

SweptMessages == [id \in DOMAIN messages |-> SweptMessage(messages[id])]

ReleasedTo(a) ==
  {id \in DOMAIN messages : Released(messages[id]) /\ messages[id].to = a}

\* The sweep walks a Go map: the order of the released requests is arbitrary.
ReleaseOrders ==
  {order \in [DOMAIN agents ->
                UNION {SetToSeqs(ReleasedTo(a)) : a \in DOMAIN agents}] :
     \A a \in DOMAIN agents : order[a] \in SetToSeqs(ReleasedTo(a))}

SweptInbox(a, ids) ==
  appendInbox(inboxes[a],
              [k \in DOMAIN ids |-> EventOf(ids[k], messages[ids[k]])])

PrunedMessage(m) ==
  \/ MessageMaxAge > 0 /\ now - m.createdAt > MessageMaxAge
  \/ /\ MessageRetention > 0
     /\ isTerminal(m.state)
     /\ now - (IF m.terminalAt = 0 THEN m.createdAt ELSE m.terminalAt)
          > MessageRetention

KeptMessages ==
  {id \in DOMAIN messages : ~PrunedMessage(SweptMessages[id])}

\* Mutation: an idle conversation goes, live messages or not.
PrunedIdleConversation(c) ==
  ConversationRetention > 0 /\ now - c.lastMessageAt > ConversationRetention

\* A conversation goes when it is idle and none of its messages is kept.
PrunedConversation(c) ==
  /\ ConversationRetention > 0
  /\ now - c.lastMessageAt > ConversationRetention
  /\ \A k \in DOMAIN c.msgs : c.msgs[k] \notin KeptMessages

PrunedAgent(a) ==
  /\ AgentRetention > 0
  /\ SweptAgents[a].status = "expired"
  /\ now - agents[a].expiresAt > AgentRetention

KeptAgents == {a \in DOMAIN agents : ~PrunedAgent(a)}

\* Mutation: an entry goes when it is exactly as old as the window.
StaleEntryEarly(e) == now - e.at >= IdempotencyWindow

StaleEntry(e) == now - e.at > IdempotencyWindow

KeptEntries == {k \in DOMAIN idempotency : ~StaleEntry(idempotency[k])}
KeptConversations ==
  {c \in DOMAIN conversations : ~PrunedConversation(conversations[c])}

Sweep ==
  /\ SweepDue
  /\ lastSweepAt' = now
  /\ idempotency' = [k \in KeptEntries |-> idempotency[k]]
  /\ messages' = [id \in KeptMessages |-> SweptMessages[id]]
  /\ conversations' = [c \in KeptConversations |-> conversations[c]]
  /\ agents' = [a \in KeptAgents |-> SweptAgents[a]]
  /\ \E order \in ReleaseOrders :
       inboxes' = [a \in KeptAgents |-> SweptInbox(a, order[a])]
  /\ UNCHANGED <<clock, now, nextMessageID, nextConversationID>>

(***************************************************************************)
(* RegisterAgent and CreateConversation                                    *)
(***************************************************************************)
RegisterAgent(a, ttl, mode) ==
  /\ ~SweepDue
  /\ CanAccess(a, a)
  /\ agents' = Put(agents, a, [status |-> "active", expiresAt |-> now + ttl,
                               mode |-> mode])
  /\ inboxes' = IF a \in DOMAIN inboxes THEN inboxes
                ELSE Put(inboxes, a, [base |-> 0, events |-> << >>])
  /\ UNCHANGED <<clock, now, lastSweepAt, messages, idempotency, conversations,
                 nextMessageID, nextConversationID>>

AllAccessible(actor, names) == \A n \in names : CanAccess(actor, n)

\* The conversation that a call with conversation_id choice talks about.
ConversationID(choice) ==
  IF choice = 0 THEN nextConversationID + 1 ELSE choice
CounterAfter(choice) ==
  IF choice = 0 THEN nextConversationID + 1 ELSE nextConversationID

CreateConversation(actor, choice, names) ==
  LET id == ConversationID(choice)
  IN  /\ ~SweepDue
      /\ CounterAfter(choice) <= MaxConversations
      /\ nextConversationID' = CounterAfter(choice)
      /\ conversations' =
           CASE id \in DOMAIN conversations
                /\ AllAccessible(actor, conversations[id].participants)
                /\ AllAccessible(actor, names) ->
                  [conversations EXCEPT ![id].participants = @ \cup names]
             [] id \notin DOMAIN conversations
                /\ AllAccessible(actor, names) ->
                  Put(conversations, id,
                      [participants |-> names, lastMessageAt |-> now,
                       msgs |-> << >>])
             \* refused, with an automatic id already taken from the counter
             [] OTHER -> conversations
      /\ UNCHANGED <<clock, now, lastSweepAt, agents, messages, inboxes,
                     idempotency, nextMessageID>>

(***************************************************************************)
(* sendMessage and inject                                                  *)
(***************************************************************************)
\* Mutation: a key counts only as long as its message is there.
DuplicateOfLive(key) ==
  /\ key \in DOMAIN idempotency
  /\ idempotency[key].msg \in DOMAIN messages
  /\ now - idempotency[key].at <= IdempotencyWindow

Duplicate(key) ==
  key \in DOMAIN idempotency
  /\ now - idempotency[key].at <= IdempotencyWindow

\* sendMessage joins an existing conversation or creates a new one.
MayUseConversation(from, to, id) ==
  IF id \in DOMAIN conversations
  THEN AllAccessible(from, conversations[id].participants \cup {from, to})
  ELSE CanAccess(from, from)

GraceEnd(to) == agents[to].expiresAt + GracePeriod
BeyondGrace(to) == agents[to].status = "expired" /\ now > GraceEnd(to)

\* The conversation after message id of the given participants is linked.
LinkMessage(cid, id, names) ==
  Put(conversations, cid,
      IF cid \in DOMAIN conversations
      THEN [participants  |-> conversations[cid].participants \cup names,
            lastMessageAt |-> now,
            msgs          |-> Append(conversations[cid].msgs, id)]
      ELSE [participants |-> names, lastMessageAt |-> now, msgs |-> <<id>>])

\* A message as planned, before the state of its target is looked at.
NewMessage(type, from, to, conv, req, size, ttl) ==
  [type |-> type, from |-> from, to |-> to, conv |-> conv, req |-> req,
   size |-> size,
   state |-> IF type = "request" THEN "pending" ELSE "completed",
   queued |-> FALSE, createdAt |-> now, ttlAt |-> now + ttl,
   deliveredAt |-> 0, progressAt |-> 0,
   terminalAt |-> IF type = "request" THEN 0 ELSE now, graceUntil |-> 0]

QueuedMessage(m) ==
  [m EXCEPT !.queued = TRUE, !.graceUntil = GraceEnd(m.to)]

DeliveredMessage(m) ==
  IF m.type = "request"
  THEN [m EXCEPT !.state = "waiting_ack", !.deliveredAt = now] ELSE m

\* Mutation: the id counter is not advanced.
AcceptWithoutCounter(id, m, choice, names) ==
  /\ UNCHANGED <<clock, now, lastSweepAt, agents, inboxes, nextMessageID>>
  /\ nextConversationID' = CounterAfter(choice)
  /\ messages' = Put(messages, id, m)
  /\ conversations' = LinkMessage(m.conv, id, names)

\* The state after message m is accepted under id with the event queued.
Accept(id, m, choice, names) ==
  /\ nextMessageID' = id
  /\ nextConversationID' = CounterAfter(choice)
  /\ messages' = Put(messages, id, m)
  /\ conversations' = LinkMessage(m.conv, id, names)
  /\ inboxes' =
       IF m.to = Nobody \/ m.queued THEN inboxes
       ELSE [inboxes EXCEPT ![m.to] = appendInbox(@, <<EventOf(id, m)>>)]
  /\ UNCHANGED <<clock, now, lastSweepAt, agents>>

SendMessage(from, to, req, type, choice, ttl, size) ==
  LET id  == nextMessageID + 1
      cid == ConversationID(choice)
      key == <<from, to, req>>
      m   == NewMessage(type, from, to, cid, req, size, ttl)
  IN  /\ ~SweepDue
      /\ id <= MaxMessages /\ CounterAfter(choice) <= MaxConversations
      /\ Active(from) /\ CanAccess(from, from) /\ MayPublish(from, to)
      /\ to \in DOMAIN agents
      /\ ~Duplicate(key)
      /\ MayUseConversation(from, to, cid)
      /\ ~BeyondGrace(to)
      /\ Accept(id, IF agents[to].status = "expired" THEN QueuedMessage(m)
                                                     ELSE DeliveredMessage(m),
                choice, {from, to})
      /\ idempotency' = Put(idempotency, key, [msg |-> id, at |-> now])

(* An injection is an inform that is complete at once, unless its target is *)
(* in its grace period.  It takes no part in idempotency and leaves the     *)
(* participants alone.                                                      *)
Inject(to, choice, size) ==
  LET id  == nextMessageID + 1
      cid == ConversationID(choice)
      m   == NewMessage("inform", Human, to, cid, Injected, size,
                        DefaultMessageTTL)
  IN  /\ ~SweepDue
      /\ id <= MaxMessages /\ CounterAfter(choice) <= MaxConversations
      /\ to # Nobody => to \in DOMAIN agents /\ ~BeyondGrace(to)
      /\ Accept(id,
                IF to # Nobody /\ agents[to].status = "expired"
                THEN [QueuedMessage(m) EXCEPT !.state = "pending",
                                              !.terminalAt = 0]
                ELSE m,
                choice, {})
      /\ UNCHANGED idempotency

(***************************************************************************)
(* One pass of pollInbox                                                   *)
(***************************************************************************)
InboxEnd(box) == box.base + Len(box.events)

\* The cursor clamped into the range the inbox still covers.
Clamp(box, cursor) ==
  IF cursor < box.base THEN box.base
  ELSE IF cursor > InboxEnd(box) THEN InboxEnd(box) ELSE cursor

Reclaimed(box, cursor) ==
  SubSeq(box.events, 1, Clamp(box, cursor) - box.base)
\* limit = 0 asks for everything.
PollResult(box, cursor, limit) ==
  LET out == SubSeq(box.events, Clamp(box, cursor) - box.base + 1,
                    Len(box.events))
  IN  IF limit > 0 /\ Len(out) > limit THEN SubSeq(out, 1, limit) ELSE out
\* Mutation: the cursor passes events that the limit held back.
NextCursorPastLimit(box, cursor, limit) == InboxEnd(box)
\* Mutation: the cursor is one too far.
NextCursorTooFar(box, cursor, limit) == InboxEnd(box) + 1

NextCursor(box, cursor, limit) ==
  Clamp(box, cursor) + Len(PollResult(box, cursor, limit))

PollInbox(a, cursor) ==
  /\ ~SweepDue
  /\ Active(a) /\ CanAccess(a, a)
  /\ inboxes' = [inboxes EXCEPT
                   ![a] = dropInboxPrefix(@, Clamp(@, cursor) - @.base)]
  /\ UNCHANGED <<clock, now, lastSweepAt, agents, messages, idempotency,
                 conversations, nextMessageID, nextConversationID>>

(***************************************************************************)
(* ack and postEvent                                                       *)
(***************************************************************************)
SetMessage(id, m) ==
  /\ messages' = [messages EXCEPT ![id] = m]
  /\ UNCHANGED <<clock, now, lastSweepAt, agents, inboxes, idempotency,
                 conversations, nextMessageID, nextConversationID>>

AckedMessage(m, status) ==
  [m EXCEPT !.queued = FALSE,
            !.deliveredAt = IF @ = 0 THEN now ELSE @,
            !.state = IF status = "rejected" THEN "rejected" ELSE "executing",
            !.terminalAt = IF status = "rejected" THEN now ELSE @]

Ack(a, id, status) ==
  /\ ~SweepDue
  /\ id \in DOMAIN messages
  /\ messages[id].to = a
  /\ Pending(messages[id])
  /\ SetMessage(id, AckedMessage(messages[id], status))

ProgressedMessage(m) ==
  [m EXCEPT !.progressAt = now,
            !.state = IF @ = "waiting_ack" THEN "executing" ELSE @]

FinishedMessage(m, type) ==
  [m EXCEPT !.terminalAt = now,
            !.state = IF type = "final" THEN "completed" ELSE "error"]

TooFrequent(m) ==
  m.progressAt # 0 /\ now - m.progressAt < ProgressMinInterval

PostEvent(a, id, type) ==
  /\ ~SweepDue
  /\ id \in DOMAIN messages
  /\ messages[id].to = a
  /\ Pending(messages[id])
  /\ \/ /\ type = "progress"
        /\ ~TooFrequent(messages[id])
        /\ SetMessage(id, ProgressedMessage(messages[id]))
     \/ /\ type # "progress"
        /\ SetMessage(id, FinishedMessage(messages[id], type))

(***************************************************************************)
(* The specification                                                       *)
(***************************************************************************)
Tick ==
  /\ clock < MaxTime
  /\ clock' = clock + 1
  /\ now' = clock + 1
  /\ UNCHANGED <<lastSweepAt, agents, messages, inboxes, idempotency,
                 conversations, nextMessageID, nextConversationID>>

\* Handlers get the lock in any order, whenever they read the clock.
ReadClock ==
  /\ \E t \in 1..clock : clock - t <= MaxLag /\ t # now /\ now' = t
  /\ UNCHANGED <<clock, lastSweepAt, agents, messages, inboxes, idempotency,
                 conversations, nextMessageID, nextConversationID>>

\* Every call other than a poll.
Call ==
  \/ \E a \in Agents, ttl \in RegistrationTTLs, mode \in Modes :
       RegisterAgent(a, ttl, mode)
  \/ \E actor \in Agents \cup {Nobody}, choice \in ConversationChoices,
        names \in ParticipantChoices :
       CreateConversation(actor, choice, names)
  \/ \E from, to \in Agents, req \in RequestIDs, type \in SendTypes,
        choice \in ConversationChoices, ttl \in MessageTTLs, size \in Sizes :
       /\ <<from, to>> \in Routes
       /\ SendMessage(from, to, req, type, choice, ttl, size)
  \/ \E to \in Agents \cup {Nobody}, choice \in ConversationChoices,
        size \in Sizes :
       /\ <<Human, to>> \in Routes
       /\ Inject(to, choice, size)
  \/ \E a \in Agents, id \in MessageIDs, status \in {"accepted", "rejected"} :
       Ack(a, id, status)
  \/ \E a \in Agents, id \in MessageIDs,
        type \in {"progress", "final", "error"} : PostEvent(a, id, type)

\* A poll may carry any cursor up to one past the last event ever numbered.
Next ==
  \/ Tick
  \/ ReadClock
  \/ Sweep
  \/ Call
  \/ \E a \in Agents, cursor \in 0..MaxMessages + 1 : PollInbox(a, cursor)

Spec == Init /\ [][Next]_vars

(***************************************************************************)
(* Properties                                                              *)
(***************************************************************************)

(* A message is put into its target's inbox at most once, whether by       *)
(* sendMessage, by inject or by the sweep that releases queued requests:   *)
(* no inbox holds an event twice, an event of a live message is in its     *)
(* target's inbox, and a message still marked queued is in no inbox.       *)
InboxOnce ==
  \A a \in DOMAIN inboxes :
    LET events == inboxes[a].events
    IN  /\ \A j, k \in DOMAIN events :
             events[j].msg = events[k].msg => j = k
        /\ \A k \in DOMAIN events :
             events[k].msg \in DOMAIN messages =>
               /\ messages[events[k].msg].to = a
               /\ ~messages[events[k].msg].queued

(* A live message can be found through its conversation: pruneLocked never *)
(* drops a conversation before its messages, and a conversation lists its  *)
(* messages in the order in which they were accepted, each once.           *)
ConversationKeepsMessages ==
  /\ \A id \in DOMAIN messages :
       LET cid == messages[id].conv
       IN  /\ cid \in DOMAIN conversations
           /\ \E k \in DOMAIN conversations[cid].msgs :
                conversations[cid].msgs[k] = id
  /\ \A cid \in DOMAIN conversations :
       LET msgs == conversations[cid].msgs
       IN  \A j, k \in DOMAIN msgs : j < k => msgs[j] < msgs[k]

(* No request outlives a deadline past a sweep: whatever was sent, queued, *)
(* acknowledged or reported in between, a request that is not terminal had *)
(* not passed its TTL, its ack timeout or its grace period at the last     *)
(* sweep, but for the time its handler waited for the lock.                *)
DeadlinesSwept ==
  \A id \in DOMAIN messages :
    LET m == messages[id]
    IN  Pending(m) =>
          /\ lastSweepAt <= m.ttlAt + MaxLag
          /\ m.state = "waiting_ack" =>
               /\ m.deliveredAt # 0
               /\ lastSweepAt <= m.deliveredAt + AckTimeout + MaxLag
          /\ m.queued => lastSweepAt <= m.graceUntil + MaxLag

(* The sweep leaves no request waiting for an agent that is back: what it  *)
(* keeps queued has a target that is not active.                           *)
SweepReleases ==
  [][lastSweepAt' # lastSweepAt =>
       \A id \in DOMAIN messages' :
         Pending(messages'[id]) /\ messages'[id].queued =>
           ~(/\ messages'[id].to \in DOMAIN agents'
             /\ agents'[messages'[id].to].status = "active")]_vars

(* Every request ends: it reaches a terminal state or is pruned by age,    *)
(* with no help from its recipient, however it was queued, delivered,      *)
(* acknowledged or kept busy with progress events.  Requests whose TTL     *)
(* lies beyond the model's clock are left out.                             *)
EveryRequestEnds ==
  \A id \in MessageIDs :
    (/\ id \in DOMAIN messages
     /\ Pending(messages[id])
     /\ messages[id].ttlAt + SweepMinInterval < MaxTime)
      ~> (id \notin DOMAIN messages \/ ~Pending(messages[id]))

(* The lifecycle a sender sees: the status of every message id. *)
Status(id) ==
  CASE id > nextMessageID -> "none"
    [] id \in DOMAIN messages -> messages[id].state
    [] OTHER -> "gone"

Lifecycle == INSTANCE MessageLifecycle
               WITH status <- [id \in MessageIDs |-> Status(id)]

(* The store implements the message lifecycle: no interleaving of sends,   *)
(* sweeps, acks, events and pruning moves a message backwards, resurrects  *)
(* a terminal one or reuses the id of a forgotten one.                     *)
ImplementsLifecycle == Lifecycle!Spec
=============================================================================
