---------------------------- MODULE StoreProofs ----------------------------
(***************************************************************************)
(* Proofs about Store, for every set of agents and every configuration:    *)
(* types first, then what the tables hold: windows and deadlines, inboxes, *)
(* conversations, and the lifecycle of messages, which Store implements.   *)
(***************************************************************************)
EXTENDS Acceptances, FiniteSetTheorems, SequenceTheorems, TLAPS

(***************************************************************************)
(* Inboxes and events                                                      *)
(***************************************************************************)

\* The number of events appendInboxLocked drops leaves the newest one.
LEMMA DropCountType ==
  ASSUME NEW S, NEW events \in Seq(S)
  PROVE  /\ DropCount(events) \in Nat
         /\ DropCount(events) <= Len(events)
         /\ events # << >> => DropCount(events) < Len(events)
<1> DEFINE D == {d \in 0..Len(events) - 2 : Over(events, d)}
<1>1. Len(events) \in Nat
  OBVIOUS
<1>2. IsFiniteSet(0..Len(events) - 2)
      /\ Cardinality(0..Len(events) - 2) =
           IF 0 > Len(events) - 2 THEN 0 ELSE Len(events) - 2 - 0 + 1
  BY <1>1, FS_Interval
<1>3. IsFiniteSet(D) /\ Cardinality(D) <= Cardinality(0..Len(events) - 2)
  BY <1>2, FS_Subset
<1>4. Cardinality(D) \in Nat
  BY <1>3, FS_CardinalityType
<1>5. events # << >> => Len(events) >= 1
  BY <1>1
<1> QED
  BY <1>1, <1>2, <1>3, <1>4, <1>5 DEF DropCount

\* Dropping a prefix of an inbox leaves an inbox.
LEMMA DropPrefixType ==
  ASSUME NEW box \in Inbox, NEW n \in Nat, n <= Len(box.events)
  PROVE  dropInboxPrefix(box, n) \in Inbox
<1>1. box.base \in Nat /\ box.events \in Seq(Event)
  BY DEF Inbox
<1>2. Len(box.events) \in Nat
  BY <1>1
<1>3. \A i \in n + 1..Len(box.events) : box.events[i] \in Event
  BY <1>1, <1>2, ElementOfSeq
<1>4. SubSeq(box.events, n + 1, Len(box.events)) \in Seq(Event)
  BY <1>2, <1>3, SubSeqProperties
<1> QED
  BY <1>1, <1>4 DEF dropInboxPrefix, Inbox

\* Appending events within the caps leaves an inbox.
LEMMA AppendInboxType ==
  ASSUME NEW box \in Inbox, NEW events \in Seq(Event)
  PROVE  appendInbox(box, events) \in Inbox
<1> DEFINE full == [base |-> box.base, events |-> box.events \o events]
<1>1. box.base \in Nat /\ box.events \in Seq(Event)
  BY DEF Inbox
<1>2. box.events \o events \in Seq(Event)
  BY <1>1, ConcatProperties
<1>3. full \in Inbox /\ full.events \in Seq(Event)
  BY <1>1, <1>2 DEF Inbox
<1>4. DropCount(full.events) \in Nat /\ DropCount(full.events) <= Len(full.events)
  BY <1>3, DropCountType
<1>5. appendInbox(box, events) = dropInboxPrefix(full, DropCount(full.events))
  BY DEF appendInbox
<1> HIDE DEF full
<1> QED
  BY <1>3, <1>4, <1>5, DropPrefixType

\* The event of a message is an event.
LEMMA EventOfType ==
  ASSUME NEW id \in MessageIDs, NEW m \in Message
  PROVE  EventOf(id, m) \in Event
BY DEF EventOf, Event, Message

(***************************************************************************)
(* The sweep                                                               *)
(***************************************************************************)

\* A message stays a message when the sweep times it out or releases it.
LEMMA SweptMessageType ==
  ASSUME NEW m \in Message, now \in Nat
  PROVE  SweptMessage(m) \in Message
<1>1. CASE ~Pending(m)
  BY <1>1 DEF SweptMessage, Released
<1>2. CASE Pending(m) /\ TimedOut(m)
  <2>1. SweptMessage(m) = [m EXCEPT !.state = "error", !.terminalAt = now]
    BY <1>2 DEF SweptMessage, Released
  <2> QED
    BY <2>1 DEF Message, States, TerminalStates
<1>3. CASE Pending(m) /\ ~TimedOut(m) /\ Released(m)
  <2>1. SweptMessage(m) = [m EXCEPT !.queued = FALSE, !.state = "waiting_ack",
                                    !.deliveredAt = now]
    BY <1>3 DEF SweptMessage, Released, ReleasedMessage
  <2> QED
    BY <2>1 DEF Message, States
<1>4. CASE Pending(m) /\ ~TimedOut(m) /\ ~Released(m)
  <2>1. SweptMessage(m) =
          IF GraceOver(m)
          THEN [m EXCEPT !.queued = FALSE, !.state = "error", !.terminalAt = now]
          ELSE m
    BY <1>4 DEF SweptMessage
  <2>2. [m EXCEPT !.queued = FALSE, !.state = "error", !.terminalAt = now]
          \in Message
    BY DEF Message, States, TerminalStates
  <2> QED
    BY <2>1, <2>2
<1> QED
  BY <1>1, <1>2, <1>3, <1>4

\* Each order of a sweep lists released messages.
LEMMA ReleaseOrderType ==
  ASSUME TypeOK, NEW order \in ReleaseOrders, NEW a \in DOMAIN agents
  PROVE  order[a] \in Seq(DOMAIN messages)
<1>1. order[a] \in SetToSeqs(ReleasedTo(a))
  BY DEF ReleaseOrders
<1>2. ReleasedTo(a) \subseteq DOMAIN messages
  BY DEF ReleasedTo
<1>3. IsFiniteSet(1..nextMessageID)
  <2>1. nextMessageID \in Int
    BY InputAssumption DEF TypeOK
  <2> QED
    BY <2>1, FS_Interval
<1>4. IsFiniteSet(ReleasedTo(a))
  BY <1>2, <1>3, FS_Subset DEF TypeOK
<1>5. Cardinality(ReleasedTo(a)) \in Nat
  BY <1>4, FS_CardinalityType
<1>6. order[a] \in [1..Cardinality(ReleasedTo(a)) -> ReleasedTo(a)]
  BY <1>1 DEF SetToSeqs
<1>7. order[a] \in Seq(ReleasedTo(a))
  BY <1>5, <1>6, SeqDef
<1> QED
  BY <1>2, <1>7, SeqMonotonic

\* An inbox stays an inbox when released messages are appended.
LEMMA SweptInboxType ==
  ASSUME TypeOK, NEW a \in DOMAIN agents, NEW ids \in Seq(DOMAIN messages)
  PROVE  SweptInbox(a, ids) \in Inbox
<1> DEFINE events == [k \in DOMAIN ids |-> EventOf(ids[k], messages[ids[k]])]
<1>1. inboxes[a] \in Inbox
  BY DEF TypeOK
<1>2. Len(ids) \in Nat /\ DOMAIN ids = 1..Len(ids)
  BY LenProperties
<1>3. \A k \in 1..Len(ids) : EventOf(ids[k], messages[ids[k]]) \in Event
  <2> TAKE k \in 1..Len(ids)
  <2>1. ids[k] \in DOMAIN messages
    BY <1>2, ElementOfSeq
  <2>2. ids[k] \in MessageIDs
    <3>1. ids[k] \in 1..nextMessageID /\ nextMessageID \in 0..MaxMessages
      BY <2>1 DEF TypeOK
    <3>2. MaxMessages \in Nat
      BY InputAssumption
    <3> QED
      BY <3>1, <3>2 DEF MessageIDs
  <2>3. messages[ids[k]] \in Message
    BY <2>1 DEF TypeOK
  <2> QED
    BY <2>2, <2>3, EventOfType
<1>4. events \in [1..Len(ids) -> Event]
  BY <1>2, <1>3
<1>5. events \in Seq(Event)
  BY <1>2, <1>4, SeqDef
<1>6. SweptInbox(a, ids) = appendInbox(inboxes[a], events)
  BY DEF SweptInbox
<1> HIDE DEF events
<1> QED
  BY <1>1, <1>5, <1>6, AppendInboxType

\* The numbers that bound the model are naturals.
LEMMA Bounds ==
  /\ MaxTime \in Nat /\ MaxMessages \in Nat /\ MaxConversations \in Nat
  /\ MaxLag \in Nat
  /\ GracePeriod \in Nat /\ DefaultMessageTTL \in Nat
BY InputAssumption, ConfigAssumption

(***************************************************************************)
(* Type correctness, one lemma per action                                  *)
(***************************************************************************)

\* sweepLocked with pruneLocked.
LEMMA SweepType ==
  ASSUME TypeOK, Sweep
  PROVE  TypeOK'
<1>1. /\ now \in Nat /\ clock \in Nat /\ now <= clock
      /\ lastSweepAt' = now /\ now' = now /\ clock' = clock
  BY Bounds DEF TypeOK, Sweep
<1>2. agents' = [a \in KeptAgents |-> SweptAgents[a]]
      /\ KeptAgents \subseteq DOMAIN agents
  BY DEF Sweep, KeptAgents
<1>3. \A a \in DOMAIN agents : SweptAgents[a] \in Agent
  BY DEF TypeOK, SweptAgents, SweptAgent, Agent
<1>4. DOMAIN agents' = KeptAgents /\ agents' \in [KeptAgents -> Agent]
  BY <1>2, <1>3
<1>5. \A id \in DOMAIN messages : SweptMessages[id] \in Message
  BY <1>1, SweptMessageType DEF TypeOK, SweptMessages
<1>6. messages' = [id \in KeptMessages |-> SweptMessages[id]]
      /\ KeptMessages \subseteq DOMAIN messages
  BY DEF Sweep, KeptMessages
<1>7. DOMAIN messages' = KeptMessages /\ messages' \in [KeptMessages -> Message]
  BY <1>5, <1>6
<1>8. PICK order \in ReleaseOrders :
        inboxes' = [a \in KeptAgents |-> SweptInbox(a, order[a])]
  BY DEF Sweep
<1>9. \A a \in KeptAgents : SweptInbox(a, order[a]) \in Inbox
  BY <1>2, ReleaseOrderType, SweptInboxType
<1>10. inboxes' \in [KeptAgents -> Inbox]
  BY <1>8, <1>9
<1>11. /\ DOMAIN idempotency' \subseteq DOMAIN idempotency
       /\ idempotency' \in [DOMAIN idempotency' -> Entry]
  BY DEF TypeOK, Sweep, KeptEntries
<1>12. /\ DOMAIN conversations' \subseteq DOMAIN conversations
       /\ conversations' \in [DOMAIN conversations' -> Conversation]
  BY DEF TypeOK, Sweep, KeptConversations
<1>13. nextMessageID' = nextMessageID /\ nextConversationID' = nextConversationID
  BY DEF Sweep
<1> QED
  BY <1>1, <1>2, <1>4, <1>6, <1>7, <1>10, <1>11, <1>12, <1>13 DEF TypeOK

\* RegisterAgent.
LEMMA RegisterType ==
  ASSUME TypeOK, NEW a \in Agents, NEW ttl \in RegistrationTTLs,
         NEW mode \in Modes, RegisterAgent(a, ttl, mode)
  PROVE  TypeOK'
<1> DEFINE entry == [status |-> "active", expiresAt |-> now + ttl, mode |-> mode]
           empty == [base |-> 0, events |-> << >>]
<1>1. now \in Nat /\ ttl \in Nat
  BY Bounds, ConfigAssumption DEF TypeOK
<1>2. entry \in Agent
  BY <1>1 DEF Agent
<1>3. empty \in Inbox
  BY EmptySeq DEF Inbox
<1>4. agents' = Put(agents, a, entry)
  BY DEF RegisterAgent
<1>5. inboxes' = IF a \in DOMAIN inboxes THEN inboxes ELSE Put(inboxes, a, empty)
  BY DEF RegisterAgent
<1> HIDE DEF entry, empty
<1>6. DOMAIN agents' = DOMAIN agents \cup {a} /\ agents' \in [DOMAIN agents' -> Agent]
  <2>1. agents \in [DOMAIN agents -> Agent]
    BY DEF TypeOK
  <2>2. /\ Put(agents, a, entry) \in [DOMAIN agents \cup {a} -> Agent]
        /\ DOMAIN Put(agents, a, entry) = DOMAIN agents \cup {a}
    BY <1>2, <2>1 DEF Put
  <2> QED
    BY <1>4, <2>2
<1>7. inboxes' \in [DOMAIN agents \cup {a} -> Inbox]
  <2>1. DOMAIN inboxes = DOMAIN agents /\ inboxes \in [DOMAIN inboxes -> Inbox]
    BY DEF TypeOK
  <2>2. CASE a \in DOMAIN inboxes
    <3>1. DOMAIN agents \cup {a} = DOMAIN agents
      BY <2>1, <2>2
    <3> QED
      BY <1>5, <2>1, <2>2, <3>1
  <2>3. CASE a \notin DOMAIN inboxes
    BY <1>3, <1>5, <2>1, <2>3 DEF Put
  <2> QED
    BY <2>2, <2>3
<1>8. UNCHANGED <<clock, now, lastSweepAt, messages, idempotency, conversations,
                  nextMessageID, nextConversationID>>
  BY DEF RegisterAgent
<1> QED
  BY <1>6, <1>7, <1>8 DEF TypeOK

\* The counter of automatic conversation ids after a call.
LEMMA CounterType ==
  ASSUME TypeOK, NEW choice \in ConversationChoices,
         CounterAfter(choice) <= MaxConversations
  PROVE  /\ CounterAfter(choice) \in 0..MaxConversations
         /\ ConversationID(choice) \in Nat
<1>1. choice \in Nat /\ nextConversationID \in Nat
  BY Bounds, InputAssumption DEF TypeOK
<1> QED
  BY <1>1, Bounds DEF CounterAfter, ConversationID

\* CreateConversation.
LEMMA CreateConversationType ==
  ASSUME TypeOK, NEW actor \in Agents \cup {Nobody},
         NEW choice \in ConversationChoices, NEW names \in ParticipantChoices,
         CreateConversation(actor, choice, names)
  PROVE  TypeOK'
<1> DEFINE id == ConversationID(choice)
           new == [participants |-> names, lastMessageAt |-> now, msgs |-> << >>]
<1>1. CounterAfter(choice) \in 0..MaxConversations /\ id \in Nat
  BY CounterType DEF CreateConversation
<1>2. names \in SUBSET Agents
  BY InputAssumption
<1>3. now \in Nat
  BY Bounds DEF TypeOK
<1>4. new \in Conversation
  BY <1>2, <1>3, EmptySeq DEF Conversation
<1>5. \/ conversations' = conversations
      \/ /\ id \in DOMAIN conversations
         /\ conversations' = [conversations EXCEPT ![id].participants = @ \cup names]
      \/ conversations' = Put(conversations, id, new)
  BY DEF CreateConversation
<1> HIDE DEF id, new
<1>6. /\ DOMAIN conversations' \subseteq Nat
      /\ conversations' \in [DOMAIN conversations' -> Conversation]
  <2>1. CASE conversations' = conversations
    BY <2>1 DEF TypeOK
  <2>2. CASE /\ id \in DOMAIN conversations
             /\ conversations' = [conversations EXCEPT ![id].participants = @ \cup names]
    <3>1. conversations[id] \in Conversation
      BY <2>2 DEF TypeOK
    <3>2. [conversations[id] EXCEPT !.participants = @ \cup names] \in Conversation
      BY <1>2, <3>1 DEF Conversation
    <3> QED
      BY <2>2, <3>2 DEF TypeOK
  <2>3. CASE conversations' = Put(conversations, id, new)
    <3>1. conversations \in [DOMAIN conversations -> Conversation]
          /\ DOMAIN conversations \subseteq Nat
      BY DEF TypeOK
    <3>2. /\ Put(conversations, id, new) \in [DOMAIN conversations \cup {id} -> Conversation]
          /\ DOMAIN Put(conversations, id, new) = DOMAIN conversations \cup {id}
      BY <1>4, <3>1 DEF Put
    <3> QED
      BY <1>1, <2>3, <3>1, <3>2
  <2> QED
    BY <1>5, <2>1, <2>2, <2>3
<1>7. nextConversationID' \in 0..MaxConversations
  BY <1>1 DEF CreateConversation
<1>8. UNCHANGED <<clock, now, lastSweepAt, agents, messages, inboxes, idempotency,
                  nextMessageID>>
  BY DEF CreateConversation
<1> QED
  BY <1>6, <1>7, <1>8 DEF TypeOK

\* The conversation a message is linked into.
LEMMA LinkType ==
  ASSUME TypeOK, NEW cid \in Nat, NEW id \in MessageIDs, NEW names \in SUBSET Agents
  PROVE  /\ DOMAIN LinkMessage(cid, id, names) \subseteq Nat
         /\ LinkMessage(cid, id, names)
              \in [DOMAIN LinkMessage(cid, id, names) -> Conversation]
<1> DEFINE old == [participants  |-> conversations[cid].participants \cup names,
                   lastMessageAt |-> now,
                   msgs          |-> Append(conversations[cid].msgs, id)]
           new == [participants |-> names, lastMessageAt |-> now, msgs |-> <<id>>]
           c   == IF cid \in DOMAIN conversations THEN old ELSE new
<1>1. now \in Nat
  BY Bounds DEF TypeOK
<1>2. conversations \in [DOMAIN conversations -> Conversation]
      /\ DOMAIN conversations \subseteq Nat
  BY DEF TypeOK
<1>3. ASSUME cid \in DOMAIN conversations PROVE old \in Conversation
  <2>1. conversations[cid] \in Conversation
    BY <1>2, <1>3
  <2>2. /\ conversations[cid].participants \in SUBSET Agents
        /\ conversations[cid].msgs \in Seq(MessageIDs)
    BY <2>1 DEF Conversation
  <2>3. Append(conversations[cid].msgs, id) \in Seq(MessageIDs)
    BY <2>2
  <2> QED
    BY <1>1, <2>2, <2>3 DEF Conversation
<1>4. new \in Conversation
  BY <1>1 DEF Conversation
<1>5. c \in Conversation
  BY <1>3, <1>4
<1>6. LinkMessage(cid, id, names) = Put(conversations, cid, c)
  BY DEF LinkMessage
<1> HIDE DEF c
<1> QED
  BY <1>2, <1>5, <1>6 DEF Put

\* What sendMessage and inject have in common.
LEMMA AcceptType ==
  ASSUME TypeOK, NEW m \in Message, m.conv \in Nat,
         NEW choice \in ConversationChoices, NEW names \in SUBSET Agents,
         nextMessageID + 1 <= MaxMessages,
         CounterAfter(choice) <= MaxConversations,
         m.to # Nobody => m.to \in DOMAIN agents,
         Accept(nextMessageID + 1, m, choice, names),
         DOMAIN idempotency' \subseteq Key,
         idempotency' \in [DOMAIN idempotency' -> Entry]
  PROVE  TypeOK'
<1> DEFINE id == nextMessageID + 1
<1>1. id \in MessageIDs /\ id \in 0..MaxMessages /\ nextMessageID \in Nat
  BY Bounds DEF TypeOK, MessageIDs
<1>2. nextMessageID' = id /\ messages' = Put(messages, id, m)
  BY DEF Accept
<1>3. DOMAIN messages' \subseteq 1..nextMessageID'
      /\ messages' \in [DOMAIN messages' -> Message]
  <2>1. messages \in [DOMAIN messages -> Message]
        /\ DOMAIN messages \subseteq 1..nextMessageID
    BY DEF TypeOK
  <2>2. /\ DOMAIN messages' = DOMAIN messages \cup {id}
        /\ messages' \in [DOMAIN messages' -> Message]
    BY <1>2, <2>1 DEF Put
  <2> QED
    BY <1>1, <1>2, <2>1, <2>2
<1>4. inboxes' \in [DOMAIN agents -> Inbox]
  <2>1. inboxes \in [DOMAIN agents -> Inbox]
    BY DEF TypeOK
  <2>2. CASE m.to = Nobody \/ m.queued
    BY <2>1, <2>2 DEF Accept
  <2>3. CASE ~(m.to = Nobody \/ m.queued)
    <3>1. m.to \in DOMAIN agents
      BY <2>3
    <3>2. <<EventOf(id, m)>> \in Seq(Event)
      BY <1>1, EventOfType
    <3>3. appendInbox(inboxes[m.to], <<EventOf(id, m)>>) \in Inbox
      BY <2>1, <3>1, <3>2, AppendInboxType
    <3>4. inboxes' = [inboxes EXCEPT
                        ![m.to] = appendInbox(@, <<EventOf(id, m)>>)]
      BY <2>3 DEF Accept
    <3> QED
      BY <2>1, <3>1, <3>3, <3>4
  <2> QED
    BY <2>2, <2>3
<1>5. DOMAIN conversations' \subseteq Nat
      /\ conversations' \in [DOMAIN conversations' -> Conversation]
  BY <1>1, LinkType DEF Accept
<1>6. nextConversationID' \in 0..MaxConversations
  BY CounterType DEF Accept
<1>7. UNCHANGED <<clock, now, lastSweepAt, agents>>
  BY DEF Accept
<1> QED
  BY <1>1, <1>2, <1>3, <1>4, <1>5, <1>6, <1>7 DEF TypeOK

\* A message stays a message when it is delivered at once.
LEMMA DeliveredType ==
  ASSUME TypeOK, NEW m \in Message
  PROVE  /\ DeliveredMessage(m) \in Message
         /\ DeliveredMessage(m).to = m.to /\ DeliveredMessage(m).conv = m.conv
<1>1. now \in Nat
  BY Bounds DEF TypeOK
<1>2. CASE m.type = "request"
  <2>1. DeliveredMessage(m) = [m EXCEPT !.state = "waiting_ack", !.deliveredAt = now]
    BY <1>2 DEF DeliveredMessage
  <2> QED
    BY <1>1, <2>1 DEF Message, States
<1>3. CASE m.type # "request"
  BY <1>3 DEF DeliveredMessage
<1> QED
  BY <1>2, <1>3

\* A message stays a message when it is held for an agent in its grace period.
LEMMA QueuedType ==
  ASSUME TypeOK, NEW m \in Message, m.to \in DOMAIN agents
  PROVE  /\ QueuedMessage(m) \in Message
         /\ QueuedMessage(m).to = m.to /\ QueuedMessage(m).conv = m.conv
<1>1. agents[m.to].expiresAt \in Nat
  BY DEF TypeOK, Agent
<1>2. GraceEnd(m.to) \in Nat
  BY <1>1, Bounds DEF GraceEnd
<1> QED
  BY <1>2 DEF QueuedMessage, Message

\* sendMessage.
LEMMA SendType ==
  ASSUME TypeOK, NEW from \in Agents, NEW to \in Agents, NEW req \in RequestIDs,
         NEW type \in SendTypes, NEW choice \in ConversationChoices,
         NEW ttl \in MessageTTLs, NEW size \in Sizes,
         SendMessage(from, to, req, type, choice, ttl, size)
  PROVE  TypeOK'
<1> DEFINE id  == nextMessageID + 1
           key == <<from, to, req>>
           m   == NewMessage(type, from, to, ConversationID(choice), req, size, ttl)
           sent == IF agents[to].status = "expired" THEN QueuedMessage(m)
                                                    ELSE DeliveredMessage(m)
<1>1. /\ id <= MaxMessages /\ CounterAfter(choice) <= MaxConversations
      /\ to \in DOMAIN agents
      /\ Accept(id, sent, choice, {from, to})
      /\ idempotency' = Put(idempotency, key, [msg |-> id, at |-> now])
  BY DEF SendMessage
<1>2. type \in {"request", "response", "inform"} /\ size \in Nat /\ ttl \in Nat
  BY InputAssumption, ConfigAssumption
<1>3. ConversationID(choice) \in Nat
  BY <1>1, CounterType
<1>4. sent \in Message /\ sent.to = to /\ sent.conv \in Nat
  <2>1. now \in Nat
    BY Bounds DEF TypeOK
  <2>2. m \in Message /\ m.to = to /\ m.conv \in Nat
    BY <1>2, <1>3, <2>1 DEF NewMessage, Message, States, TerminalStates
  <2> HIDE DEF m
  <2> QED
    BY <1>1, <2>2, DeliveredType, QueuedType
<1>5. [msg |-> id, at |-> now] \in Entry
  BY <1>1, Bounds DEF TypeOK, Entry, MessageIDs
<1>6. key \in Key
  BY DEF Key
<1>7. DOMAIN idempotency' \subseteq Key
      /\ idempotency' \in [DOMAIN idempotency' -> Entry]
  <2>1. DOMAIN idempotency \subseteq Key
        /\ idempotency \in [DOMAIN idempotency -> Entry]
    BY DEF TypeOK
  <2> HIDE DEF key, id
  <2> QED
    BY <1>1, <1>5, <1>6, <2>1 DEF Put
<1> HIDE DEF sent
<1> QED
  BY <1>1, <1>4, <1>7, AcceptType

\* inject.
LEMMA InjectType ==
  ASSUME TypeOK, NEW to \in Agents \cup {Nobody},
         NEW choice \in ConversationChoices, NEW size \in Sizes,
         Inject(to, choice, size)
  PROVE  TypeOK'
<1> DEFINE id == nextMessageID + 1
           m  == NewMessage("inform", Human, to, ConversationID(choice), Injected,
                            size, DefaultMessageTTL)
           held == [QueuedMessage(m) EXCEPT !.state = "pending", !.terminalAt = 0]
           sent == IF to # Nobody /\ agents[to].status = "expired" THEN held ELSE m
<1>1. /\ id <= MaxMessages /\ CounterAfter(choice) <= MaxConversations
      /\ to # Nobody => to \in DOMAIN agents
      /\ Accept(id, sent, choice, {})
      /\ idempotency' = idempotency
  BY DEF Inject
<1>2. size \in Nat
  BY ConfigAssumption
<1>3. ConversationID(choice) \in Nat
  BY <1>1, CounterType
<1>4. m \in Message /\ m.to = to /\ m.conv \in Nat
  <2>1. now \in Nat
    BY Bounds DEF TypeOK
  <2> QED
    BY <1>2, <1>3, <2>1, Bounds DEF NewMessage, Message, States, TerminalStates
<1>5. ASSUME to \in DOMAIN agents
      PROVE  held \in Message /\ held.to = to /\ held.conv \in Nat
  <2> HIDE DEF m
  <2>1. QueuedMessage(m) \in Message /\ QueuedMessage(m).to = to
        /\ QueuedMessage(m).conv \in Nat
    BY <1>4, <1>5, QueuedType
  <2> QED
    BY <2>1 DEF Message, States
<1>6. sent \in Message /\ sent.conv \in Nat
      /\ (sent.to # Nobody => sent.to \in DOMAIN agents)
  <2> HIDE DEF m, held
  <2> QED
    BY <1>1, <1>4, <1>5
<1>7. DOMAIN idempotency' \subseteq Key
      /\ idempotency' \in [DOMAIN idempotency' -> Entry]
  BY <1>1 DEF TypeOK
<1> HIDE DEF sent
<1> QED
  BY <1>1, <1>6, <1>7, AcceptType

\* The cursor that a poll works with lies within the inbox.
LEMMA ClampRange ==
  ASSUME NEW box \in Inbox, NEW cursor \in Nat
  PROVE  /\ Clamp(box, cursor) - box.base \in Nat
         /\ Clamp(box, cursor) - box.base <= Len(box.events)
BY DEF Inbox, Clamp, InboxEnd

\* One pass of pollInbox.
LEMMA PollType ==
  ASSUME TypeOK, NEW a \in Agents, NEW cursor \in Nat, PollInbox(a, cursor)
  PROVE  TypeOK'
<1> DEFINE box == dropInboxPrefix(inboxes[a],
                                  Clamp(inboxes[a], cursor) - inboxes[a].base)
<1>1. a \in DOMAIN agents
  BY DEF PollInbox, Active
<1>2. inboxes \in [DOMAIN agents -> Inbox]
  BY DEF TypeOK
<1>3. box \in Inbox
  BY <1>1, <1>2, ClampRange, DropPrefixType
<1>4. inboxes' = [inboxes EXCEPT ![a] = box]
  BY DEF PollInbox
<1> HIDE DEF box
<1>5. inboxes' \in [DOMAIN agents -> Inbox]
  BY <1>1, <1>2, <1>3, <1>4
<1>6. UNCHANGED <<clock, now, lastSweepAt, agents, messages, idempotency,
                  conversations, nextMessageID, nextConversationID>>
  BY DEF PollInbox
<1> QED
  BY <1>5, <1>6 DEF TypeOK

\* What ack and postEvent have in common.
LEMMA SetMessageType ==
  ASSUME TypeOK, NEW id \in DOMAIN messages, NEW m \in Message, SetMessage(id, m)
  PROVE  TypeOK'
<1>1. DOMAIN messages' = DOMAIN messages
      /\ messages' \in [DOMAIN messages' -> Message]
  BY DEF TypeOK, SetMessage
<1>2. UNCHANGED <<clock, now, lastSweepAt, agents, inboxes, idempotency,
                  conversations, nextMessageID, nextConversationID>>
  BY DEF SetMessage
<1> QED
  BY <1>1, <1>2 DEF TypeOK

\* What ack and postEvent write over a pending message.
MovedOn(m, n) ==
  \/ \E status \in {"accepted", "rejected"} : n = AckedMessage(m, status)
  \/ n = ProgressedMessage(m)
  \/ \E type \in {"final", "error"} : n = FinishedMessage(m, type)

\* What they leave, and what they can make of it.
SameRequest(m, n) ==
  /\ n.type = m.type /\ n.from = m.from /\ n.to = m.to /\ n.conv = m.conv
  /\ n.req = m.req /\ n.size = m.size /\ n.createdAt = m.createdAt
  /\ n.ttlAt = m.ttlAt /\ n.graceUntil = m.graceUntil

MovedFields(m, n) ==
  /\ n.queued => m.queued
  /\ \/ n.queued = FALSE
     \/ n.state = m.state
     \/ m.state = "waiting_ack"
     \/ n.state \in TerminalStates
  /\ n.state \in {m.state, "executing"} \cup TerminalStates
  /\ n.state # "waiting_ack"

LEMMA MovedMessage ==
  ASSUME NEW m \in Message, NEW n, MovedOn(m, n), now \in Nat
  PROVE  n \in Message /\ SameRequest(m, n) /\ MovedFields(m, n)
<1>1. CASE \E status \in {"accepted", "rejected"} : n = AckedMessage(m, status)
  <2>1. PICK status \in {"accepted", "rejected"} : n = AckedMessage(m, status)
    BY <1>1
  <2> DEFINE at == IF m.deliveredAt = 0 THEN now ELSE m.deliveredAt
             end == IF status = "rejected" THEN now ELSE m.terminalAt
             state == IF status = "rejected" THEN "rejected" ELSE "executing"
  <2>2. n = [m EXCEPT !.queued = FALSE, !.deliveredAt = at, !.state = state,
                      !.terminalAt = end]
    BY <2>1 DEF AckedMessage
  <2>3. /\ at \in Nat /\ end \in Nat /\ state \in States
        /\ state \in {"executing"} \cup TerminalStates /\ state # "waiting_ack"
    BY DEF Message, States, TerminalStates
  <2> HIDE DEF at, end, state
  <2>4. n \in Message
    BY <2>2, <2>3 DEF Message
  <2>5. n.queued = FALSE /\ n.state = state
    BY <2>2 DEF Message
  <2>6. SameRequest(m, n)
    BY <2>2 DEF Message, SameRequest
  <2>7. MovedFields(m, n)
    BY <2>3, <2>5 DEF MovedFields
  <2> QED
    BY <2>4, <2>6, <2>7
<1>2. CASE n = ProgressedMessage(m)
  <2> DEFINE state == IF m.state = "waiting_ack" THEN "executing" ELSE m.state
  <2>1. n = [m EXCEPT !.progressAt = now, !.state = state]
    BY <1>2 DEF ProgressedMessage
  <2>2. m.state \in States
    BY DEF Message
  <2>3. /\ state \in States /\ state \in {m.state, "executing"}
        /\ state # "waiting_ack" /\ (state = m.state \/ m.state = "waiting_ack")
    BY <2>2 DEF States
  <2> HIDE DEF state
  <2>4. n \in Message
    BY <2>1, <2>3 DEF Message
  <2>5. n.queued = m.queued /\ n.state = state
    BY <2>1 DEF Message
  <2>6. SameRequest(m, n)
    BY <2>1 DEF Message, SameRequest
  <2>7. MovedFields(m, n)
    BY <2>3, <2>5 DEF MovedFields
  <2> QED
    BY <2>4, <2>6, <2>7
<1>3. CASE \E type \in {"final", "error"} : n = FinishedMessage(m, type)
  <2>1. PICK type \in {"final", "error"} : n = FinishedMessage(m, type)
    BY <1>3
  <2> DEFINE state == IF type = "final" THEN "completed" ELSE "error"
  <2>2. n = [m EXCEPT !.terminalAt = now, !.state = state]
    BY <2>1 DEF FinishedMessage
  <2>3. state \in States /\ state \in TerminalStates /\ state # "waiting_ack"
    BY DEF States, TerminalStates
  <2> HIDE DEF state
  <2>4. n \in Message
    BY <2>2, <2>3 DEF Message
  <2>5. n.queued = m.queued /\ n.state = state
    BY <2>2 DEF Message
  <2>6. SameRequest(m, n)
    BY <2>2 DEF Message, SameRequest
  <2>7. MovedFields(m, n)
    BY <2>3, <2>5 DEF MovedFields
  <2> QED
    BY <2>4, <2>6, <2>7
<1> QED
  BY <1>1, <1>2, <1>3 DEF MovedOn

\* ack.
LEMMA AckType ==
  ASSUME TypeOK, NEW a \in Agents, NEW id \in MessageIDs,
         NEW status \in {"accepted", "rejected"}, Ack(a, id, status)
  PROVE  TypeOK'
<1> DEFINE m == messages[id]
<1>1. id \in DOMAIN messages /\ SetMessage(id, AckedMessage(m, status))
  BY DEF Ack
<1>2. m \in Message /\ now \in Nat
  BY <1>1, Bounds DEF TypeOK
<1> HIDE DEF m
<1>3. AckedMessage(m, status) \in Message
  BY <1>2, MovedMessage DEF MovedOn
<1> QED
  BY <1>1, <1>3, SetMessageType

\* postEvent.
LEMMA PostEventType ==
  ASSUME TypeOK, NEW a \in Agents, NEW id \in MessageIDs,
         NEW type \in {"progress", "final", "error"}, PostEvent(a, id, type)
  PROVE  TypeOK'
<1> DEFINE m == messages[id]
<1>1. PICK n : /\ id \in DOMAIN messages /\ SetMessage(id, n)
               /\ MovedOn(m, n)
  BY DEF PostEvent, MovedOn
<1>2. m \in Message /\ now \in Nat
  BY <1>1, Bounds DEF TypeOK
<1> HIDE DEF m
<1>3. n \in Message
  BY <1>1, <1>2, MovedMessage
<1> QED
  BY <1>1, <1>3, SetMessageType

\* Every action preserves the type invariant.
LEMMA NextType ==
  ASSUME TypeOK, [Next]_vars
  PROVE  TypeOK'
<1>1. CASE Tick
  BY <1>1, Bounds DEF Tick, TypeOK
<1>2. CASE ReadClock
  BY <1>2, Bounds DEF ReadClock, TypeOK
<1>3. CASE Sweep
  BY <1>3, SweepType
<1>4. CASE Call
  <2>1. CASE \E a \in Agents, ttl \in RegistrationTTLs, mode \in Modes :
               RegisterAgent(a, ttl, mode)
    BY <2>1, RegisterType
  <2>2. CASE \E actor \in Agents \cup {Nobody}, choice \in ConversationChoices,
                names \in ParticipantChoices :
               CreateConversation(actor, choice, names)
    BY <2>2, CreateConversationType
  <2>3. CASE \E from, to \in Agents, req \in RequestIDs, type \in SendTypes,
                choice \in ConversationChoices, ttl \in MessageTTLs,
                size \in Sizes :
               SendMessage(from, to, req, type, choice, ttl, size)
    BY <2>3, SendType
  <2>4. CASE \E to \in Agents \cup {Nobody}, choice \in ConversationChoices,
                size \in Sizes : Inject(to, choice, size)
    BY <2>4, InjectType
  <2>5. CASE \E a \in Agents, id \in MessageIDs,
                status \in {"accepted", "rejected"} : Ack(a, id, status)
    BY <2>5, AckType
  <2>6. CASE \E a \in Agents, id \in MessageIDs,
                type \in {"progress", "final", "error"} : PostEvent(a, id, type)
    BY <2>6, PostEventType
  <2> QED
    BY <1>4, <2>1, <2>2, <2>3, <2>4, <2>5, <2>6 DEF Call
<1>5. CASE \E a \in Agents, cursor \in 0..MaxMessages + 1 : PollInbox(a, cursor)
  BY <1>5, Bounds, PollType
<1>6. CASE UNCHANGED vars
  BY <1>6 DEF vars, TypeOK
<1> QED
  BY <1>1, <1>2, <1>3, <1>4, <1>5, <1>6 DEF Next

(* Every reachable state of the store is well typed: whatever is sent,     *)
(* polled, acknowledged, swept and pruned, ids stay below the counter, an  *)
(* inbox exists exactly for each registered agent, and no handler of       *)
(* store.go reads a map entry that is not there.                           *)
THEOREM TypeCorrect == Spec => []TypeOK
<1>1. Init => TypeOK
  BY Bounds, InputAssumption DEF Init, TypeOK
<1>2. TypeOK /\ [Next]_vars => TypeOK'
  BY NextType
<1> QED
  BY <1>1, <1>2, PTL DEF Spec

(***************************************************************************)
(* Messages with the same identity                                         *)
(***************************************************************************)

KeyOf(m) == <<m.from, m.to, m.req>>

\* What a step on an existing message never touches.
SameIdentity(m, n) ==
  /\ m.from = n.from /\ m.to = n.to /\ m.req = n.req
  /\ m.createdAt = n.createdAt /\ m.type = n.type /\ m.ttlAt = n.ttlAt

\* The clock is positive (the zero time is "not set") and readings lag a little.
LEMMA ClockType ==
  ASSUME TypeOK
  PROVE  /\ clock \in Nat /\ now \in Nat /\ lastSweepAt \in Nat /\ MaxLag \in Nat
         /\ 1 <= now /\ now <= clock /\ clock <= now + MaxLag
         /\ lastSweepAt <= clock
BY Bounds DEF TypeOK

\* The sweep keeps the identity of a message.
LEMMA SweptIdentity ==
  ASSUME NEW m \in Message
  PROVE  SameIdentity(SweptMessage(m), m)
<1>1. CASE ~Pending(m)
  <2>1. SweptMessage(m) = m
    BY <1>1 DEF SweptMessage, Released
  <2> QED
    BY <2>1 DEF SameIdentity
<1>2. CASE Pending(m) /\ TimedOut(m)
  <2>1. SweptMessage(m) = [m EXCEPT !.state = "error", !.terminalAt = now]
    BY <1>2 DEF SweptMessage, Released
  <2> QED
    BY <2>1 DEF SameIdentity, Message
<1>3. CASE Pending(m) /\ ~TimedOut(m) /\ Released(m)
  <2>1. SweptMessage(m) = [m EXCEPT !.queued = FALSE, !.state = "waiting_ack",
                                    !.deliveredAt = now]
    BY <1>3 DEF SweptMessage, Released, ReleasedMessage
  <2> QED
    BY <2>1 DEF SameIdentity, Message
<1>4. CASE Pending(m) /\ ~TimedOut(m) /\ ~Released(m)
  <2>1. SweptMessage(m) =
          IF GraceOver(m)
          THEN [m EXCEPT !.queued = FALSE, !.state = "error", !.terminalAt = now]
          ELSE m
    BY <1>4 DEF SweptMessage
  <2> QED
    BY <2>1 DEF SameIdentity, Message
<1> QED
  BY <1>1, <1>2, <1>3, <1>4

(***************************************************************************)
(* The five ways in which a step treats the messages                       *)
(***************************************************************************)

\* Steps that leave the messages and the idempotency table alone.
Quiet ==
  /\ clock' \in Nat /\ clock' >= clock
  /\ UNCHANGED <<lastSweepAt, messages, idempotency>>

Added(m) ==
  /\ messages' = Put(messages, nextMessageID + 1, m)
  /\ m.createdAt = now
  /\ UNCHANGED <<clock, lastSweepAt>>

\* sendMessage.
Sends ==
  \E m \in Message :
    /\ Added(m)
    /\ m.req \in RequestIDs
    /\ KeyOf(m) \in Key
    /\ ~Duplicate(KeyOf(m))
    /\ idempotency' = Put(idempotency, KeyOf(m),
                          [msg |-> nextMessageID + 1, at |-> now])
    /\ m.ttlAt >= now
    /\ m.state = "waiting_ack" => m.deliveredAt = now
    /\ m.queued => m.graceUntil # 0 /\ m.graceUntil >= now

\* inject.
Injects ==
  \E m \in Message :
    /\ Added(m)
    /\ m.req = Injected /\ m.type = "inform"
    /\ m.queued => m.graceUntil # 0
    /\ idempotency' = idempotency

\* ack and postEvent.
Updates ==
  \E id \in DOMAIN messages, m \in Message :
    /\ messages' = [messages EXCEPT ![id] = m]
    /\ SameIdentity(m, messages[id])
    /\ m.graceUntil = messages[id].graceUntil
    /\ m.queued => messages[id].queued
    /\ Pending(messages[id])
    /\ m.state = "waiting_ack" =>
         /\ messages[id].state = "waiting_ack"
         /\ m.deliveredAt = messages[id].deliveredAt
    /\ UNCHANGED <<clock, lastSweepAt, idempotency>>

\* The messages after a sweep.
LEMMA SweepMessages ==
  ASSUME TypeOK, Sweep
  PROVE  /\ DOMAIN messages' \subseteq DOMAIN messages
         /\ \A id \in DOMAIN messages' :
              messages[id] \in Message /\ messages'[id] = SweptMessage(messages[id])
BY DEF TypeOK, Sweep, KeptMessages, SweptMessages

\* A grace deadline is set and is not over while a message may be queued.
LEMMA GraceType ==
  ASSUME TypeOK, NEW a \in DOMAIN agents
  PROVE  /\ GraceEnd(a) \in Nat /\ GraceEnd(a) # 0
         /\ ~BeyondGrace(a) /\ agents[a].status = "expired" => GraceEnd(a) >= now
<1>1. agents[a].expiresAt \in Nat
  BY DEF TypeOK, Agent
<1>2. GracePeriod \in Nat \ {0}
  BY ConfigAssumption
<1> QED
  BY <1>1, <1>2, ClockType DEF GraceEnd, BeyondGrace

\* sendMessage adds a message under a free key.
LEMMA SendStep ==
  ASSUME TypeOK, NEW from \in Agents, NEW to \in Agents, NEW req \in RequestIDs,
         NEW type \in SendTypes, NEW choice \in ConversationChoices,
         NEW ttl \in MessageTTLs, NEW size \in Sizes,
         SendMessage(from, to, req, type, choice, ttl, size)
  PROVE  Sends
<1> DEFINE m == NewMessage(type, from, to, ConversationID(choice), req, size, ttl)
           sent == IF agents[to].status = "expired" THEN QueuedMessage(m)
                                                    ELSE DeliveredMessage(m)
<1>1. /\ CounterAfter(choice) <= MaxConversations
      /\ to \in DOMAIN agents
      /\ ~Duplicate(<<from, to, req>>)
      /\ ~BeyondGrace(to)
      /\ Accept(nextMessageID + 1, sent, choice, {from, to})
      /\ idempotency' = Put(idempotency, <<from, to, req>>,
                            [msg |-> nextMessageID + 1, at |-> now])
  BY DEF SendMessage
<1>2. type \in {"request", "response", "inform"} /\ size \in Nat /\ ttl \in Nat
  BY InputAssumption, ConfigAssumption
<1>3. ConversationID(choice) \in Nat
  BY <1>1, CounterType
<1>4. now \in Nat
  BY ClockType
<1>5. /\ m \in Message /\ m.from = from /\ m.to = to /\ m.req = req
      /\ m.createdAt = now /\ m.ttlAt = now + ttl /\ ~m.queued
      /\ m.state # "waiting_ack"
  BY <1>2, <1>3, <1>4 DEF NewMessage, Message, States, TerminalStates
<1> HIDE DEF m
<1>6. /\ sent \in Message
      /\ sent.from = from /\ sent.to = to /\ sent.req = req
      /\ sent.createdAt = now /\ sent.ttlAt = now + ttl
      /\ sent.state = "waiting_ack" => sent.deliveredAt = now
      /\ sent.queued => sent.graceUntil # 0 /\ sent.graceUntil >= now
  <2>1. CASE agents[to].status = "expired"
    <3>1. sent = [m EXCEPT !.queued = TRUE, !.graceUntil = GraceEnd(to)]
      BY <1>5, <2>1 DEF QueuedMessage
    <3>2. GraceEnd(to) \in Nat /\ GraceEnd(to) # 0 /\ GraceEnd(to) >= now
      BY <1>1, <2>1, GraceType
    <3> DEFINE end == GraceEnd(to)
    <3> HIDE DEF end
    <3>3. sent = [m EXCEPT !.queued = TRUE, !.graceUntil = end]
      BY <3>1 DEF end
    <3>4. end \in Nat /\ end # 0 /\ end >= now
      BY <3>2 DEF end
    <3>5. sent \in Message
      BY <1>5, <3>3, <3>4 DEF Message
    <3>6. /\ sent.from = m.from /\ sent.to = m.to /\ sent.req = m.req
          /\ sent.createdAt = m.createdAt /\ sent.ttlAt = m.ttlAt
          /\ sent.state = m.state /\ sent.graceUntil = end
      BY <1>5, <3>3 DEF Message
    <3> QED
      BY <1>5, <3>4, <3>5, <3>6
  <2>2. CASE agents[to].status # "expired" /\ m.type = "request"
    <3>1. sent = [m EXCEPT !.state = "waiting_ack", !.deliveredAt = now]
      BY <2>2 DEF DeliveredMessage
    <3> QED
      BY <1>4, <1>5, <3>1 DEF Message, States
  <2>3. CASE agents[to].status # "expired" /\ m.type # "request"
    <3>1. sent = m
      BY <2>3 DEF DeliveredMessage
    <3> QED
      BY <1>5, <3>1
  <2> QED
    BY <2>1, <2>2, <2>3
<1> HIDE DEF sent
<1>7. KeyOf(sent) = <<from, to, req>> /\ <<from, to, req>> \in Key
  BY <1>6 DEF KeyOf, Key
<1>8. Added(sent)
  BY <1>1, <1>6 DEF Added, Accept
<1>9. sent.ttlAt >= now
  BY <1>2, <1>4, <1>6
<1> QED
  BY <1>1, <1>6, <1>7, <1>8, <1>9 DEF Sends

\* inject adds an inform that has no key.
LEMMA InjectStep ==
  ASSUME TypeOK, NEW to \in Agents \cup {Nobody},
         NEW choice \in ConversationChoices, NEW size \in Sizes,
         Inject(to, choice, size)
  PROVE  Injects
<1> DEFINE m == NewMessage("inform", Human, to, ConversationID(choice), Injected,
                           size, DefaultMessageTTL)
           held == [QueuedMessage(m) EXCEPT !.state = "pending", !.terminalAt = 0]
           sent == IF to # Nobody /\ agents[to].status = "expired" THEN held ELSE m
<1>1. /\ CounterAfter(choice) <= MaxConversations
      /\ to # Nobody => to \in DOMAIN agents
      /\ Accept(nextMessageID + 1, sent, choice, {})
      /\ idempotency' = idempotency
  BY DEF Inject
<1>2. ConversationID(choice) \in Nat /\ size \in Nat
  BY <1>1, CounterType, ConfigAssumption
<1>3. /\ m \in Message /\ m.to = to /\ m.req = Injected /\ m.type = "inform"
      /\ m.createdAt = now /\ ~m.queued
  BY <1>2, ClockType, Bounds DEF NewMessage, Message, States, TerminalStates
<1> HIDE DEF m
<1>4. ASSUME to \in DOMAIN agents
      PROVE  /\ held \in Message /\ held.req = Injected /\ held.type = "inform"
             /\ held.createdAt = now /\ held.graceUntil # 0
  <2>1. GraceEnd(to) \in Nat /\ GraceEnd(to) # 0
    BY <1>4, GraceType
  <2>2. held = [[m EXCEPT !.queued = TRUE, !.graceUntil = GraceEnd(to)]
                  EXCEPT !.state = "pending", !.terminalAt = 0]
    BY <1>3 DEF QueuedMessage
  <2> QED
    BY <1>3, <2>1, <2>2 DEF Message, States
<1>5. /\ sent \in Message /\ sent.req = Injected /\ sent.type = "inform"
      /\ sent.createdAt = now
      /\ sent.queued => sent.graceUntil # 0
  <2> HIDE DEF held
  <2> QED
    BY <1>1, <1>3, <1>4
<1> HIDE DEF sent
<1> QED
  BY <1>1, <1>5 DEF Injects, Added, Accept

\* ack and postEvent change one pending message.
LEMMA ChangeStep ==
  ASSUME TypeOK, NEW a \in Agents, NEW id \in MessageIDs,
         \/ \E status \in {"accepted", "rejected"} : Ack(a, id, status)
         \/ \E type \in {"progress", "final", "error"} : PostEvent(a, id, type)
  PROVE  Updates
<1> DEFINE m == messages[id]
<1>1. id \in DOMAIN messages /\ Pending(m)
  BY DEF Ack, PostEvent
<1>2. m \in Message /\ now \in Nat
  BY <1>1, ClockType DEF TypeOK
<1>3. PICK n : SetMessage(id, n) /\ MovedOn(m, n)
  <2>1. CASE \E status \in {"accepted", "rejected"} : Ack(a, id, status)
    BY <2>1 DEF Ack, MovedOn
  <2>2. CASE \E type \in {"progress", "final", "error"} : PostEvent(a, id, type)
    BY <2>2 DEF PostEvent, MovedOn
  <2> QED
    BY <2>1, <2>2
<1> HIDE DEF m
<1>4. n \in Message /\ SameRequest(m, n) /\ MovedFields(m, n)
  BY <1>2, <1>3, MovedMessage
<1>5. /\ SameIdentity(n, m) /\ n.graceUntil = m.graceUntil
      /\ n.queued => m.queued
      /\ n.state = "waiting_ack" =>
           m.state = "waiting_ack" /\ n.deliveredAt = m.deliveredAt
  BY <1>4 DEF SameRequest, MovedFields, SameIdentity
<1> QED
  BY <1>1, <1>3, <1>4, <1>5 DEF Updates, SetMessage, m

\* Every step treats the messages in one of the five ways.
LEMMA StoreSteps ==
  ASSUME TypeOK, [Next]_vars
  PROVE  Quiet \/ Sweep \/ Sends \/ Injects \/ Updates
<1>0. clock \in Nat
  BY ClockType
<1>1. CASE Tick \/ ReadClock
  BY <1>0, <1>1 DEF Tick, ReadClock, Quiet
<1>2. CASE Call
  <2>1. CASE \E a \in Agents, ttl \in RegistrationTTLs, mode \in Modes :
               RegisterAgent(a, ttl, mode)
    BY <1>0, <2>1 DEF RegisterAgent, Quiet
  <2>2. CASE \E actor \in Agents \cup {Nobody}, choice \in ConversationChoices,
                names \in ParticipantChoices :
               CreateConversation(actor, choice, names)
    BY <1>0, <2>2 DEF CreateConversation, Quiet
  <2>3. CASE \E from, to \in Agents, req \in RequestIDs, type \in SendTypes,
                choice \in ConversationChoices, ttl \in MessageTTLs,
                size \in Sizes :
               SendMessage(from, to, req, type, choice, ttl, size)
    BY <2>3, SendStep
  <2>4. CASE \E to \in Agents \cup {Nobody}, choice \in ConversationChoices,
                size \in Sizes : Inject(to, choice, size)
    BY <2>4, InjectStep
  <2>5. CASE \E a \in Agents, id \in MessageIDs :
               \/ \E status \in {"accepted", "rejected"} : Ack(a, id, status)
               \/ \E type \in {"progress", "final", "error"} :
                    PostEvent(a, id, type)
    BY <2>5, ChangeStep
  <2> QED
    BY <1>2, <2>1, <2>2, <2>3, <2>4, <2>5 DEF Call
<1>3. CASE \E a \in Agents, cursor \in 0..MaxMessages + 1 : PollInbox(a, cursor)
  BY <1>0, <1>3 DEF PollInbox, Quiet
<1>4. CASE UNCHANGED vars
  BY <1>0, <1>4 DEF vars, Quiet
<1> QED
  BY <1>1, <1>2, <1>3, <1>4 DEF Next

\* The messages after one was added.
LEMMA AddedMessages ==
  ASSUME TypeOK, NEW m \in Message, Added(m)
  PROVE  /\ nextMessageID + 1 \notin DOMAIN messages
         /\ DOMAIN messages' = DOMAIN messages \cup {nextMessageID + 1}
         /\ messages'[nextMessageID + 1] = m
         /\ \A id \in DOMAIN messages :
              /\ messages'[id] = messages[id]
              /\ messages[id] \in Message
              /\ id \in Nat /\ id < nextMessageID + 1
<1>1. nextMessageID \in Nat
  BY Bounds DEF TypeOK
<1>2. DOMAIN messages \subseteq 1..nextMessageID
      /\ messages \in [DOMAIN messages -> Message]
  BY DEF TypeOK
<1>3. nextMessageID + 1 \notin DOMAIN messages
  BY <1>1, <1>2
<1> QED
  BY <1>1, <1>2, <1>3 DEF Added, Put

(***************************************************************************)
(* Deadlines                                                               *)
(***************************************************************************)

\* DeadlinesSwept for one message and one time of the last sweep.
InTime(m, sweptAt) ==
  Pending(m) =>
    /\ sweptAt <= m.ttlAt + MaxLag
    /\ m.state = "waiting_ack" =>
         /\ m.deliveredAt # 0
         /\ sweptAt <= m.deliveredAt + AckTimeout + MaxLag
    /\ m.queued => sweptAt <= m.graceUntil + MaxLag

(* A queued message has a grace deadline: without it the sweep would never *)
(* find the grace period of the message over.                              *)
QueuedHasGrace ==
  \A id \in DOMAIN messages :
    messages[id].queued => messages[id].graceUntil # 0

\* DeadlinesSwept, message by message.
LEMMA DeadlinesByMessage ==
  DeadlinesSwept <=> \A id \in DOMAIN messages : InTime(messages[id], lastSweepAt)
BY DEF DeadlinesSwept, InTime

\* What the sweep leaves pending is in time.
LEMMA SweptInTime ==
  ASSUME TypeOK, NEW m \in Message, InTime(m, lastSweepAt),
         m.queued => m.graceUntil # 0
  PROVE  /\ InTime(SweptMessage(m), now)
         /\ SweptMessage(m).queued => SweptMessage(m).graceUntil # 0
<1>1. /\ now \in Nat /\ now # 0 /\ AckTimeout \in Nat /\ MaxLag \in Nat
      /\ m.ttlAt \in Nat /\ m.deliveredAt \in Nat /\ m.graceUntil \in Nat
  BY ClockType, ConfigAssumption DEF Message
<1>2. CASE ~Pending(m)
  <2>1. SweptMessage(m) = m
    BY <1>2 DEF SweptMessage, Released
  <2> QED
    BY <1>2, <2>1 DEF InTime
<1>3. CASE Pending(m) /\ TimedOut(m)
  <2>1. SweptMessage(m) = [m EXCEPT !.state = "error", !.terminalAt = now]
    BY <1>3 DEF SweptMessage, Released
  <2>2. SweptMessage(m).state = "error"
        /\ SweptMessage(m).queued = m.queued
        /\ SweptMessage(m).graceUntil = m.graceUntil
    BY <2>1 DEF Message
  <2> QED
    BY <2>2 DEF InTime, Pending, isTerminal, TerminalStates
<1>4. CASE Pending(m) /\ ~TimedOut(m) /\ Released(m)
  <2>1. SweptMessage(m) = [m EXCEPT !.queued = FALSE, !.state = "waiting_ack",
                                    !.deliveredAt = now]
    BY <1>4 DEF SweptMessage, Released, ReleasedMessage
  <2>2. /\ ~SweptMessage(m).queued
        /\ SweptMessage(m).deliveredAt = now
        /\ SweptMessage(m).ttlAt = m.ttlAt
    BY <2>1 DEF Message
  <2>3. now <= m.ttlAt
    BY <1>1, <1>4 DEF TimedOut
  <2> QED
    BY <1>1, <2>2, <2>3 DEF InTime
<1>5. CASE Pending(m) /\ ~TimedOut(m) /\ ~Released(m)
  <2>1. SweptMessage(m) =
          IF GraceOver(m)
          THEN [m EXCEPT !.queued = FALSE, !.state = "error", !.terminalAt = now]
          ELSE m
    BY <1>5 DEF SweptMessage
  <2>2. CASE GraceOver(m)
    <3>1. SweptMessage(m).state = "error" /\ ~SweptMessage(m).queued
      BY <2>1, <2>2 DEF Message
    <3> QED
      BY <3>1 DEF InTime, Pending, isTerminal, TerminalStates
  <2>3. CASE ~GraceOver(m)
    <3>1. now <= m.ttlAt
      BY <1>1, <1>5 DEF TimedOut
    <3>2. m.state = "waiting_ack" =>
            m.deliveredAt # 0 /\ now <= m.deliveredAt + AckTimeout
      BY <1>1, <1>5 DEF InTime, TimedOut
    <3>3. m.queued => now <= m.graceUntil
      BY <1>1, <2>3 DEF GraceOver
    <3> QED
      BY <1>1, <2>1, <2>3, <3>1, <3>2, <3>3 DEF InTime
  <2> QED
    BY <2>2, <2>3
<1> QED
  BY <1>2, <1>3, <1>4, <1>5

\* Every step keeps what is pending in time.
LEMMA DeadlineStep ==
  ASSUME TypeOK, DeadlinesSwept, QueuedHasGrace, [Next]_vars
  PROVE  DeadlinesSwept' /\ QueuedHasGrace'
<1> DEFINE Good(m, at) == InTime(m, at) /\ (m.queued => m.graceUntil # 0)
<1>1. \A id \in DOMAIN messages : Good(messages[id], lastSweepAt)
  BY DeadlinesByMessage DEF QueuedHasGrace
<1>2. SUFFICES \A id \in DOMAIN messages' : Good(messages'[id], lastSweepAt')
  BY DEF DeadlinesSwept, QueuedHasGrace, InTime
<1>3. CASE Quiet
  BY <1>1, <1>3 DEF Quiet
<1>4. CASE Sweep
  <2>1. lastSweepAt' = now
    BY <1>4 DEF Sweep
  <2> QED
    BY <1>1, <1>4, <2>1, SweepMessages, SweptInTime
<1>5. CASE Sends
  <2>1. PICK m \in Message :
          /\ Added(m)
          /\ m.ttlAt >= now
          /\ m.state = "waiting_ack" => m.deliveredAt = now
          /\ m.queued => m.graceUntil # 0 /\ m.graceUntil >= now
    BY <1>5 DEF Sends
  <2>2. m.ttlAt \in Nat /\ m.graceUntil \in Nat /\ AckTimeout \in Nat
    BY ConfigAssumption DEF Message
  <2>3. Good(m, lastSweepAt)
    BY <2>1, <2>2, ClockType DEF InTime
  <2>4. lastSweepAt' = lastSweepAt
    BY <2>1 DEF Added
  <2> HIDE DEF Good
  <2> QED
    BY <1>1, <2>1, <2>3, <2>4, AddedMessages
<1>6. CASE Injects
  <2>1. PICK m \in Message :
          Added(m) /\ m.type = "inform" /\ (m.queued => m.graceUntil # 0)
    BY <1>6 DEF Injects
  <2>2. Good(m, lastSweepAt)
    BY <2>1 DEF InTime, Pending
  <2>3. lastSweepAt' = lastSweepAt
    BY <2>1 DEF Added
  <2> HIDE DEF Good
  <2> QED
    BY <1>1, <2>1, <2>2, <2>3, AddedMessages
<1>7. CASE Updates
  <2>1. PICK id \in DOMAIN messages, m \in Message :
          /\ messages' = [messages EXCEPT ![id] = m]
          /\ SameIdentity(m, messages[id])
          /\ m.graceUntil = messages[id].graceUntil
          /\ m.queued => messages[id].queued
          /\ Pending(messages[id])
          /\ m.state = "waiting_ack" =>
               /\ messages[id].state = "waiting_ack"
               /\ m.deliveredAt = messages[id].deliveredAt
          /\ lastSweepAt' = lastSweepAt
    BY <1>7 DEF Updates
  <2>2. Good(m, lastSweepAt)
    BY <1>1, <2>1 DEF InTime, SameIdentity
  <2>3. DOMAIN messages' = DOMAIN messages
        /\ \A other \in DOMAIN messages :
             messages'[other] = IF other = id THEN m ELSE messages[other]
    BY <2>1 DEF TypeOK
  <2> HIDE DEF Good
  <2> QED
    BY <1>1, <2>1, <2>2, <2>3
<1> QED
  BY <1>3, <1>4, <1>5, <1>6, <1>7, StoreSteps

(* No request outlives a deadline past a sweep, for every TTL, ack timeout *)
(* and grace period and every interleaving of the handlers of store.go.    *)
THEOREM DeadlinesKept == Spec => []DeadlinesSwept
<1>1. Init => DeadlinesSwept /\ QueuedHasGrace
  BY DEF Init, DeadlinesSwept, QueuedHasGrace
<1>2. TypeOK /\ DeadlinesSwept /\ QueuedHasGrace /\ [Next]_vars
        => DeadlinesSwept' /\ QueuedHasGrace'
  BY DeadlineStep
<1> QED
  BY <1>1, <1>2, TypeCorrect, PTL DEF Spec

(***************************************************************************)
(* The ways in which a step treats messages, inboxes and conversations     *)
(***************************************************************************)

\* sendMessage and inject.
Accepts ==
  \E m \in Message, choice \in ConversationChoices, names \in SUBSET Agents :
    /\ nextMessageID + 1 <= MaxMessages
    /\ m.to # Nobody => m.to \in DOMAIN agents
    /\ m.state \in {"pending", "waiting_ack", "completed"}
    /\ m.queued => m.state # "waiting_ack"
    /\ Accept(nextMessageID + 1, m, choice, names)

\* ack and postEvent: a pending request moves on and is never queued again.
Moves(m, n) ==
  /\ Pending(m)
  /\ n.to = m.to /\ n.conv = m.conv
  /\ n.queued => m.queued
  /\ n.state \in {m.state, "executing"} \cup TerminalStates
  /\ n.queued => n.state = m.state \/ m.state = "waiting_ack"
                 \/ n.state \in TerminalStates

Changes ==
  \E id \in DOMAIN messages, n \in Message :
    Moves(messages[id], n) /\ SetMessage(id, n)

\* Registration, polls, conversations without messages, and time.
Registers ==
  \E a \in Agents, ttl \in RegistrationTTLs, mode \in Modes :
    RegisterAgent(a, ttl, mode)
Polls ==
  \E a \in Agents, cursor \in Nat : PollInbox(a, cursor)
Creates ==
  \E actor \in Agents \cup {Nobody}, choice \in ConversationChoices,
     names \in ParticipantChoices : CreateConversation(actor, choice, names)
Idles ==
  UNCHANGED <<lastSweepAt, agents, messages, inboxes, idempotency,
              conversations, nextMessageID, nextConversationID>>

\* sendMessage accepts one message.
LEMMA SendAccepts ==
  ASSUME TypeOK, NEW from \in Agents, NEW to \in Agents, NEW req \in RequestIDs,
         NEW type \in SendTypes, NEW choice \in ConversationChoices,
         NEW ttl \in MessageTTLs, NEW size \in Sizes,
         SendMessage(from, to, req, type, choice, ttl, size)
  PROVE  Accepts
<1> DEFINE m == NewMessage(type, from, to, ConversationID(choice), req, size, ttl)
           sent == IF agents[to].status = "expired" THEN QueuedMessage(m)
                                                    ELSE DeliveredMessage(m)
<1>1. /\ nextMessageID + 1 <= MaxMessages
      /\ CounterAfter(choice) <= MaxConversations
      /\ to \in DOMAIN agents
      /\ Accept(nextMessageID + 1, sent, choice, {from, to})
  BY DEF SendMessage
<1>2. type \in {"request", "response", "inform"} /\ size \in Nat /\ ttl \in Nat
  BY InputAssumption, ConfigAssumption
<1>3. ConversationID(choice) \in Nat /\ now \in Nat
  BY <1>1, CounterType, Bounds DEF TypeOK
<1>4. /\ m \in Message /\ m.to = to /\ m.conv \in Nat /\ ~m.queued
      /\ m.state \in {"pending", "completed"}
  BY <1>2, <1>3 DEF NewMessage, Message, States, TerminalStates
<1> HIDE DEF m
<1>5. /\ sent \in Message /\ sent.to = to
      /\ sent.state \in {"pending", "waiting_ack", "completed"}
      /\ sent.queued => sent.state # "waiting_ack"
  <2>1. CASE agents[to].status = "expired"
    <3>1. sent = [m EXCEPT !.queued = TRUE, !.graceUntil = GraceEnd(to)]
      BY <1>4, <2>1 DEF QueuedMessage
    <3>2. sent \in Message
      BY <1>1, <1>4, <2>1, QueuedType
    <3> QED
      BY <1>4, <3>1, <3>2 DEF Message
  <2>2. CASE agents[to].status # "expired" /\ m.type = "request"
    <3>1. sent = [m EXCEPT !.state = "waiting_ack", !.deliveredAt = now]
      BY <2>2 DEF DeliveredMessage
    <3> QED
      BY <1>3, <1>4, <3>1 DEF Message, States
  <2>3. CASE agents[to].status # "expired" /\ m.type # "request"
    <3>1. sent = m
      BY <2>3 DEF DeliveredMessage
    <3> QED
      BY <1>4, <3>1
  <2> QED
    BY <2>1, <2>2, <2>3
<1>6. {from, to} \in SUBSET Agents
  OBVIOUS
<1> HIDE DEF sent
<1> QED
  BY <1>1, <1>5, <1>6 DEF Accepts

\* inject accepts one message.
LEMMA InjectAccepts ==
  ASSUME TypeOK, NEW to \in Agents \cup {Nobody},
         NEW choice \in ConversationChoices, NEW size \in Sizes,
         Inject(to, choice, size)
  PROVE  Accepts
<1> DEFINE m == NewMessage("inform", Human, to, ConversationID(choice), Injected,
                           size, DefaultMessageTTL)
           held == [QueuedMessage(m) EXCEPT !.state = "pending", !.terminalAt = 0]
           sent == IF to # Nobody /\ agents[to].status = "expired" THEN held ELSE m
<1>1. /\ nextMessageID + 1 <= MaxMessages
      /\ CounterAfter(choice) <= MaxConversations
      /\ to # Nobody => to \in DOMAIN agents
      /\ Accept(nextMessageID + 1, sent, choice, {})
  BY DEF Inject
<1>2. ConversationID(choice) \in Nat /\ size \in Nat /\ now \in Nat
  BY <1>1, CounterType, ConfigAssumption, Bounds DEF TypeOK
<1>3. /\ m \in Message /\ m.to = to /\ m.state = "completed" /\ ~m.queued
  BY <1>2, Bounds DEF NewMessage, Message, States, TerminalStates
<1> HIDE DEF m
<1>4. ASSUME to \in DOMAIN agents
      PROVE  held \in Message /\ held.to = to /\ held.state = "pending"
  <2>1. QueuedMessage(m) \in Message /\ QueuedMessage(m).to = to
    BY <1>3, <1>4, QueuedType
  <2> QED
    BY <2>1 DEF Message, States
<1>5. /\ sent \in Message /\ (sent.to # Nobody => sent.to \in DOMAIN agents)
      /\ sent.state \in {"pending", "waiting_ack", "completed"}
      /\ sent.state # "waiting_ack"
  <2> HIDE DEF held
  <2> QED
    BY <1>1, <1>3, <1>4
<1> HIDE DEF sent
<1> QED
  BY <1>1, <1>5 DEF Accepts

\* ack and postEvent move one pending request.
LEMMA AckChanges ==
  ASSUME TypeOK, NEW a \in Agents, NEW id \in MessageIDs,
         \/ \E status \in {"accepted", "rejected"} : Ack(a, id, status)
         \/ \E type \in {"progress", "final", "error"} : PostEvent(a, id, type)
  PROVE  Changes
<1> DEFINE m == messages[id]
<1>1. id \in DOMAIN messages /\ Pending(m)
  BY DEF Ack, PostEvent
<1>2. m \in Message /\ now \in Nat
  BY <1>1, Bounds DEF TypeOK
<1>3. PICK n : SetMessage(id, n) /\ MovedOn(m, n)
  <2>1. CASE \E status \in {"accepted", "rejected"} : Ack(a, id, status)
    BY <2>1 DEF Ack, MovedOn
  <2>2. CASE \E type \in {"progress", "final", "error"} : PostEvent(a, id, type)
    BY <2>2 DEF PostEvent, MovedOn
  <2> QED
    BY <2>1, <2>2
<1> HIDE DEF m
<1>4. n \in Message /\ SameRequest(m, n) /\ MovedFields(m, n)
  BY <1>2, <1>3, MovedMessage
<1>5. Moves(m, n)
  BY <1>1, <1>4 DEF SameRequest, MovedFields, Moves
<1> QED
  BY <1>1, <1>3, <1>4, <1>5 DEF Changes, m

\* Every call other than a poll.
LEMMA CallKinds ==
  ASSUME TypeOK, Call
  PROVE  Registers \/ Creates \/ Accepts \/ Changes
<1>1. CASE Registers \/ Creates
  BY <1>1
<1>2. CASE \E from, to \in Agents, req \in RequestIDs, type \in SendTypes,
              choice \in ConversationChoices, ttl \in MessageTTLs,
              size \in Sizes :
             SendMessage(from, to, req, type, choice, ttl, size)
  BY <1>2, SendAccepts
<1>3. CASE \E to \in Agents \cup {Nobody}, choice \in ConversationChoices,
              size \in Sizes : Inject(to, choice, size)
  BY <1>3, InjectAccepts
<1>4. CASE \E a \in Agents, id \in MessageIDs :
             \/ \E status \in {"accepted", "rejected"} : Ack(a, id, status)
             \/ \E type \in {"progress", "final", "error"} :
                  PostEvent(a, id, type)
  BY <1>4, AckChanges
<1> QED
  BY <1>1, <1>2, <1>3, <1>4 DEF Call, Registers, Creates

\* Every step is of one of these kinds.
LEMMA StepKinds ==
  ASSUME TypeOK, [Next]_vars
  PROVE  Idles \/ Sweep \/ Registers \/ Creates \/ Accepts \/ Changes \/ Polls
<1>1. CASE Tick \/ ReadClock
  BY <1>1 DEF Tick, ReadClock, Idles
<1>2. CASE Call
  BY <1>2, CallKinds
<1>3. CASE \E a \in Agents, cursor \in 0..MaxMessages + 1 : PollInbox(a, cursor)
  <2>1. \A cursor \in 0..MaxMessages + 1 : cursor \in Nat
    BY Bounds
  <2> QED
    BY <1>3, <2>1 DEF Polls
<1>4. CASE UNCHANGED vars
  BY <1>4 DEF vars, Idles
<1> QED
  BY <1>1, <1>2, <1>3, <1>4 DEF Next

(* What the sweep does to a message: a pending request may fail or be      *)
(* released, nothing else changes, and what it leaves queued it found      *)
(* queued and did not release.                                             *)
LEMMA SweptKeeps ==
  ASSUME NEW m \in Message, now \in Nat
  PROVE  /\ SweptMessage(m).to = m.to /\ SweptMessage(m).conv = m.conv
         /\ SweptMessage(m).queued => m.queued
         /\ Released(m) => ~SweptMessage(m).queued
         /\ \/ SweptMessage(m) = m /\ ~Released(m)
            \/ Pending(m) /\ SweptMessage(m).state = "error"
            \/ Released(m) /\ SweptMessage(m).state = "waiting_ack"
<1>1. CASE ~Pending(m)
  <2>1. SweptMessage(m) = m /\ ~Released(m)
    BY <1>1 DEF SweptMessage, Released
  <2> QED
    BY <2>1
<1>2. CASE Pending(m) /\ TimedOut(m)
  <2>1. /\ SweptMessage(m) = [m EXCEPT !.state = "error", !.terminalAt = now]
        /\ ~Released(m)
    BY <1>2 DEF SweptMessage, Released
  <2> QED
    BY <1>2, <2>1 DEF Message
<1>3. CASE Pending(m) /\ ~TimedOut(m) /\ Released(m)
  <2>1. SweptMessage(m) = [m EXCEPT !.queued = FALSE, !.state = "waiting_ack",
                                    !.deliveredAt = now]
    BY <1>3 DEF SweptMessage, Released, ReleasedMessage
  <2> QED
    BY <1>3, <2>1 DEF Message
<1>4. CASE Pending(m) /\ ~TimedOut(m) /\ ~Released(m)
  <2>1. SweptMessage(m) =
          IF GraceOver(m)
          THEN [m EXCEPT !.queued = FALSE, !.state = "error", !.terminalAt = now]
          ELSE m
    BY <1>4 DEF SweptMessage
  <2> QED
    BY <1>4, <2>1 DEF Message
<1> QED
  BY <1>1, <1>2, <1>3, <1>4

\* The messages after a sweep.
LEMMA SweepKeeps ==
  ASSUME TypeOK, Sweep
  PROVE  /\ now \in Nat /\ nextMessageID' = nextMessageID
         /\ DOMAIN messages' = KeptMessages /\ KeptMessages \subseteq DOMAIN messages
         /\ \A id \in DOMAIN messages : messages[id] \in Message
         /\ \A id \in KeptMessages : messages'[id] = SweptMessage(messages[id])
BY Bounds DEF TypeOK, Sweep, KeptMessages, SweptMessages

\* The messages after one was accepted.
LEMMA AcceptKeeps ==
  ASSUME TypeOK, NEW m \in Message, NEW choice, NEW names,
         Accept(nextMessageID + 1, m, choice, names)
  PROVE  /\ nextMessageID \in Nat /\ nextMessageID' = nextMessageID + 1
         /\ nextMessageID + 1 \notin DOMAIN messages
         /\ DOMAIN messages' = DOMAIN messages \cup {nextMessageID + 1}
         /\ messages'[nextMessageID + 1] = m
         /\ \A id \in DOMAIN messages :
              /\ messages'[id] = messages[id]
              /\ messages[id] \in Message
              /\ id \in Nat /\ id < nextMessageID + 1
<1>1. nextMessageID \in Nat
  BY Bounds DEF TypeOK
<1>2. DOMAIN messages \subseteq 1..nextMessageID
      /\ messages \in [DOMAIN messages -> Message]
  BY DEF TypeOK
<1>3. nextMessageID + 1 \notin DOMAIN messages
  BY <1>1, <1>2
<1> QED
  BY <1>1, <1>2, <1>3 DEF Accept, Put

\* The messages after ack or postEvent.
LEMMA SetKeeps ==
  ASSUME TypeOK, NEW id \in DOMAIN messages, NEW n, SetMessage(id, n)
  PROVE  /\ DOMAIN messages' = DOMAIN messages
         /\ messages'[id] = n
         /\ \A other \in DOMAIN messages :
              other # id => messages'[other] = messages[other]
         /\ UNCHANGED <<lastSweepAt, agents, inboxes, conversations, nextMessageID>>
BY DEF SetMessage, TypeOK

(***************************************************************************)
(* Idempotency                                                             *)
(***************************************************************************)

(* The table covers the window: while an acceptance is younger than the    *)
(* window by the clock, its key has an entry that is no older, whatever    *)
(* became of the message.  OncePerWindow alone is not inductive: it does   *)
(* not say what the table holds when the next send looks a key up.         *)
WindowCovered ==
  \A x \in accepted :
    /\ x \in Acceptance
    /\ x.msg <= nextMessageID
    /\ x.at <= clock
    /\ clock - x.at <= IdempotencyWindow =>
         /\ x.key \in DOMAIN idempotency
         /\ idempotency[x.key].at >= x.at

\* Types of what the window argument computes with.
LEMMA WindowTypes ==
  ASSUME TypeOK, WindowCovered
  PROVE  /\ IdempotencyWindow \in Nat
         /\ nextMessageID \in Nat
         /\ \A x \in accepted : x.at \in Nat /\ x.msg \in Nat
         /\ \A k \in DOMAIN idempotency : idempotency[k].at \in Nat
<1>1. IdempotencyWindow \in Nat
  BY ConfigAssumption
<1>2. nextMessageID \in Nat
  BY Bounds DEF TypeOK
<1>3. \A x \in accepted : x.at \in Nat /\ x.msg \in Nat
  BY Bounds DEF WindowCovered, Acceptance, MessageIDs
<1>4. \A k \in DOMAIN idempotency : idempotency[k].at \in Nat
  BY DEF TypeOK, Entry
<1> QED
  BY <1>1, <1>2, <1>3, <1>4

\* Message ids are never issued again, pruned or not.
LEMMA IdsGrow ==
  ASSUME TypeOK, [Next]_vars
  PROVE  /\ nextMessageID \in Nat /\ nextMessageID' \in Nat
         /\ nextMessageID <= nextMessageID'
<1>1. nextMessageID \in Nat
  BY Bounds DEF TypeOK
<1>2. nextMessageID' = nextMessageID \/ nextMessageID' = nextMessageID + 1
  BY <1>1, StepKinds
     DEF Idles, Sweep, Registers, RegisterAgent, Creates, CreateConversation,
         Accepts, Accept, Changes, SetMessage, Polls, PollInbox
<1> QED
  BY <1>1, <1>2

\* Steps that add no message, and injections, accept nothing.
LEMMA NothingAccepted ==
  ASSUME Record,
         \A id \in DOMAIN messages' \ DOMAIN messages : messages'[id].req = Injected
  PROVE  accepted' = accepted
<1>1. NewAcceptances = {}
  BY DEF NewAcceptances
<1> QED
  BY <1>1 DEF Record

\* The sweep drops no entry that the window still needs.
LEMMA SweepWindow ==
  ASSUME TypeOK, WindowCovered, Sweep
  PROVE  \A x \in accepted :
           clock' - x.at <= IdempotencyWindow =>
             /\ x.key \in DOMAIN idempotency'
             /\ idempotency'[x.key].at >= x.at
<1>1. clock' = clock /\ idempotency' = [k \in KeptEntries |-> idempotency[k]]
  BY DEF Sweep
<1>2. ASSUME NEW x \in accepted, clock - x.at <= IdempotencyWindow
      PROVE  x.key \in KeptEntries /\ idempotency[x.key].at >= x.at
  <2>1. x.key \in DOMAIN idempotency /\ idempotency[x.key].at >= x.at
    BY <1>2 DEF WindowCovered
  <2>2. ~(now - idempotency[x.key].at > IdempotencyWindow)
    BY <1>2, <2>1, WindowTypes, ClockType
  <2> QED
    BY <2>1, <2>2 DEF KeptEntries, StaleEntry
<1> QED
  BY <1>1, <1>2

\* Steps that accept nothing, when the table still covers the window.
LEMMA SameWindow ==
  ASSUME TypeOK, WindowCovered, OncePerWindow, accepted' = accepted,
         nextMessageID' \in Nat, nextMessageID <= nextMessageID',
         clock' \in Nat, clock <= clock',
         \A x \in accepted :
           clock' - x.at <= IdempotencyWindow =>
             /\ x.key \in DOMAIN idempotency'
             /\ idempotency'[x.key].at >= x.at
  PROVE  WindowCovered' /\ OncePerWindow'
<1>1. \A x \in accepted : x \in Acceptance /\ x.msg <= nextMessageID' /\ x.at <= clock'
  BY WindowTypes, ClockType DEF WindowCovered
<1> QED
  BY <1>1 DEF WindowCovered, OncePerWindow

\* A send is accepted only when no acceptance of its key is in the window.
LEMMA SendWindow ==
  ASSUME TypeOK, TypeOK', WindowCovered, OncePerWindow, Sends, Record
  PROVE  WindowCovered' /\ OncePerWindow'
<1> DEFINE new == nextMessageID + 1
<1>1. PICK m \in Message :
        /\ Added(m)
        /\ m.req \in RequestIDs
        /\ KeyOf(m) \in Key
        /\ ~Duplicate(KeyOf(m))
        /\ idempotency' = Put(idempotency, KeyOf(m), [msg |-> new, at |-> now])
  BY DEF Sends
<1>2. clock' = clock /\ m.createdAt = now /\ m.req # Injected
  BY <1>1, InputAssumption DEF Added
<1>3. /\ DOMAIN messages' = DOMAIN messages \cup {new}
      /\ new \notin DOMAIN messages /\ messages'[new] = m
  BY <1>1, AddedMessages
<1>4. \A k \in DOMAIN idempotency \cup {KeyOf(m)} :
        /\ k \in DOMAIN idempotency'
        /\ idempotency'[k] = IF k = KeyOf(m) THEN [msg |-> new, at |-> now]
                                             ELSE idempotency[k]
  BY <1>1 DEF Put
<1> DEFINE this == [msg |-> new, key |-> KeyOf(m), at |-> now]
<1>5. accepted' = accepted \cup {this}
  <2>1. {id \in DOMAIN messages' \ DOMAIN messages :
           messages'[id].req # Injected} = {new}
    BY <1>2, <1>3
  <2>2. NewAcceptances = {AcceptanceOf(new, messages'[new])}
    BY <2>1 DEF NewAcceptances
  <2>3. AcceptanceOf(new, messages'[new]) = this
    BY <1>2, <1>3 DEF AcceptanceOf, KeyOf
  <2> QED
    BY <2>2, <2>3 DEF Record
<1>6. /\ new \in MessageIDs /\ new \in Nat /\ nextMessageID' \in Nat
      /\ new <= nextMessageID'
  BY <1>3, Bounds DEF TypeOK, MessageIDs
<1>7. \A x \in accepted :
        /\ x \in Acceptance /\ x.msg < new /\ x.msg <= nextMessageID'
        /\ x.at <= clock
  BY <1>6, WindowTypes DEF WindowCovered
<1>8. ASSUME NEW x \in accepted, x.key = KeyOf(m),
             clock - x.at <= IdempotencyWindow
      PROVE  now - x.at > IdempotencyWindow
  <2>1. KeyOf(m) \in DOMAIN idempotency /\ idempotency[KeyOf(m)].at >= x.at
    BY <1>8 DEF WindowCovered
  <2>2. now - idempotency[KeyOf(m)].at > IdempotencyWindow
    BY <1>1, <2>1, WindowTypes, ClockType DEF Duplicate
  <2> QED
    BY <2>1, <2>2, WindowTypes, ClockType
<1>9. this \in Acceptance /\ this.msg = new /\ this.at = now /\ this.key = KeyOf(m)
  BY <1>1, <1>6, ClockType DEF Acceptance
<1> HIDE DEF new, this
<1>10. WindowCovered'
  <2> SUFFICES ASSUME NEW x \in accepted'
               PROVE  /\ x \in Acceptance
                      /\ x.msg <= nextMessageID'
                      /\ x.at <= clock
                      /\ clock - x.at <= IdempotencyWindow =>
                           /\ x.key \in DOMAIN idempotency'
                           /\ idempotency'[x.key].at >= x.at
    BY <1>2 DEF WindowCovered
  <2>1. CASE x = this
    BY <1>4, <1>6, <1>9, <2>1, ClockType
  <2>2. CASE x \in accepted /\ x.key = KeyOf(m)
    <3>1. clock - x.at <= IdempotencyWindow => now >= x.at
      BY <1>8, <2>2, WindowTypes, ClockType
    <3> QED
      BY <1>4, <1>7, <2>2, <3>1
  <2>3. CASE x \in accepted /\ x.key # KeyOf(m)
    BY <1>4, <1>7, <2>3 DEF WindowCovered
  <2> QED
    BY <1>5, <2>1, <2>2, <2>3
<1>11. OncePerWindow'
  <2> SUFFICES ASSUME NEW x \in accepted', NEW y \in accepted',
                      x.key = y.key, x.msg < y.msg
               PROVE  y.at - x.at > IdempotencyWindow - MaxLag
    BY DEF OncePerWindow
  <2>1. x \in accepted
    <3>1. ~(x = this)
      BY <1>5, <1>6, <1>7, <1>9, WindowTypes
    <3> QED
      BY <1>5, <3>1
  <2>2. CASE y = this
    <3>1. now - x.at > IdempotencyWindow - MaxLag
      BY <1>8, <1>9, <2>1, <2>2, WindowTypes, ClockType
    <3> QED
      BY <1>9, <2>2, <3>1
  <2>3. CASE y \in accepted
    BY <2>1, <2>3 DEF OncePerWindow
  <2> QED
    BY <1>5, <2>2, <2>3
<1> QED
  BY <1>10, <1>11

\* Every step keeps the table ahead of the window.
LEMMA WindowStep ==
  ASSUME TypeOK, TypeOK', WindowCovered, OncePerWindow,
         [AcceptancesNext]_acceptancesVars
  PROVE  WindowCovered' /\ OncePerWindow'
<1>1. CASE UNCHANGED acceptancesVars
  BY <1>1 DEF acceptancesVars, vars, WindowCovered, OncePerWindow
<1>2. CASE Next /\ Record
  <2>1. nextMessageID' \in Nat /\ nextMessageID <= nextMessageID'
    BY <1>2, IdsGrow
  <2>2. CASE Quiet
    <3>1. accepted' = accepted
      BY <1>2, <2>2, NothingAccepted DEF Quiet
    <3>2. \A x \in accepted :
            clock' - x.at <= IdempotencyWindow => clock - x.at <= IdempotencyWindow
      BY <2>2, WindowTypes, ClockType DEF Quiet
    <3> QED
      BY <2>1, <2>2, <3>1, <3>2, SameWindow DEF Quiet, WindowCovered
  <2>3. CASE Sweep
    <3>1. accepted' = accepted
      <4>1. DOMAIN messages' \ DOMAIN messages = {}
        BY <2>3, SweepMessages
      <4> QED
        BY <1>2, <4>1, NothingAccepted
    <3>2. clock' = clock
      BY <2>3 DEF Sweep
    <3> QED
      BY <2>1, <2>3, <3>1, <3>2, ClockType, SweepWindow, SameWindow
  <2>4. CASE Sends
    BY <1>2, <2>4, SendWindow
  <2>5. CASE Injects
    <3>1. PICK m \in Message :
            Added(m) /\ m.req = Injected /\ idempotency' = idempotency
      BY <2>5 DEF Injects
    <3>2. accepted' = accepted
      BY <1>2, <3>1, AddedMessages, NothingAccepted
    <3>3. clock' = clock
      BY <3>1 DEF Added
    <3> QED
      BY <2>1, <3>1, <3>2, <3>3, ClockType, SameWindow DEF WindowCovered
  <2>6. CASE Updates
    <3>1. /\ DOMAIN messages' = DOMAIN messages
          /\ clock' = clock /\ idempotency' = idempotency
      BY <2>6 DEF Updates, TypeOK
    <3>2. accepted' = accepted
      BY <1>2, <3>1, NothingAccepted
    <3> QED
      BY <2>1, <3>1, <3>2, ClockType, SameWindow DEF WindowCovered
  <2> QED
    BY <1>2, <2>2, <2>3, <2>4, <2>5, <2>6, StoreSteps
<1> QED
  BY <1>1, <1>2 DEF AcceptancesNext

(* A request id is accepted at most once per idempotency window, over the  *)
(* whole history and so whatever was pruned, for any number of senders and *)
(* any window, sweep interval, retention and lock wait: sweepLocked never  *)
(* drops an entry early, and sendMessage refuses on the entry alone.       *)
THEOREM Idempotent == AcceptancesSpec => []OncePerWindow
<1>1. AcceptancesInit => Init /\ WindowCovered /\ OncePerWindow
  BY DEF AcceptancesInit, WindowCovered, OncePerWindow
<1>2. [AcceptancesNext]_acceptancesVars => [Next]_vars
  BY DEF AcceptancesNext, acceptancesVars
<1>3. TypeOK /\ TypeOK' /\ WindowCovered /\ OncePerWindow
      /\ [AcceptancesNext]_acceptancesVars
        => WindowCovered' /\ OncePerWindow'
  BY WindowStep
<1>4. AcceptancesSpec => Spec
  BY <1>1, <1>2, PTL DEF AcceptancesSpec, Spec
<1> QED
  BY <1>1, <1>3, <1>4, TypeCorrect, PTL DEF AcceptancesSpec

(***************************************************************************)
(* Inboxes                                                                 *)
(***************************************************************************)

\* Events whose messages are all different.
Once(events) ==
  \A j, k \in DOMAIN events : events[j].msg = events[k].msg => j = k

\* Every event of the first sequence is an event of the second.
Among(events, others) ==
  \A k \in DOMAIN events : \E j \in DOMAIN others : events[k] = others[j]

\* A suffix of an inbox repeats no message that the inbox did not repeat.
LEMMA DropPrefixOnce ==
  ASSUME NEW box \in Inbox, NEW n \in Nat, n <= Len(box.events)
  PROVE  /\ Once(box.events) => Once(dropInboxPrefix(box, n).events)
         /\ Among(dropInboxPrefix(box, n).events, box.events)
<1> DEFINE old == box.events
           new == SubSeq(old, n + 1, Len(old))
<1>1. old \in Seq(Event) /\ Len(old) \in Nat /\ DOMAIN old = 1..Len(old)
  BY LenProperties DEF Inbox
<1>2. \A i \in n + 1..Len(old) : old[i] \in Event
  BY <1>1, ElementOfSeq
<1>3. /\ new \in Seq(Event)
      /\ Len(new) = IF n + 1 <= Len(old) THEN Len(old) - (n + 1) + 1 ELSE 0
      /\ \A i \in 1..Len(old) - (n + 1) + 1 : new[i] = old[(n + 1) + i - 1]
  BY <1>1, <1>2, SubSeqProperties
<1>4. DOMAIN new = 1..Len(new)
  BY <1>3, LenProperties
<1> HIDE DEF new
<1>5. ASSUME NEW k \in DOMAIN new
      PROVE  k \in Nat /\ n + k \in DOMAIN old /\ new[k] = old[n + k]
  <2>1. k \in 1..Len(new)
    BY <1>4
  <2>2. k \in Nat /\ k >= 1 /\ k <= Len(old) - n
    BY <1>1, <1>3, <2>1
  <2>3. k \in 1..Len(old) - (n + 1) + 1 /\ (n + 1) + k - 1 = n + k
    BY <1>1, <2>2
  <2>4. new[k] = old[n + k]
    BY <1>3, <2>3
  <2>5. n + k \in 1..Len(old)
    BY <1>1, <2>2
  <2> QED
    BY <1>1, <2>2, <2>4, <2>5
<1>6. dropInboxPrefix(box, n).events = new
  BY DEF dropInboxPrefix, new
<1>7. ASSUME Once(old), NEW j \in DOMAIN new, NEW k \in DOMAIN new,
             new[j].msg = new[k].msg
      PROVE  j = k
  <2>1. n + j = n + k
    BY <1>5, <1>7 DEF Once
  <2>2. j \in Nat /\ k \in Nat
    BY <1>5
  <2> QED
    BY <2>1, <2>2
<1>8. (Once(old) => Once(new)) /\ Among(new, old)
  BY <1>5, <1>7 DEF Once, Among
<1> QED
  BY <1>6, <1>8

\* appendInboxLocked repeats no message when the new events are new to the inbox.
LEMMA AppendInboxOnce ==
  ASSUME NEW box \in Inbox, NEW events \in Seq(Event),
         Once(box.events), Once(events),
         \A j \in DOMAIN box.events, k \in DOMAIN events :
           box.events[j].msg # events[k].msg
  PROVE  /\ Once(appendInbox(box, events).events)
         /\ \A k \in DOMAIN appendInbox(box, events).events :
              \/ \E j \in DOMAIN box.events :
                   appendInbox(box, events).events[k] = box.events[j]
              \/ \E j \in DOMAIN events :
                   appendInbox(box, events).events[k] = events[j]
<1> DEFINE old == box.events
           all == old \o events
           full == [base |-> box.base, events |-> all]
<1>1. /\ box.base \in Nat /\ old \in Seq(Event)
      /\ Len(old) \in Nat /\ DOMAIN old = 1..Len(old)
      /\ Len(events) \in Nat /\ DOMAIN events = 1..Len(events)
  BY LenProperties DEF Inbox
<1>2. /\ all \in Seq(Event)
      /\ Len(all) = Len(old) + Len(events)
      /\ \A i \in 1..Len(old) + Len(events) :
           all[i] = IF i <= Len(old) THEN old[i] ELSE events[i - Len(old)]
      /\ DOMAIN all = 1..Len(all)
  BY <1>1, ConcatProperties, LenProperties
<1> HIDE DEF all
<1>3. \A i \in DOMAIN all :
        /\ i \in Nat
        /\ \/ i \in DOMAIN old /\ all[i] = old[i]
           \/ i - Len(old) \in DOMAIN events /\ all[i] = events[i - Len(old)]
  BY <1>1, <1>2
<1>4. Once(all)
  <2> SUFFICES ASSUME NEW i \in DOMAIN all, NEW j \in DOMAIN all,
                      all[i].msg = all[j].msg
               PROVE  i = j
    BY DEF Once
  <2>1. i \in Nat /\ j \in Nat
    BY <1>3
  <2>2. CASE i \in DOMAIN old /\ all[i] = old[i]
    <3>1. j \in DOMAIN old /\ all[j] = old[j]
      BY <1>3, <2>2
    <3> QED
      BY <2>2, <3>1 DEF Once
  <2>3. CASE i - Len(old) \in DOMAIN events /\ all[i] = events[i - Len(old)]
    <3>1. j - Len(old) \in DOMAIN events /\ all[j] = events[j - Len(old)]
      BY <1>3, <2>3
    <3>2. i - Len(old) = j - Len(old)
      BY <2>3, <3>1 DEF Once
    <3> QED
      BY <1>1, <2>1, <3>2
  <2> QED
    BY <1>3, <2>2, <2>3
<1>5. full \in Inbox /\ full.events = all
  BY <1>1, <1>2 DEF Inbox
<1>6. DropCount(all) \in Nat /\ DropCount(all) <= Len(all)
  BY <1>2, DropCountType
<1>7. appendInbox(box, events) = dropInboxPrefix(full, DropCount(all))
  BY DEF appendInbox, all
<1> HIDE DEF full
<1>8. /\ Once(appendInbox(box, events).events)
      /\ Among(appendInbox(box, events).events, all)
  BY <1>4, <1>5, <1>6, <1>7, DropPrefixOnce
<1> QED
  BY <1>3, <1>8 DEF Among

(* Every event is of a message that was accepted.  InboxOnce alone is not  *)
(* inductive: the events of pruned messages stay in an inbox, and nothing  *)
(* else says that the next message does not get one of their ids.          *)
EventsIssued ==
  \A a \in DOMAIN inboxes : \A k \in DOMAIN inboxes[a].events :
    inboxes[a].events[k].msg <= nextMessageID

\* Both invariants, for the events of one agent.
Holds(events, a, msgs, n) ==
  /\ Once(events)
  /\ \A k \in DOMAIN events :
       /\ events[k].msg <= n
       /\ events[k].msg \in DOMAIN msgs =>
            msgs[events[k].msg].to = a /\ ~msgs[events[k].msg].queued

InboxesHold ==
  \A a \in DOMAIN inboxes : Holds(inboxes[a].events, a, messages, nextMessageID)

\* The invariant of the inboxes, one agent at a time.
LEMMA InboxesHoldMeans == InboxesHold <=> InboxOnce /\ EventsIssued
BY DEF InboxesHold, InboxOnce, EventsIssued, Holds, Once

\* Messages that keep their target and are not queued again do no harm.
LEMMA HoldsKept ==
  ASSUME NEW events \in Seq(Event), NEW a, NEW M, NEW N,
         NEW n \in Nat, NEW p \in Nat, n <= p,
         Holds(events, a, M, n),
         \A id \in DOMAIN N : id <= n =>
           id \in DOMAIN M /\ N[id].to = M[id].to /\ (N[id].queued => M[id].queued)
  PROVE  Holds(events, a, N, p)
<1>1. \A k \in DOMAIN events : events[k].msg \in Nat
  <2>1. DOMAIN events = 1..Len(events)
    BY LenProperties
  <2>2. \A k \in DOMAIN events : events[k] \in Event
    BY <2>1, ElementOfSeq
  <2> QED
    BY <2>2, Bounds DEF Event, MessageIDs
<1> QED
  BY <1>1 DEF Holds

\* The events in the inbox of an agent.
LEMMA BoxTypes ==
  ASSUME TypeOK, NEW a \in DOMAIN inboxes
  PROVE  /\ a \in DOMAIN agents /\ inboxes[a] \in Inbox
         /\ inboxes[a].events \in Seq(Event)
         /\ DOMAIN inboxes = DOMAIN agents
         /\ nextMessageID \in Nat
BY Bounds DEF TypeOK, Inbox

\* Registration gives a new agent an empty inbox.
LEMMA RegistersInboxes ==
  ASSUME TypeOK, InboxesHold, Registers
  PROVE  InboxesHold'
<1>1. PICK a \in Agents : /\ inboxes' = IF a \in DOMAIN inboxes THEN inboxes
                                ELSE Put(inboxes, a, [base |-> 0, events |-> << >>])
                          /\ messages' = messages /\ nextMessageID' = nextMessageID
  BY DEF Registers, RegisterAgent
<1>2. ASSUME NEW b \in DOMAIN inboxes'
      PROVE  Holds(inboxes'[b].events, b, messages, nextMessageID)
  <2>1. CASE b \in DOMAIN inboxes /\ inboxes'[b] = inboxes[b]
    BY <2>1 DEF InboxesHold
  <2>2. CASE inboxes'[b] = [base |-> 0, events |-> << >>]
    BY <2>2 DEF Holds, Once
  <2> QED
    BY <1>1, <1>2, <2>1, <2>2 DEF Put
<1> QED
  BY <1>1, <1>2 DEF InboxesHold

\* A poll only shortens an inbox.
LEMMA PollsInboxes ==
  ASSUME TypeOK, InboxesHold, Polls
  PROVE  InboxesHold'
<1>1. PICK a \in Agents, cursor \in Nat : PollInbox(a, cursor)
  BY DEF Polls
<1> DEFINE n == Clamp(inboxes[a], cursor) - inboxes[a].base
           box == dropInboxPrefix(inboxes[a], n)
<1>2. /\ a \in DOMAIN inboxes
      /\ inboxes' = [inboxes EXCEPT ![a] = box]
      /\ messages' = messages /\ nextMessageID' = nextMessageID
  BY <1>1 DEF PollInbox, Active, TypeOK
<1>3. inboxes[a] \in Inbox
  BY <1>2, BoxTypes
<1>4. n \in Nat /\ n <= Len(inboxes[a].events)
  BY <1>3, ClampRange
<1> HIDE DEF n
<1>5. Holds(inboxes[a].events, a, messages, nextMessageID)
  BY <1>2 DEF InboxesHold
<1>6. Once(box.events) /\ Among(box.events, inboxes[a].events)
  BY <1>3, <1>4, <1>5, DropPrefixOnce DEF Holds
<1> HIDE DEF box
<1>7. Holds(box.events, a, messages, nextMessageID)
  BY <1>5, <1>6 DEF Holds, Among
<1>8. ASSUME NEW b \in DOMAIN inboxes'
      PROVE  Holds(inboxes'[b].events, b, messages, nextMessageID)
  <2>1. b \in DOMAIN inboxes /\ inboxes'[b] = IF b = a THEN box ELSE inboxes[b]
    BY <1>2, <1>8
  <2> QED
    BY <1>7, <2>1 DEF InboxesHold
<1> QED
  BY <1>2, <1>8 DEF InboxesHold

\* ack and postEvent leave the inboxes and the targets of messages alone.
LEMMA ChangesInboxes ==
  ASSUME TypeOK, InboxesHold, Changes
  PROVE  InboxesHold'
<1>1. PICK id \in DOMAIN messages, n \in Message :
        Moves(messages[id], n) /\ SetMessage(id, n)
  BY DEF Changes
<1>2. /\ DOMAIN messages' = DOMAIN messages
      /\ messages'[id] = n
      /\ \A other \in DOMAIN messages :
           other # id => messages'[other] = messages[other]
      /\ inboxes' = inboxes /\ nextMessageID' = nextMessageID
  BY <1>1, SetKeeps
<1>3. \A other \in DOMAIN messages' :
        /\ other \in DOMAIN messages
        /\ messages'[other].to = messages[other].to
        /\ messages'[other].queued => messages[other].queued
  BY <1>1, <1>2 DEF Moves
<1>4. ASSUME NEW b \in DOMAIN inboxes
      PROVE  Holds(inboxes[b].events, b, messages', nextMessageID)
  <2>1. inboxes[b].events \in Seq(Event) /\ nextMessageID \in Nat
    BY <1>4, BoxTypes
  <2>2. Holds(inboxes[b].events, b, messages, nextMessageID)
    BY <1>4 DEF InboxesHold
  <2> QED
    BY <1>3, <2>1, <2>2, HoldsKept
<1> QED
  BY <1>2, <1>4 DEF InboxesHold

\* An accepted message has a new id, so its event is new to every inbox.
LEMMA AcceptsInboxes ==
  ASSUME TypeOK, InboxesHold, Accepts
  PROVE  InboxesHold'
<1> DEFINE id == nextMessageID + 1
<1>1. PICK m \in Message, choice \in ConversationChoices, names \in SUBSET Agents :
        /\ id <= MaxMessages
        /\ m.to # Nobody => m.to \in DOMAIN agents
        /\ Accept(id, m, choice, names)
  BY DEF Accepts
<1>2. /\ nextMessageID \in Nat /\ nextMessageID' = id
      /\ id \notin DOMAIN messages
      /\ DOMAIN messages' = DOMAIN messages \cup {id}
      /\ messages'[id] = m
      /\ \A other \in DOMAIN messages : messages'[other] = messages[other]
  BY <1>1, AcceptKeeps
<1>3. id \in MessageIDs /\ id \in Nat /\ nextMessageID <= id /\ ~(id <= nextMessageID)
  BY <1>1, <1>2, Bounds DEF MessageIDs
<1>4. inboxes' = IF m.to = Nobody \/ m.queued THEN inboxes
                 ELSE [inboxes EXCEPT ![m.to] = appendInbox(@, <<EventOf(id, m)>>)]
  BY <1>1 DEF Accept
<1>5. ASSUME NEW b \in DOMAIN inboxes
      PROVE  Holds(inboxes[b].events, b, messages', id)
  <2>1. inboxes[b].events \in Seq(Event)
    BY <1>5, BoxTypes
  <2>2. Holds(inboxes[b].events, b, messages, nextMessageID)
    BY <1>5 DEF InboxesHold
  <2>3. \A other \in DOMAIN messages' : other <= nextMessageID =>
          other \in DOMAIN messages /\ messages'[other] = messages[other]
    BY <1>2, <1>3
  <2> HIDE DEF id
  <2> QED
    BY <1>2, <1>3, <2>1, <2>2, <2>3, HoldsKept
<1>6. ASSUME m.to # Nobody, ~m.queued
      PROVE  Holds(appendInbox(inboxes[m.to], <<EventOf(id, m)>>).events,
                   m.to, messages', id)
  <2> DEFINE old == inboxes[m.to].events
             new == <<EventOf(id, m)>>
             box == appendInbox(inboxes[m.to], new)
  <2>1. m.to \in DOMAIN inboxes
    BY <1>1, <1>6 DEF TypeOK
  <2>2. inboxes[m.to] \in Inbox
    BY <2>1, BoxTypes
  <2>3. new \in Seq(Event) /\ DOMAIN new = {1} /\ new[1].msg = id
    BY <1>3, EventOfType DEF EventOf
  <2>4. Holds(old, m.to, messages, nextMessageID)
    BY <2>1 DEF InboxesHold
  <2>5. Holds(old, m.to, messages', id)
    BY <1>5, <2>1
  <2> HIDE DEF new, id
  <2>6. Once(new) /\ Once(old)
    BY <2>3, <2>4 DEF Once, Holds
  <2>7. \A j \in DOMAIN old, k \in DOMAIN new : old[j].msg # new[k].msg
    BY <1>3, <2>3, <2>4 DEF Holds
  <2>8. /\ Once(box.events)
        /\ \A k \in DOMAIN box.events :
             \/ \E j \in DOMAIN old : box.events[k] = old[j]
             \/ \E j \in DOMAIN new : box.events[k] = new[j]
    BY <2>2, <2>3, <2>6, <2>7, AppendInboxOnce
  <2> HIDE DEF box, old
  <2>9. \A k \in DOMAIN box.events :
          /\ box.events[k].msg <= id
          /\ box.events[k].msg \in DOMAIN messages' =>
               /\ messages'[box.events[k].msg].to = m.to
               /\ ~messages'[box.events[k].msg].queued
    BY <1>2, <1>3, <1>6, <2>3, <2>5, <2>8 DEF Holds
  <2>10. Holds(box.events, m.to, messages', id)
    BY <2>8, <2>9 DEF Holds
  <2> QED
    BY <2>10 DEF box, new, id
<1>7. ASSUME NEW b \in DOMAIN inboxes'
      PROVE  Holds(inboxes'[b].events, b, messages', id)
  <2> HIDE DEF id
  <2>1. CASE m.to = Nobody \/ m.queued
    BY <1>4, <1>5, <1>7, <2>1
  <2>2. CASE ~(m.to = Nobody \/ m.queued)
    <3>1. /\ b \in DOMAIN inboxes
          /\ inboxes'[b] = IF b = m.to
                           THEN appendInbox(inboxes[b], <<EventOf(id, m)>>)
                           ELSE inboxes[b]
      BY <1>4, <1>7, <2>2
    <3> QED
      BY <1>5, <1>6, <2>2, <3>1
  <2> QED
    BY <2>1, <2>2
<1> QED
  BY <1>2, <1>7 DEF InboxesHold

\* The events of one release are of different requests, all of them queued.
LEMMA ReleaseOnce ==
  ASSUME TypeOK, NEW order \in ReleaseOrders, NEW a \in DOMAIN agents
  PROVE  /\ order[a] \in Seq(DOMAIN messages)
         /\ \A k \in DOMAIN order[a] : order[a][k] \in ReleasedTo(a)
         /\ \A j, k \in DOMAIN order[a] : order[a][j] = order[a][k] => j = k
<1>1. order[a] \in SetToSeqs(ReleasedTo(a))
  BY DEF ReleaseOrders
<1>2. /\ order[a] \in [1..Cardinality(ReleasedTo(a)) -> ReleasedTo(a)]
      /\ \A j, k \in 1..Cardinality(ReleasedTo(a)) :
           j # k => order[a][j] # order[a][k]
  BY <1>1 DEF SetToSeqs
<1> QED
  BY <1>2, ReleaseOrderType

\* The sweep appends queued requests, which are in no inbox, each once.
LEMMA SweepInboxes ==
  ASSUME TypeOK, InboxesHold, Sweep
  PROVE  InboxesHold'
<1>1. /\ now \in Nat /\ nextMessageID' = nextMessageID
      /\ DOMAIN messages' = KeptMessages /\ KeptMessages \subseteq DOMAIN messages
      /\ \A id \in DOMAIN messages : messages[id] \in Message
      /\ \A id \in KeptMessages : messages'[id] = SweptMessage(messages[id])
  BY SweepKeeps
<1>2. \A id \in DOMAIN messages' :
        /\ id \in DOMAIN messages
        /\ messages'[id].to = messages[id].to
        /\ messages'[id].queued => messages[id].queued
        /\ Released(messages[id]) => ~messages'[id].queued
  BY <1>1, SweptKeeps
<1>3. PICK order \in ReleaseOrders :
        inboxes' = [a \in KeptAgents |-> SweptInbox(a, order[a])]
  BY DEF Sweep
<1>4. nextMessageID \in Nat /\ DOMAIN messages \subseteq 1..nextMessageID
      /\ nextMessageID <= MaxMessages
  BY Bounds DEF TypeOK
<1>5. ASSUME NEW a \in KeptAgents
      PROVE  Holds(SweptInbox(a, order[a]).events, a, messages', nextMessageID)
  <2> DEFINE ids == order[a]
             old == inboxes[a].events
             new == [k \in DOMAIN ids |-> EventOf(ids[k], messages[ids[k]])]
             box == appendInbox(inboxes[a], new)
  <2>1. a \in DOMAIN agents /\ a \in DOMAIN inboxes
    BY <1>5 DEF KeptAgents, TypeOK
  <2>2. /\ inboxes[a] \in Inbox /\ old \in Seq(Event)
        /\ Holds(old, a, messages, nextMessageID)
    BY <2>1, BoxTypes DEF InboxesHold
  <2>3. Holds(old, a, messages', nextMessageID)
    BY <1>2, <1>4, <2>2, HoldsKept
  <2>4. /\ ids \in Seq(DOMAIN messages)
        /\ \A k \in DOMAIN ids : ids[k] \in ReleasedTo(a)
        /\ \A j, k \in DOMAIN ids : ids[j] = ids[k] => j = k
    BY <2>1, ReleaseOnce
  <2>5. \A k \in DOMAIN ids :
          /\ ids[k] \in DOMAIN messages
          /\ Released(messages[ids[k]]) /\ messages[ids[k]].to = a
          /\ messages[ids[k]].queued
          /\ ids[k] <= nextMessageID
    BY <1>4, <2>4 DEF ReleasedTo, Released
  <2>6. DOMAIN new = DOMAIN ids /\ \A k \in DOMAIN ids : new[k].msg = ids[k]
    BY DEF EventOf
  <2>7. new \in Seq(Event)
    <3>1. \A k \in DOMAIN ids : new[k] \in Event
      <4> TAKE k \in DOMAIN ids
      <4>1. ids[k] \in MessageIDs /\ messages[ids[k]] \in Message
        BY <1>1, <1>4, <2>5, Bounds DEF MessageIDs
      <4> QED
        BY <4>1, EventOfType
    <3>2. Len(ids) \in Nat /\ DOMAIN ids = 1..Len(ids)
      BY <2>4, LenProperties
    <3>3. new \in [1..Len(ids) -> Event]
      BY <3>1, <3>2
    <3> QED
      BY <3>2, <3>3, SeqDef
  <2>8. SweptInbox(a, order[a]) = box
    BY DEF SweptInbox
  <2> HIDE DEF new, ids
  <2>9. Once(new) /\ Once(old)
    BY <2>2, <2>4, <2>6 DEF Once, Holds
  <2>10. \A j \in DOMAIN old, k \in DOMAIN new : old[j].msg # new[k].msg
    BY <2>2, <2>5, <2>6 DEF Holds
  <2>11. /\ Once(box.events)
         /\ \A k \in DOMAIN box.events :
              \/ \E j \in DOMAIN old : box.events[k] = old[j]
              \/ \E j \in DOMAIN new : box.events[k] = new[j]
    BY <2>2, <2>7, <2>9, <2>10, AppendInboxOnce
  <2> HIDE DEF box, old
  <2>12. \A k \in DOMAIN box.events :
           /\ box.events[k].msg <= nextMessageID
           /\ box.events[k].msg \in DOMAIN messages' =>
                /\ messages'[box.events[k].msg].to = a
                /\ ~messages'[box.events[k].msg].queued
    <3> TAKE k \in DOMAIN box.events
    <3>1. CASE \E j \in DOMAIN old : box.events[k] = old[j]
      BY <2>3, <3>1 DEF Holds
    <3>2. CASE \E j \in DOMAIN new : box.events[k] = new[j]
      <4>1. PICK j \in DOMAIN ids : box.events[k].msg = ids[j]
        BY <2>6, <3>2
      <4> QED
        BY <1>2, <2>5, <4>1
    <3> QED
      BY <2>11, <3>1, <3>2
  <2> QED
    BY <2>8, <2>11, <2>12 DEF Holds
<1>6. DOMAIN inboxes' = KeptAgents
      /\ \A a \in KeptAgents : inboxes'[a] = SweptInbox(a, order[a])
  BY <1>3
<1> QED
  BY <1>1, <1>5, <1>6 DEF InboxesHold

\* Every step preserves the invariant of the inboxes.
LEMMA NextInboxes ==
  ASSUME TypeOK, InboxesHold, [Next]_vars
  PROVE  InboxesHold'
<1>1. CASE Idles \/ Creates
  <2>1. UNCHANGED <<inboxes, messages, nextMessageID>>
    BY <1>1 DEF Idles, Creates, CreateConversation
  <2> QED
    BY <2>1 DEF InboxesHold
<1> QED
  BY <1>1, StepKinds, SweepInboxes, RegistersInboxes, AcceptsInboxes,
     ChangesInboxes, PollsInboxes

(* A message enters its target's inbox at most once, whichever of          *)
(* sendMessage, inject and the sweep's release of queued requests puts it  *)
(* there and however inboxes are trimmed, messages pruned and agents       *)
(* re-registered: no inbox of any reachable state holds an event twice, or *)
(* one of a message that is for somebody else or still marked queued.      *)
THEOREM InboxOnceHolds == Spec => []InboxOnce
<1>1. Init => InboxesHold
  BY DEF Init, InboxesHold
<1>2. TypeOK /\ InboxesHold /\ [Next]_vars => InboxesHold'
  BY NextInboxes
<1>3. InboxesHold => InboxOnce
  BY InboxesHoldMeans
<1> QED
  BY <1>1, <1>2, <1>3, TypeCorrect, PTL DEF Spec

(***************************************************************************)
(* Conversations                                                           *)
(***************************************************************************)

(* Every message that a conversation lists was accepted, so that the next  *)
(* one comes after all of them.                                            *)
LinksIssued ==
  \A cid \in DOMAIN conversations : \A k \in DOMAIN conversations[cid].msgs :
    conversations[cid].msgs[k] <= nextMessageID

\* A list in the order of acceptance, of ids up to n.
Listed(msgs, n) ==
  /\ \A j, k \in DOMAIN msgs : j < k => msgs[j] < msgs[k]
  /\ \A k \in DOMAIN msgs : msgs[k] <= n

\* A message is found through its conversation.
Found(id, cid, convs) ==
  cid \in DOMAIN convs /\ \E k \in DOMAIN convs[cid].msgs : convs[cid].msgs[k] = id

ConversationsHold ==
  /\ \A id \in DOMAIN messages : Found(id, messages[id].conv, conversations)
  /\ \A cid \in DOMAIN conversations :
       Listed(conversations[cid].msgs, nextMessageID)

\* The invariant of the conversations, one message or conversation at a time.
LEMMA ConversationsHoldMeans ==
  ConversationsHold <=> ConversationKeepsMessages /\ LinksIssued
BY DEF ConversationsHold, ConversationKeepsMessages, LinksIssued, Listed, Found

\* A list extended by the next id is still in order.
LEMMA ListedAppend ==
  ASSUME NEW msgs \in Seq(MessageIDs), NEW n \in Nat, n + 1 \in MessageIDs,
         Listed(msgs, n)
  PROVE  /\ Listed(Append(msgs, n + 1), n + 1)
         /\ \A k \in DOMAIN msgs : k \in DOMAIN Append(msgs, n + 1)
                                   /\ Append(msgs, n + 1)[k] = msgs[k]
         /\ \E k \in DOMAIN Append(msgs, n + 1) : Append(msgs, n + 1)[k] = n + 1
<1> DEFINE new == Append(msgs, n + 1)
<1>1. Len(msgs) \in Nat /\ DOMAIN msgs = 1..Len(msgs)
  BY LenProperties
<1>2. /\ new \in Seq(MessageIDs) /\ Len(new) = Len(msgs) + 1
      /\ \A i \in 1..Len(msgs) : new[i] = msgs[i]
      /\ new[Len(msgs) + 1] = n + 1
  BY AppendProperties
<1>3. DOMAIN new = 1..Len(msgs) + 1
  BY <1>2, LenProperties
<1>4. \A i \in 1..Len(msgs) : msgs[i] \in Nat
  BY <1>1, ElementOfSeq, Bounds DEF MessageIDs
<1> HIDE DEF new
<1>5. \A k \in DOMAIN new : new[k] <= n + 1
  BY <1>1, <1>2, <1>3, <1>4 DEF Listed
<1>6. \A j, k \in DOMAIN new : j < k => new[j] < new[k]
  <2> SUFFICES ASSUME NEW j \in DOMAIN new, NEW k \in DOMAIN new, j < k
               PROVE  new[j] < new[k]
    OBVIOUS
  <2>1. j \in 1..Len(msgs)
    BY <1>1, <1>3
  <2>2. CASE k \in 1..Len(msgs)
    BY <1>1, <1>2, <2>1, <2>2 DEF Listed
  <2>3. CASE k = Len(msgs) + 1
    BY <1>1, <1>2, <1>4, <2>1, <2>3 DEF Listed
  <2> QED
    BY <1>1, <1>3, <2>2, <2>3
<1>7. Listed(new, n + 1)
  BY <1>5, <1>6 DEF Listed
<1> QED
  BY <1>1, <1>2, <1>3, <1>7 DEF new

\* Types of the conversations.
LEMMA ConversationTypes ==
  ASSUME TypeOK, NEW cid \in DOMAIN conversations
  PROVE  /\ conversations[cid] \in Conversation
         /\ conversations[cid].msgs \in Seq(MessageIDs)
         /\ nextMessageID \in Nat
         /\ \A k \in DOMAIN conversations[cid].msgs :
              conversations[cid].msgs[k] \in Nat
<1>1. /\ conversations[cid] \in Conversation
      /\ conversations[cid].msgs \in Seq(MessageIDs)
      /\ nextMessageID \in Nat
  BY Bounds DEF TypeOK, Conversation
<1> QED
  BY <1>1, LenProperties, ElementOfSeq, Bounds DEF MessageIDs

\* CreateConversation adds an empty list or none.
LEMMA CreatesConversations ==
  ASSUME TypeOK, ConversationsHold, Creates
  PROVE  ConversationsHold'
<1>1. PICK actor \in Agents \cup {Nobody}, choice \in ConversationChoices,
           names \in ParticipantChoices : CreateConversation(actor, choice, names)
  BY DEF Creates
<1> DEFINE id == ConversationID(choice)
           new == [participants |-> names, lastMessageAt |-> now, msgs |-> << >>]
<1>2. messages' = messages /\ nextMessageID' = nextMessageID
  BY <1>1 DEF CreateConversation
<1>3. \/ conversations' = conversations
      \/ /\ id \in DOMAIN conversations
         /\ conversations' = [conversations EXCEPT ![id].participants = @ \cup names]
      \/ /\ id \notin DOMAIN conversations
         /\ conversations' = Put(conversations, id, new)
  BY <1>1 DEF CreateConversation
<1>4. /\ DOMAIN conversations \subseteq DOMAIN conversations'
      /\ \A cid \in DOMAIN conversations' :
           \/ /\ cid \in DOMAIN conversations
              /\ conversations'[cid].msgs = conversations[cid].msgs
           \/ cid \notin DOMAIN conversations /\ conversations'[cid].msgs = << >>
  <2>1. CASE conversations' = conversations
    BY <2>1
  <2>2. CASE /\ id \in DOMAIN conversations
             /\ conversations' = [conversations EXCEPT ![id].participants = @ \cup names]
    <3>1. conversations[id] \in Conversation
      BY <2>2, ConversationTypes
    <3>2. conversations'[id].msgs = conversations[id].msgs
      BY <2>2, <3>1 DEF Conversation
    <3> HIDE DEF id
    <3> QED
      BY <2>2, <3>2
  <2>3. CASE /\ id \notin DOMAIN conversations
             /\ conversations' = Put(conversations, id, new)
    <3> HIDE DEF id
    <3> QED
      BY <2>3 DEF Put
  <2> QED
    BY <1>3, <2>1, <2>2, <2>3
<1>5. \A m \in DOMAIN messages : Found(m, messages[m].conv, conversations')
  BY <1>4 DEF ConversationsHold, Found
<1>6. \A cid \in DOMAIN conversations' :
        Listed(conversations'[cid].msgs, nextMessageID)
  <2>1. Listed(<< >>, nextMessageID)
    BY DEF Listed
  <2> QED
    BY <1>4, <2>1 DEF ConversationsHold
<1> QED
  BY <1>2, <1>5, <1>6 DEF ConversationsHold

\* sendMessage and inject link the new message at the end of its conversation.
LEMMA AcceptsConversations ==
  ASSUME TypeOK, ConversationsHold, Accepts
  PROVE  ConversationsHold'
<1> DEFINE id == nextMessageID + 1
<1>1. PICK m \in Message, choice \in ConversationChoices, names \in SUBSET Agents :
        id <= MaxMessages /\ Accept(id, m, choice, names)
  BY DEF Accepts
<1>2. /\ nextMessageID \in Nat /\ nextMessageID' = id
      /\ DOMAIN messages' = DOMAIN messages \cup {id}
      /\ messages'[id] = m
      /\ \A other \in DOMAIN messages : messages'[other] = messages[other]
  BY <1>1, AcceptKeeps
<1>3. id \in MessageIDs
  BY <1>1, <1>2, Bounds DEF MessageIDs
<1>4. conversations' = LinkMessage(m.conv, id, names)
  BY <1>1 DEF Accept
<1>5. /\ DOMAIN conversations' = DOMAIN conversations \cup {m.conv}
      /\ \A cid \in DOMAIN conversations :
           cid # m.conv => conversations'[cid] = conversations[cid]
      /\ conversations'[m.conv].msgs =
           IF m.conv \in DOMAIN conversations
           THEN Append(conversations[m.conv].msgs, id) ELSE <<id>>
  BY <1>4 DEF LinkMessage, Put
<1>6. Found(id, m.conv, conversations') /\ Listed(conversations'[m.conv].msgs, id)
  <2>1. CASE m.conv \in DOMAIN conversations
    <3>1. Listed(conversations[m.conv].msgs, nextMessageID)
          /\ conversations[m.conv].msgs \in Seq(MessageIDs)
      BY <2>1, ConversationTypes DEF ConversationsHold
    <3> QED
      BY <1>2, <1>3, <1>5, <2>1, <3>1, ListedAppend DEF Found
  <2>2. CASE m.conv \notin DOMAIN conversations
    BY <1>2, <1>5, <2>2 DEF Found, Listed
  <2> QED
    BY <2>1, <2>2
<1>7. ASSUME NEW cid \in DOMAIN conversations
      PROVE  /\ Listed(conversations'[cid].msgs, id)
             /\ \A other \in DOMAIN messages : Found(other, cid, conversations)
                  => Found(other, cid, conversations')
  <2>1. /\ Listed(conversations[cid].msgs, nextMessageID)
        /\ conversations[cid].msgs \in Seq(MessageIDs)
        /\ \A k \in DOMAIN conversations[cid].msgs :
             conversations[cid].msgs[k] \in Nat
    BY <1>7, ConversationTypes DEF ConversationsHold
  <2>2. CASE cid # m.conv
    <3>1. conversations'[cid] = conversations[cid] /\ cid \in DOMAIN conversations'
      BY <1>5, <1>7, <2>2
    <3> QED
      BY <1>2, <2>1, <3>1 DEF Listed, Found
  <2>3. CASE cid = m.conv
    <3>1. conversations'[cid].msgs = Append(conversations[cid].msgs, id)
      BY <1>5, <1>7, <2>3
    <3>2. \A k \in DOMAIN conversations[cid].msgs :
            /\ k \in DOMAIN conversations'[cid].msgs
            /\ conversations'[cid].msgs[k] = conversations[cid].msgs[k]
      BY <1>2, <1>3, <2>1, <3>1, ListedAppend
    <3> QED
      BY <1>5, <1>6, <2>3, <3>2 DEF Found
  <2> QED
    BY <2>2, <2>3
<1>8. \A other \in DOMAIN messages' :
        Found(other, messages'[other].conv, conversations')
  <2> TAKE other \in DOMAIN messages'
  <2> HIDE DEF id
  <2>1. CASE other = id
    BY <1>2, <1>6, <2>1
  <2>2. CASE other \in DOMAIN messages
    <3>1. Found(other, messages[other].conv, conversations)
      BY <2>2 DEF ConversationsHold
    <3>2. messages[other].conv \in DOMAIN conversations
      BY <3>1 DEF Found
    <3> QED
      BY <1>2, <1>7, <2>2, <3>1, <3>2
  <2> QED
    BY <1>2, <2>1, <2>2
<1>9. \A cid \in DOMAIN conversations' : Listed(conversations'[cid].msgs, id)
  BY <1>5, <1>6, <1>7
<1> QED
  BY <1>2, <1>8, <1>9 DEF ConversationsHold

\* ack and postEvent leave a message in its conversation.
LEMMA ChangesConversations ==
  ASSUME TypeOK, ConversationsHold, Changes
  PROVE  ConversationsHold'
<1>1. PICK id \in DOMAIN messages, n \in Message :
        Moves(messages[id], n) /\ SetMessage(id, n)
  BY DEF Changes
<1>2. /\ DOMAIN messages' = DOMAIN messages
      /\ messages'[id] = n
      /\ \A other \in DOMAIN messages :
           other # id => messages'[other] = messages[other]
      /\ conversations' = conversations /\ nextMessageID' = nextMessageID
  BY <1>1, SetKeeps
<1>3. \A other \in DOMAIN messages' :
        other \in DOMAIN messages /\ messages'[other].conv = messages[other].conv
  BY <1>1, <1>2 DEF Moves
<1> QED
  BY <1>2, <1>3 DEF ConversationsHold

\* pruneLocked drops a conversation only when none of its messages is kept.
LEMMA SweepConversations ==
  ASSUME TypeOK, ConversationsHold, Sweep
  PROVE  ConversationsHold'
<1>1. /\ nextMessageID' = nextMessageID
      /\ DOMAIN messages' = KeptMessages /\ KeptMessages \subseteq DOMAIN messages
      /\ \A id \in KeptMessages : messages'[id].conv = messages[id].conv
  BY SweepKeeps, SweptKeeps
<1>2. conversations' = [c \in KeptConversations |-> conversations[c]]
      /\ KeptConversations \subseteq DOMAIN conversations
  BY DEF Sweep, KeptConversations
<1>3. ASSUME NEW id \in KeptMessages
      PROVE  Found(id, messages[id].conv, conversations')
  <2> DEFINE cid == messages[id].conv
  <2>1. Found(id, cid, conversations)
    BY <1>1, <1>3 DEF ConversationsHold
  <2>2. ~PrunedConversation(conversations[cid])
    BY <1>3, <2>1 DEF Found, PrunedConversation
  <2>3. cid \in KeptConversations
    BY <2>1, <2>2 DEF Found, KeptConversations
  <2> QED
    BY <1>2, <2>1, <2>3 DEF Found
<1> QED
  BY <1>1, <1>2, <1>3 DEF ConversationsHold

\* Every step preserves the invariant of the conversations.
LEMMA NextConversations ==
  ASSUME TypeOK, ConversationsHold, [Next]_vars
  PROVE  ConversationsHold'
<1>1. CASE Idles \/ Registers \/ Polls
  <2>1. UNCHANGED <<conversations, messages, nextMessageID>>
    BY <1>1 DEF Idles, Registers, RegisterAgent, Polls, PollInbox
  <2> QED
    BY <2>1 DEF ConversationsHold
<1> QED
  BY <1>1, StepKinds, CreatesConversations, AcceptsConversations,
     ChangesConversations, SweepConversations

(* A live message can always be found through its conversation, and a      *)
(* conversation lists its messages once each, in the order of acceptance,  *)
(* although pruneLocked removes messages and conversations on schedules of *)
(* their own and a pruned conversation id may be used again.               *)
THEOREM ConversationKeepsMessagesHolds == Spec => []ConversationKeepsMessages
<1>1. Init => ConversationsHold
  BY DEF Init, ConversationsHold
<1>2. TypeOK /\ ConversationsHold /\ [Next]_vars => ConversationsHold'
  BY NextConversations
<1>3. ConversationsHold => ConversationKeepsMessages
  BY ConversationsHoldMeans
<1> QED
  BY <1>1, <1>2, <1>3, TypeCorrect, PTL DEF Spec

(***************************************************************************)
(* What the sweep releases                                                 *)
(***************************************************************************)

\* A request that a sweep leaves queued has a target that is not active.
LEMMA SweepLeaves ==
  ASSUME TypeOK, Sweep, NEW id \in DOMAIN messages',
         Pending(messages'[id]), messages'[id].queued,
         messages'[id].to \in DOMAIN agents',
         agents'[messages'[id].to].status = "active"
  PROVE  FALSE
<1> DEFINE m == messages[id]
<1>1. /\ now \in Nat /\ m \in Message
      /\ messages'[id] = SweptMessage(m)
  BY SweepKeeps
<1>2. agents' = [a \in KeptAgents |-> SweptAgents[a]]
      /\ KeptAgents \subseteq DOMAIN agents
  BY DEF Sweep, KeptAgents
<1> HIDE DEF m
<1>3. /\ m.queued /\ ~Released(m)
      /\ SweptMessage(m).to = m.to
      /\ SweptMessage(m) = m
  <2>1. SweptMessage(m).state # "error"
    BY <1>1 DEF Pending, isTerminal, TerminalStates
  <2> QED
    BY <1>1, <2>1, SweptKeeps
<1>4. Pending(m)
  BY <1>1, <1>3
<1>5. ~TimedOut(m)
  <2>1. Pending(m) /\ TimedOut(m) =>
          SweptMessage(m) = [m EXCEPT !.state = "error", !.terminalAt = now]
    BY DEF SweptMessage, Released
  <2>2. [m EXCEPT !.state = "error", !.terminalAt = now].state = "error"
    BY <1>1 DEF Message
  <2> QED
    BY <1>3, <1>4, <2>1, <2>2 DEF Pending, isTerminal, TerminalStates
<1>6. m.to \in DOMAIN agents /\ SweptAgents[m.to].status = "active"
  BY <1>1, <1>2, <1>3
<1> QED
  BY <1>3, <1>4, <1>5, <1>6 DEF Released

(* The sweep leaves no request waiting for an agent that is back.  Every   *)
(* request that sweepLocked keeps queued and pending has a target that is  *)
(* expired or pruned when the sweep is over, whatever was accepted for it  *)
(* before and whenever it came back.                                       *)
THEOREM SweepReleasesHolds == Spec => SweepReleases
<1> DEFINE P == lastSweepAt' # lastSweepAt =>
                  \A id \in DOMAIN messages' :
                    Pending(messages'[id]) /\ messages'[id].queued =>
                      ~(/\ messages'[id].to \in DOMAIN agents'
                        /\ agents'[messages'[id].to].status = "active")
<1>1. TypeOK /\ [Next]_vars => [P]_vars
  <2> SUFFICES ASSUME TypeOK, [Next]_vars
               PROVE  P
    OBVIOUS
  <2>1. CASE Sweep
    BY <2>1, SweepLeaves
  <2>2. CASE lastSweepAt' = lastSweepAt
    BY <2>2
  <2>3. Sweep \/ lastSweepAt' = lastSweepAt
    BY StepKinds
    DEF Idles, Registers, RegisterAgent, Creates, CreateConversation, Accepts,
        Accept, Changes, SetMessage, Polls, PollInbox
  <2> QED
    BY <2>1, <2>2, <2>3
<1>2. Spec => [][P]_vars
  BY <1>1, TypeCorrect, PTL DEF Spec
<1> QED
  BY <1>2 DEF SweepReleases

(***************************************************************************)
(* The lifecycle                                                           *)
(***************************************************************************)

(* What is queued was never offered to its target.  The refinement needs   *)
(* it: the sweep's release makes a request waiting_ack, and only one that  *)
(* is still pending may become that.                                       *)
QueuedPending ==
  \A id \in DOMAIN messages :
    messages[id].queued => messages[id].state \in {"pending"} \cup TerminalStates

\* Every step leaves what is queued pending or ended.
LEMMA NextQueued ==
  ASSUME TypeOK, QueuedPending, [Next]_vars
  PROVE  QueuedPending'
<1>1. CASE Idles \/ Registers \/ Polls \/ Creates
  <2>1. messages' = messages
    BY <1>1
    DEF Idles, Registers, RegisterAgent, Polls, PollInbox, Creates,
        CreateConversation
  <2> QED
    BY <2>1 DEF QueuedPending
<1>2. CASE Accepts
  <2>1. PICK m \in Message, choice \in ConversationChoices,
             names \in SUBSET Agents :
          /\ m.state \in {"pending", "waiting_ack", "completed"}
          /\ m.queued => m.state # "waiting_ack"
          /\ Accept(nextMessageID + 1, m, choice, names)
    BY <1>2 DEF Accepts
  <2>2. /\ DOMAIN messages' = DOMAIN messages \cup {nextMessageID + 1}
        /\ messages'[nextMessageID + 1] = m
        /\ \A id \in DOMAIN messages : messages'[id] = messages[id]
    BY <2>1, AcceptKeeps
  <2> QED
    BY <2>1, <2>2 DEF QueuedPending, TerminalStates
<1>3. CASE Changes
  <2>1. PICK id \in DOMAIN messages, n \in Message :
          Moves(messages[id], n) /\ SetMessage(id, n)
    BY <1>3 DEF Changes
  <2>2. /\ DOMAIN messages' = DOMAIN messages
        /\ messages'[id] = n
        /\ \A other \in DOMAIN messages :
             other # id => messages'[other] = messages[other]
    BY <2>1, SetKeeps
  <2>3. n.queued => n.state \in {"pending"} \cup TerminalStates
    BY <2>1 DEF Moves, QueuedPending, Pending, isTerminal, TerminalStates
  <2> QED
    BY <2>2, <2>3 DEF QueuedPending
<1>4. CASE Sweep
  <2>1. ASSUME NEW id \in DOMAIN messages', messages'[id].queued
        PROVE  messages'[id].state \in {"pending"} \cup TerminalStates
    <3>1. /\ id \in DOMAIN messages /\ now \in Nat /\ messages[id] \in Message
          /\ messages'[id] = SweptMessage(messages[id])
      BY <1>4, <2>1, SweepKeeps
    <3>2. /\ messages[id].queued
          /\ SweptMessage(messages[id]) = messages[id]
             \/ SweptMessage(messages[id]).state = "error"
      BY <2>1, <3>1, SweptKeeps
    <3> QED
      BY <3>1, <3>2 DEF QueuedPending, TerminalStates
  <2> QED
    BY <2>1 DEF QueuedPending
<1> QED
  BY <1>1, <1>2, <1>3, <1>4, StepKinds

\* The status of an id that was handed out, and of one that was not.
LEMMA StatusOf ==
  ASSUME TypeOK, NEW id \in MessageIDs
  PROVE  /\ id > nextMessageID => Status(id) = "none"
         /\ id \in DOMAIN messages => /\ Status(id) = messages[id].state
                                      /\ messages[id].state \in States
         /\ id <= nextMessageID /\ id \notin DOMAIN messages => Status(id) = "gone"
         /\ Status(id) \in Lifecycle!Statuses
<1>1. /\ id \in Nat /\ nextMessageID \in Nat
      /\ DOMAIN messages \subseteq 1..nextMessageID
  BY Bounds DEF TypeOK, MessageIDs
<1>2. id \in DOMAIN messages => ~(id > nextMessageID) /\ messages[id].state \in States
  BY <1>1 DEF TypeOK, Message
<1> QED
  BY <1>1, <1>2 DEF Status, Lifecycle!Statuses, States, TerminalStates

\* The status of every message, as the lifecycle sees it.
StatusMap == [id \in MessageIDs |-> Status(id)]

(* One message's part of a lifecycle step, with the status before and      *)
(* after: what Accepted, Advanced and Forgotten allow.                     *)
Allowed(id, old, new) ==
  \/ new = old
  \/ /\ old = "none" /\ new \in {"pending", "waiting_ack", "completed"}
     /\ \A other \in MessageIDs : other < id => Status(other) # "none"
  \/ old = "pending" /\ new \in {"waiting_ack", "executing"} \cup Lifecycle!Ended
  \/ old = "waiting_ack" /\ new \in {"executing"} \cup Lifecycle!Ended
  \/ old = "executing" /\ new \in Lifecycle!Ended
  \/ old \in Lifecycle!Ended \ {"gone"} /\ new = "gone"

\* A step that moves every message as allowed is a step of the lifecycle.
LEMMA AllowedStep ==
  ASSUME TypeOK,
         \A id \in MessageIDs : Allowed(id, Status(id), Status(id)')
  PROVE  Lifecycle!Next
<1>1. /\ StatusMap = [id \in MessageIDs |-> Status(id)]
      /\ StatusMap' = [id \in MessageIDs |-> Status(id)']
  BY DEF StatusMap, MessageIDs
<1>2. \A id \in MessageIDs : Status(id)' \in Lifecycle!Statuses
  BY StatusOf DEF Allowed, Lifecycle!Statuses, Lifecycle!Ended
<1> QED
  BY <1>1, <1>2
  DEF Lifecycle!Next, Lifecycle!Accepted, Lifecycle!Advanced,
      Lifecycle!Forgotten, Allowed

(* The status of every id after a step, from what the step does to the     *)
(* counter and to the messages.                                            *)
LEMMA StatusAfter ==
  ASSUME TypeOK, NEW id \in MessageIDs
  PROVE  Status(id)' = CASE id > nextMessageID' -> "none"
                         [] id \in DOMAIN messages' -> messages'[id].state
                         [] OTHER -> "gone"
BY DEF Status, MessageIDs

\* Steps that keep counter and messages keep every status.
LEMMA QuietLifecycle ==
  ASSUME TypeOK, messages' = messages, nextMessageID' = nextMessageID
  PROVE  Lifecycle!Next
<1>1. \A id \in MessageIDs : Status(id)' = Status(id)
  BY StatusAfter DEF Status
<1> QED
  BY <1>1, AllowedStep DEF Allowed

\* sendMessage and inject hand out the next id.
LEMMA AcceptLifecycle ==
  ASSUME TypeOK, Accepts
  PROVE  Lifecycle!Next
<1>1. PICK m \in Message, choice \in ConversationChoices, names \in SUBSET Agents :
        /\ m.state \in {"pending", "waiting_ack", "completed"}
        /\ Accept(nextMessageID + 1, m, choice, names)
  BY DEF Accepts
<1>2. /\ nextMessageID \in Nat /\ nextMessageID' = nextMessageID + 1
      /\ nextMessageID + 1 \notin DOMAIN messages
      /\ DOMAIN messages' = DOMAIN messages \cup {nextMessageID + 1}
      /\ messages'[nextMessageID + 1] = m
      /\ \A id \in DOMAIN messages : messages'[id] = messages[id]
  BY <1>1, AcceptKeeps
<1>3. ASSUME NEW id \in MessageIDs
      PROVE  Allowed(id, Status(id), Status(id)')
  <2>1. id \in Nat
    BY Bounds DEF MessageIDs
  <2>2. CASE id = nextMessageID + 1
    <3>1. Status(id) = "none" /\ Status(id)' = m.state
      BY <1>2, <2>1, <2>2, StatusOf, StatusAfter
    <3>2. \A other \in MessageIDs : other < id => Status(other) # "none"
      <4> SUFFICES ASSUME NEW other \in MessageIDs, other < id
                   PROVE  Status(other) # "none"
        OBVIOUS
      <4>1. other \in Nat /\ other <= nextMessageID
        BY <1>2, <2>1, <2>2, Bounds DEF MessageIDs
      <4> QED
        BY <4>1, StatusOf DEF States, TerminalStates
    <3> QED
      BY <1>1, <3>1, <3>2 DEF Allowed
  <2>3. CASE id > nextMessageID + 1
    <3>1. Status(id) = "none" /\ Status(id)' = "none"
      BY <1>2, <2>1, <2>3, StatusOf, StatusAfter
    <3> QED
      BY <3>1 DEF Allowed
  <2>4. CASE id <= nextMessageID
    <3>1. Status(id)' = Status(id)
      BY <1>2, <2>1, <2>4, StatusOf, StatusAfter
    <3> QED
      BY <3>1 DEF Allowed
  <2> QED
    BY <1>2, <2>1, <2>2, <2>3, <2>4
<1> QED
  BY <1>3, AllowedStep

\* ack and postEvent move one pending request towards its end.
LEMMA ChangeLifecycle ==
  ASSUME TypeOK, Changes
  PROVE  Lifecycle!Next
<1>1. PICK id \in DOMAIN messages, n \in Message :
        Moves(messages[id], n) /\ SetMessage(id, n)
  BY DEF Changes
<1>2. /\ DOMAIN messages' = DOMAIN messages
      /\ messages'[id] = n
      /\ \A other \in DOMAIN messages :
           other # id => messages'[other] = messages[other]
      /\ nextMessageID' = nextMessageID
  BY <1>1, SetKeeps
<1>3. \A other \in MessageIDs : other # id => Status(other)' = Status(other)
  BY <1>2, StatusAfter DEF Status
<1>4. id \in MessageIDs
  BY <1>1, Bounds DEF TypeOK, MessageIDs
<1>5. Status(id) = messages[id].state /\ messages[id].state \in States
  BY <1>1, <1>4, StatusOf
<1>6. Status(id)' = n.state
  <2>1. ~(id > nextMessageID)
    BY <1>1, Bounds DEF TypeOK
  <2> QED
    BY <1>2, <1>4, <2>1, StatusAfter
<1>7. Allowed(id, Status(id), Status(id)')
  BY <1>1, <1>5, <1>6
  DEF Allowed, Moves, Pending, isTerminal, States, TerminalStates, Lifecycle!Ended
<1> QED
  BY <1>3, <1>7, AllowedStep DEF Allowed

(* The sweep ends overdue requests, releases queued ones and forgets what  *)
(* is pruned: many messages at once, each as allowed.                      *)
LEMMA SweepLifecycle ==
  ASSUME TypeOK, QueuedPending, Sweep
  PROVE  Lifecycle!Next
<1>1. /\ now \in Nat /\ nextMessageID' = nextMessageID
      /\ DOMAIN messages' = KeptMessages /\ KeptMessages \subseteq DOMAIN messages
      /\ \A id \in DOMAIN messages : messages[id] \in Message
      /\ \A id \in KeptMessages : messages'[id] = SweptMessage(messages[id])
  BY SweepKeeps
<1>2. ASSUME NEW id \in MessageIDs
      PROVE  Allowed(id, Status(id), Status(id)')
  <2>1. CASE id \notin DOMAIN messages
    <3>1. Status(id)' = Status(id)
      BY <1>1, <2>1, StatusAfter DEF Status
    <3> QED
      BY <3>1 DEF Allowed
  <2>2. CASE id \in DOMAIN messages
    <3> DEFINE m == messages[id]
    <3>1. /\ m \in Message /\ Status(id) = m.state /\ m.state \in States
          /\ ~(id > nextMessageID)
      BY <1>1, <2>2, StatusOf, Bounds DEF TypeOK
    <3>2. CASE id \notin KeptMessages
      <4>1. Status(id)' = "gone"
        BY <1>1, <3>1, <3>2, StatusAfter
      <4> QED
        BY <3>1, <4>1 DEF Allowed, States, TerminalStates, Lifecycle!Ended
    <3>3. CASE id \in KeptMessages
      <4>1. Status(id)' = SweptMessage(m).state
        BY <1>1, <3>1, <3>3, StatusAfter
      <4>2. \/ SweptMessage(m) = m
            \/ Pending(m) /\ SweptMessage(m).state = "error"
            \/ Released(m) /\ SweptMessage(m).state = "waiting_ack"
        BY <1>1, <3>1, SweptKeeps
      <4>3. Released(m) => m.state = "pending"
        BY <2>2 DEF Released, QueuedPending, Pending, isTerminal
      <4> HIDE DEF m
      <4> QED
        BY <3>1, <4>1, <4>2, <4>3
        DEF Allowed, Pending, isTerminal, States, TerminalStates, Lifecycle!Ended
    <3> QED
      BY <3>2, <3>3
  <2> QED
    BY <2>1, <2>2
<1> QED
  BY <1>2, AllowedStep

\* Every step of the store is a step of the lifecycle.
LEMMA NextLifecycle ==
  ASSUME TypeOK, QueuedPending, [Next]_vars
  PROVE  Lifecycle!Next
<1>1. CASE Idles \/ Registers \/ Polls \/ Creates
  <2>1. messages' = messages /\ nextMessageID' = nextMessageID
    BY <1>1
    DEF Idles, Registers, RegisterAgent, Polls, PollInbox, Creates,
        CreateConversation
  <2> QED
    BY <2>1, QuietLifecycle
<1> QED
  BY <1>1, StepKinds, AcceptLifecycle, ChangeLifecycle, SweepLifecycle

(* The store implements the lifecycle a sender sees: no interleaving of    *)
(* sends, sweeps, acks, events and pruning moves a message backwards,      *)
(* resurrects a terminal one or reuses the id of a forgotten one.          *)
THEOREM ImplementsLifecycleHolds == Spec => ImplementsLifecycle
<1>1. Init => Lifecycle!Init /\ QueuedPending
  BY Bounds DEF Init, QueuedPending, Lifecycle!Init, Status, MessageIDs
<1>2. TypeOK /\ QueuedPending /\ [Next]_vars => QueuedPending'
  BY NextQueued
<1>3. TypeOK /\ QueuedPending /\ [Next]_vars => Lifecycle!Next
  BY NextLifecycle
<1>4. Spec => Lifecycle!Spec
  BY <1>1, <1>2, <1>3, TypeCorrect, PTL DEF Spec, Lifecycle!Spec
<1> QED
  BY <1>4 DEF ImplementsLifecycle


(***************************************************************************)
(* How far an inbox can have come                                          *)
(***************************************************************************)

\* The messages that a sweep may still put into the inbox of an agent.
QueuedFor(a) ==
  {id \in DOMAIN messages : messages[id].queued /\ messages[id].to = a}

(* The cursors of an agent end where its inbox ends, and every number is   *)
(* that of a message of its own: numbers used and messages still queued    *)
(* are together no more than the ids handed out.                           *)
EndsCounted ==
  \A a \in DOMAIN inboxes :
    InboxEnd(inboxes[a]) + Cardinality(QueuedFor(a)) <= nextMessageID

\* The messages queued for an agent are finitely many.
LEMMA QueuedForType ==
  ASSUME TypeOK, NEW a
  PROVE  /\ nextMessageID \in Nat
         /\ IsFiniteSet(QueuedFor(a)) /\ Cardinality(QueuedFor(a)) \in Nat
         /\ Cardinality(QueuedFor(a)) <= nextMessageID
         /\ \A S \in SUBSET QueuedFor(a) :
              IsFiniteSet(S) /\ Cardinality(S) \in Nat
              /\ Cardinality(S) <= Cardinality(QueuedFor(a))
<1>1. nextMessageID \in Nat /\ 1 \in Int /\ nextMessageID \in Int
  BY Bounds DEF TypeOK
<1>2. /\ IsFiniteSet(1..nextMessageID)
      /\ Cardinality(1..nextMessageID) =
           IF 1 > nextMessageID THEN 0 ELSE nextMessageID - 1 + 1
  BY <1>1, FS_Interval
<1>3. Cardinality(1..nextMessageID) = nextMessageID
  BY <1>1, <1>2
<1>4. QueuedFor(a) \in SUBSET (1..nextMessageID)
  BY DEF QueuedFor, TypeOK
<1>5. IsFiniteSet(QueuedFor(a)) /\ Cardinality(QueuedFor(a)) <= nextMessageID
  BY <1>2, <1>3, <1>4, FS_Subset
<1>6. \A S \in SUBSET QueuedFor(a) :
        IsFiniteSet(S) /\ Cardinality(S) <= Cardinality(QueuedFor(a))
  BY <1>5, FS_Subset
<1> QED
  BY <1>1, <1>5, <1>6, FS_CardinalityType

\* Dropping events from the front leaves the end of an inbox where it is.
LEMMA DropPrefixEnd ==
  ASSUME NEW box \in Inbox, NEW n \in Nat, n <= Len(box.events)
  PROVE  InboxEnd(dropInboxPrefix(box, n)) = InboxEnd(box)
<1> DEFINE new == SubSeq(box.events, n + 1, Len(box.events))
<1>1. /\ box.base \in Nat /\ box.events \in Seq(Event)
      /\ Len(box.events) \in Nat
  BY LenProperties DEF Inbox
<1>2. \A i \in n + 1..Len(box.events) : box.events[i] \in Event
  BY <1>1, ElementOfSeq
<1>3. Len(new) = IF n + 1 <= Len(box.events)
                 THEN Len(box.events) - (n + 1) + 1 ELSE 0
  BY <1>1, <1>2, SubSeqProperties
<1>4. Len(new) = Len(box.events) - n
  BY <1>1, <1>3
<1> HIDE DEF new
<1>5. dropInboxPrefix(box, n) = [base |-> box.base + n, events |-> new]
  BY DEF dropInboxPrefix, new
<1> QED
  BY <1>1, <1>4, <1>5 DEF InboxEnd

\* Appending moves the end of an inbox by the number of events.
LEMMA AppendInboxEnd ==
  ASSUME NEW box \in Inbox, NEW events \in Seq(Event)
  PROVE  InboxEnd(appendInbox(box, events)) = InboxEnd(box) + Len(events)
<1> DEFINE full == [base |-> box.base, events |-> box.events \o events]
<1>1. /\ box.base \in Nat /\ box.events \in Seq(Event)
      /\ Len(box.events) \in Nat /\ Len(events) \in Nat
  BY LenProperties DEF Inbox
<1>2. /\ box.events \o events \in Seq(Event)
      /\ Len(box.events \o events) = Len(box.events) + Len(events)
  BY <1>1, ConcatProperties
<1>3. full \in Inbox /\ full.events \in Seq(Event)
  BY <1>1, <1>2 DEF Inbox
<1>4. DropCount(full.events) \in Nat /\ DropCount(full.events) <= Len(full.events)
  BY <1>3, DropCountType
<1>5. appendInbox(box, events) = dropInboxPrefix(full, DropCount(full.events))
  BY DEF appendInbox
<1>6. InboxEnd(full) = InboxEnd(box) + Len(events)
  BY <1>1, <1>2 DEF InboxEnd
<1> HIDE DEF full
<1> QED
  BY <1>3, <1>4, <1>5, <1>6, DropPrefixEnd

\* The end of an inbox is a number.
LEMMA InboxEndType ==
  ASSUME NEW box \in Inbox
  PROVE  InboxEnd(box) \in Nat
BY LenProperties DEF Inbox, InboxEnd

\* Fewer queued messages and the same ends are counted all the same.
LEMMA CountedWithFewer ==
  ASSUME TypeOK, EndsCounted, nextMessageID' = nextMessageID,
         \A a \in DOMAIN inboxes' : QueuedFor(a)' \subseteq QueuedFor(a),
         \A a \in DOMAIN inboxes' :
           a \in DOMAIN inboxes /\ InboxEnd(inboxes'[a]) = InboxEnd(inboxes[a])
  PROVE  EndsCounted'
<1>1. ASSUME NEW a \in DOMAIN inboxes'
      PROVE  InboxEnd(inboxes'[a]) + Cardinality(QueuedFor(a)') <= nextMessageID
  <2>1. a \in DOMAIN inboxes /\ InboxEnd(inboxes'[a]) = InboxEnd(inboxes[a])
    BY <1>1
  <2>2. inboxes[a] \in Inbox
    BY <2>1, BoxTypes
  <2>3. InboxEnd(inboxes[a]) \in Nat
    BY <2>2, InboxEndType
  <2>4. InboxEnd(inboxes[a]) + Cardinality(QueuedFor(a)) <= nextMessageID
    BY <2>1 DEF EndsCounted
  <2>5. QueuedFor(a)' \in SUBSET QueuedFor(a)
    BY <1>1
  <2>6. /\ nextMessageID \in Nat /\ Cardinality(QueuedFor(a)) \in Nat
        /\ Cardinality(QueuedFor(a)') \in Nat
        /\ Cardinality(QueuedFor(a)') <= Cardinality(QueuedFor(a))
    BY <2>5, QueuedForType
  <2> QED
    BY <2>1, <2>3, <2>4, <2>6
<1> QED
  BY <1>1 DEF EndsCounted, QueuedFor

\* Registration starts an inbox at 0.
LEMMA RegistersCounted ==
  ASSUME TypeOK, EndsCounted, Registers
  PROVE  EndsCounted'
<1>1. PICK a \in Agents : /\ inboxes' = IF a \in DOMAIN inboxes THEN inboxes
                                ELSE Put(inboxes, a, [base |-> 0, events |-> << >>])
                          /\ messages' = messages /\ nextMessageID' = nextMessageID
  BY DEF Registers, RegisterAgent
<1>2. ASSUME NEW b \in DOMAIN inboxes'
      PROVE  InboxEnd(inboxes'[b]) + Cardinality(QueuedFor(b)) <= nextMessageID
  <2>1. CASE b \in DOMAIN inboxes /\ inboxes'[b] = inboxes[b]
    BY <2>1 DEF EndsCounted
  <2>2. CASE inboxes'[b] = [base |-> 0, events |-> << >>]
    <3>1. InboxEnd(inboxes'[b]) = 0
      BY <2>2 DEF InboxEnd
    <3>2. /\ Cardinality(QueuedFor(b)) \in Nat
          /\ Cardinality(QueuedFor(b)) <= nextMessageID
      BY QueuedForType
    <3> QED
      BY <3>1, <3>2
  <2> QED
    BY <1>1, <1>2, <2>1, <2>2 DEF Put
<1> QED
  BY <1>1, <1>2 DEF EndsCounted, QueuedFor

\* A poll only moves the base.
LEMMA PollsCounted ==
  ASSUME TypeOK, EndsCounted, Polls
  PROVE  EndsCounted'
<1>1. PICK a \in Agents, cursor \in Nat : PollInbox(a, cursor)
  BY DEF Polls
<1> DEFINE n == Clamp(inboxes[a], cursor) - inboxes[a].base
           box == dropInboxPrefix(inboxes[a], n)
<1>2. /\ a \in DOMAIN inboxes
      /\ inboxes' = [inboxes EXCEPT ![a] = box]
      /\ messages' = messages /\ nextMessageID' = nextMessageID
  BY <1>1 DEF PollInbox, Active, TypeOK
<1>3. inboxes[a] \in Inbox
  BY <1>2, BoxTypes
<1>4. n \in Nat /\ n <= Len(inboxes[a].events)
  BY <1>3, ClampRange
<1> HIDE DEF n
<1>5. InboxEnd(box) = InboxEnd(inboxes[a])
  BY <1>3, <1>4, DropPrefixEnd
<1> HIDE DEF box
<1>6. \A b \in DOMAIN inboxes' :
        b \in DOMAIN inboxes /\ InboxEnd(inboxes'[b]) = InboxEnd(inboxes[b])
  BY <1>2, <1>5
<1>7. \A b \in DOMAIN inboxes' : QueuedFor(b)' \subseteq QueuedFor(b)
  BY <1>2 DEF QueuedFor
<1> QED
  BY <1>2, <1>6, <1>7, CountedWithFewer

\* ack and postEvent queue nothing.
LEMMA ChangesCounted ==
  ASSUME TypeOK, EndsCounted, Changes
  PROVE  EndsCounted'
<1>1. PICK id \in DOMAIN messages, n \in Message :
        Moves(messages[id], n) /\ SetMessage(id, n)
  BY DEF Changes
<1>2. /\ DOMAIN messages' = DOMAIN messages
      /\ messages'[id] = n
      /\ \A other \in DOMAIN messages :
           other # id => messages'[other] = messages[other]
      /\ inboxes' = inboxes /\ nextMessageID' = nextMessageID
  BY <1>1, SetKeeps
<1>3. \A other \in DOMAIN messages' :
        /\ other \in DOMAIN messages
        /\ messages'[other].to = messages[other].to
        /\ messages'[other].queued => messages[other].queued
  BY <1>1, <1>2 DEF Moves
<1>4. \A b \in DOMAIN inboxes' : QueuedFor(b)' \subseteq QueuedFor(b)
  BY <1>3 DEF QueuedFor
<1> QED
  BY <1>2, <1>4, CountedWithFewer

\* An accepted message is queued, put into one inbox, or for nobody.
LEMMA AcceptsCounted ==
  ASSUME TypeOK, EndsCounted, Accepts
  PROVE  EndsCounted'
<1> DEFINE id == nextMessageID + 1
<1>1. PICK m \in Message, choice \in ConversationChoices, names \in SUBSET Agents :
        /\ id <= MaxMessages
        /\ m.to # Nobody => m.to \in DOMAIN agents
        /\ Accept(id, m, choice, names)
  BY DEF Accepts
<1>2. /\ nextMessageID \in Nat /\ nextMessageID' = id
      /\ id \notin DOMAIN messages
      /\ DOMAIN messages' = DOMAIN messages \cup {id}
      /\ messages'[id] = m
      /\ \A other \in DOMAIN messages : messages'[other] = messages[other]
  BY <1>1, AcceptKeeps
<1>3. id \in MessageIDs /\ id \in Nat
  BY <1>1, <1>2, Bounds DEF MessageIDs
<1>4. inboxes' = IF m.to = Nobody \/ m.queued THEN inboxes
                 ELSE [inboxes EXCEPT ![m.to] = appendInbox(@, <<EventOf(id, m)>>)]
  BY <1>1 DEF Accept
<1>5. \A b : QueuedFor(b)' = IF m.queued /\ m.to = b
                             THEN QueuedFor(b) \cup {id} ELSE QueuedFor(b)
  BY <1>2 DEF QueuedFor
<1>6. ASSUME NEW b \in DOMAIN inboxes'
      PROVE  InboxEnd(inboxes'[b]) + Cardinality(QueuedFor(b)') <= id
  <2> DEFINE old == QueuedFor(b)
  <2>1. b \in DOMAIN inboxes
    BY <1>4, <1>6
  <2>2. inboxes[b] \in Inbox
    BY <2>1, BoxTypes
  <2>3. InboxEnd(inboxes[b]) \in Nat
    BY <2>2, InboxEndType
  <2>4. /\ IsFiniteSet(old) /\ Cardinality(old) \in Nat
        /\ InboxEnd(inboxes[b]) + Cardinality(old) <= nextMessageID
    BY <2>1, QueuedForType DEF EndsCounted
  <2>5. Cardinality(old \cup {id}) <= Cardinality(old) + 1
        /\ Cardinality(old \cup {id}) \in Nat
    <3> HIDE DEF old, id
    <3>1. Cardinality(old \cup {id}) =
            IF id \in old THEN Cardinality(old) ELSE Cardinality(old) + 1
      BY <2>4, FS_AddElement
    <3> QED
      BY <2>4, <3>1
  <2>6. CASE m.queued \/ m.to # b
    <3>1. inboxes'[b] = inboxes[b]
      BY <1>4, <2>1, <2>6
    <3>2. QueuedFor(b)' = old \/ QueuedFor(b)' = old \cup {id}
      BY <1>5
    <3> HIDE DEF old
    <3> QED
      BY <1>2, <2>3, <2>4, <2>5, <3>1, <3>2
  <2>7. CASE ~m.queued /\ m.to = b
    <3>1. inboxes'[b] = IF b = Nobody THEN inboxes[b]
                        ELSE appendInbox(inboxes[b], <<EventOf(id, m)>>)
      BY <1>4, <2>1, <2>7
    <3>2. <<EventOf(id, m)>> \in Seq(Event) /\ Len(<<EventOf(id, m)>>) = 1
      BY <1>3, EventOfType
    <3>3. InboxEnd(appendInbox(inboxes[b], <<EventOf(id, m)>>)) =
            InboxEnd(inboxes[b]) + 1
      BY <2>2, <3>2, AppendInboxEnd
    <3>4. QueuedFor(b)' = old
      BY <1>5, <2>7
    <3> HIDE DEF old
    <3> QED
      BY <1>2, <2>3, <2>4, <3>1, <3>3, <3>4
  <2> QED
    BY <2>6, <2>7
<1> QED
  BY <1>2, <1>6 DEF EndsCounted, QueuedFor

\* A release moves messages from the queue into the inbox, each once.
LEMMA SweepCounted ==
  ASSUME TypeOK, EndsCounted, Sweep
  PROVE  EndsCounted'
<1>1. /\ now \in Nat /\ nextMessageID' = nextMessageID
      /\ DOMAIN messages' = KeptMessages /\ KeptMessages \subseteq DOMAIN messages
      /\ \A id \in DOMAIN messages : messages[id] \in Message
      /\ \A id \in KeptMessages : messages'[id] = SweptMessage(messages[id])
  BY SweepKeeps
<1>2. \A id \in DOMAIN messages' :
        /\ id \in DOMAIN messages
        /\ messages'[id].to = messages[id].to
        /\ messages'[id].queued => messages[id].queued
        /\ Released(messages[id]) => ~messages'[id].queued
  BY <1>1, SweptKeeps
<1>3. PICK order \in ReleaseOrders :
        inboxes' = [a \in KeptAgents |-> SweptInbox(a, order[a])]
  BY DEF Sweep
<1>4. ASSUME NEW a \in DOMAIN inboxes'
      PROVE  InboxEnd(inboxes'[a]) + Cardinality(QueuedFor(a)') <= nextMessageID
  <2> DEFINE ids == order[a]
             new == [k \in DOMAIN ids |-> EventOf(ids[k], messages[ids[k]])]
             out == ReleasedTo(a)
             left == QueuedFor(a)'
  <2>1. a \in DOMAIN agents /\ a \in DOMAIN inboxes /\ a \in KeptAgents
    BY <1>3, <1>4 DEF KeptAgents, TypeOK
  <2>2. inboxes[a] \in Inbox
    BY <2>1, BoxTypes
  <2>3. InboxEnd(inboxes[a]) \in Nat
    BY <2>2, InboxEndType
  <2>4. /\ left \subseteq QueuedFor(a) /\ out \subseteq QueuedFor(a)
        /\ left \cap out = {}
    BY <1>2 DEF QueuedFor, ReleasedTo, Released
  <2>5. /\ nextMessageID \in Nat /\ Cardinality(QueuedFor(a)) \in Nat
        /\ InboxEnd(inboxes[a]) + Cardinality(QueuedFor(a)) <= nextMessageID
        /\ IsFiniteSet(left) /\ Cardinality(left) \in Nat
        /\ IsFiniteSet(out) /\ Cardinality(out) \in Nat
        /\ Cardinality(left \cup out) \in Nat
        /\ Cardinality(left \cup out) <= Cardinality(QueuedFor(a))
    <3>1. /\ left \in SUBSET QueuedFor(a) /\ out \in SUBSET QueuedFor(a)
          /\ left \cup out \in SUBSET QueuedFor(a)
      BY <2>4
    <3> HIDE DEF left, out
    <3> QED
      BY <2>1, <3>1, QueuedForType DEF EndsCounted
  <2>6. Cardinality(left \cup out) = Cardinality(left) + Cardinality(out)
    <3> HIDE DEF left, out
    <3>1. Cardinality(left \cup out) =
            Cardinality(left) + Cardinality(out) - Cardinality(left \cap out)
      BY <2>5, FS_Union
    <3>2. Cardinality(left \cap out) = 0
      BY <2>4, FS_EmptySet
    <3> QED
      BY <2>5, <3>1, <3>2
  <2>7. ids \in Seq(DOMAIN messages) /\ Len(ids) = Cardinality(out)
    <3>1. ids \in [1..Cardinality(out) -> out]
      BY <2>1 DEF ReleaseOrders, SetToSeqs
    <3>2. ids \in Seq(DOMAIN messages)
      BY <2>1, ReleaseOrderType
    <3>3. Len(ids) \in Nat /\ DOMAIN ids = 1..Len(ids)
      BY <3>2, LenProperties
    <3> HIDE DEF ids, out
    <3>4. 1..Len(ids) = 1..Cardinality(out)
      BY <3>1, <3>3
    <3> QED
      BY <2>5, <3>2, <3>3, <3>4
  <2>8. new \in Seq(Event) /\ Len(new) = Len(ids)
    <3>1. \A k \in DOMAIN ids : new[k] \in Event
      <4> TAKE k \in DOMAIN ids
      <4>1. ids[k] \in DOMAIN messages
        BY <2>7, LenProperties, ElementOfSeq
      <4>2. ids[k] \in MessageIDs /\ messages[ids[k]] \in Message
        BY <4>1, Bounds DEF MessageIDs, TypeOK
      <4> QED
        BY <4>2, EventOfType
    <3>2. Len(ids) \in Nat /\ DOMAIN ids = 1..Len(ids)
      BY <2>7, LenProperties
    <3>3. new \in [1..Len(ids) -> Event]
      BY <3>1, <3>2
    <3>4. new \in Seq(Event)
      BY <3>2, <3>3, SeqDef
    <3>5. Len(new) \in Nat /\ DOMAIN new = 1..Len(new)
      BY <3>4, LenProperties
    <3> HIDE DEF new, ids
    <3> QED
      BY <3>2, <3>3, <3>4, <3>5
  <2>9. inboxes'[a] = appendInbox(inboxes[a], new)
    BY <1>3, <2>1 DEF SweptInbox
  <2> HIDE DEF new, ids, out, left
  <2>10. InboxEnd(inboxes'[a]) = InboxEnd(inboxes[a]) + Cardinality(out)
    BY <2>2, <2>7, <2>8, <2>9, AppendInboxEnd
  <2>11. InboxEnd(inboxes'[a]) + Cardinality(left) <= nextMessageID
    BY <2>3, <2>5, <2>6, <2>10
  <2> QED
    BY <2>11 DEF left
<1> QED
  BY <1>1, <1>4 DEF EndsCounted, QueuedFor

\* Every step keeps the ends of the inboxes counted.
LEMMA NextCounted ==
  ASSUME TypeOK, EndsCounted, [Next]_vars
  PROVE  EndsCounted'
<1>1. CASE Idles \/ Creates
  <2>1. UNCHANGED <<inboxes, messages, nextMessageID>>
    BY <1>1 DEF Idles, Creates, CreateConversation
  <2> QED
    BY <2>1 DEF EndsCounted, QueuedFor
<1> QED
  BY <1>1, StepKinds, SweepCounted, RegistersCounted, AcceptsCounted,
     ChangesCounted, PollsCounted

\* What a poll returns, and the cursor that comes with it.
LEMMA PollResultType ==
  ASSUME NEW box \in Inbox, NEW cursor \in Nat, NEW limit \in Nat
  PROVE  /\ PollResult(box, cursor, limit) \in Seq(Event)
         /\ {PollResult(box, cursor, limit)[k].msg :
               k \in DOMAIN PollResult(box, cursor, limit)} \subseteq MessageIDs
         /\ NextCursor(box, cursor, limit) \in Nat
         /\ NextCursor(box, cursor, limit) <= InboxEnd(box)
<1> DEFINE n == Clamp(box, cursor) - box.base
           out == SubSeq(box.events, n + 1, Len(box.events))
           some == SubSeq(out, 1, limit)
           result == PollResult(box, cursor, limit)
<1>1. /\ box.base \in Nat /\ box.events \in Seq(Event)
      /\ Len(box.events) \in Nat
  BY LenProperties DEF Inbox
<1>2. n \in Nat /\ n <= Len(box.events) /\ Clamp(box, cursor) = box.base + n
      /\ Clamp(box, cursor) \in Nat
  <2>1. n \in Nat /\ n <= Len(box.events)
    BY ClampRange
  <2>2. Clamp(box, cursor) \in Int
    BY <1>1 DEF Clamp, InboxEnd
  <2> QED
    BY <1>1, <2>1, <2>2
<1>3. result = IF limit > 0 /\ Len(out) > limit THEN some ELSE out
  BY DEF PollResult
<1>4. NextCursor(box, cursor, limit) = Clamp(box, cursor) + Len(result)
  BY DEF NextCursor
<1> HIDE DEF n, result
<1>5. out \in Seq(Event) /\ Len(out) = Len(box.events) - n
  <2>1. \A i \in n + 1..Len(box.events) : box.events[i] \in Event
    BY <1>1, <1>2, ElementOfSeq
  <2>2. /\ out \in Seq(Event)
        /\ Len(out) = IF n + 1 <= Len(box.events)
                      THEN Len(box.events) - (n + 1) + 1 ELSE 0
    BY <1>1, <1>2, <2>1, SubSeqProperties
  <2> QED
    BY <1>1, <1>2, <2>2
<1> HIDE DEF out
<1>6. limit > 0 /\ Len(out) > limit => some \in Seq(Event) /\ Len(some) = limit
  <2> SUFFICES ASSUME limit > 0, Len(out) > limit
               PROVE  some \in Seq(Event) /\ Len(some) = limit
    OBVIOUS
  <2>1. Len(out) \in Nat
    BY <1>5, LenProperties
  <2>2. \A i \in 1..limit : out[i] \in Event
    BY <1>5, <2>1, ElementOfSeq
  <2>3. some \in Seq(Event) /\ Len(some) = IF 1 <= limit THEN limit - 1 + 1 ELSE 0
    BY <2>1, <2>2, <1>5, SubSeqProperties
  <2> QED
    BY <2>3
<1> HIDE DEF some
<1>7. result \in Seq(Event) /\ Len(result) \in Nat /\ Len(result) <= Len(out)
  BY <1>3, <1>5, <1>6, LenProperties
<1>8. \A k \in DOMAIN result : result[k].msg \in MessageIDs
  <2>1. \A k \in DOMAIN result : result[k] \in Event
    BY <1>7, LenProperties, ElementOfSeq
  <2> QED
    BY <2>1 DEF Event
<1>9. NextCursor(box, cursor, limit) <= InboxEnd(box)
  <2> DEFINE next == NextCursor(box, cursor, limit)
             size == Len(box.events)
             end == InboxEnd(box)
  <2>1. next = Clamp(box, cursor) + Len(result) /\ end = box.base + size
    BY <1>4 DEF InboxEnd
  <2>2. size \in Nat /\ Len(out) = size - n /\ Len(result) <= Len(out)
    BY <1>1, <1>5, <1>7
  <2> HIDE DEF next, size, end
  <2> QED
    BY <1>1, <1>2, <1>7, <2>1, <2>2 DEF next, end
<1> QED
  BY <1>2, <1>4, <1>7, <1>8, <1>9 DEF result

\* A cursor never leaves the numbers of messages.
LEMMA NextCursorInRange ==
  ASSUME TypeOK, EndsCounted, NEW a \in DOMAIN inboxes,
         NEW cursor \in Nat, NEW limit \in Nat
  PROVE  NextCursor(inboxes[a], cursor, limit) \in 0..MaxMessages
<1>1. inboxes[a] \in Inbox /\ nextMessageID \in Nat /\ nextMessageID <= MaxMessages
  BY BoxTypes, Bounds DEF TypeOK
<1>2. /\ InboxEnd(inboxes[a]) \in Nat
      /\ NextCursor(inboxes[a], cursor, limit) \in Nat
      /\ NextCursor(inboxes[a], cursor, limit) <= InboxEnd(inboxes[a])
  BY <1>1, InboxEndType, PollResultType
<1>3. /\ Cardinality(QueuedFor(a)) \in Nat
      /\ InboxEnd(inboxes[a]) + Cardinality(QueuedFor(a)) <= nextMessageID
  BY QueuedForType DEF EndsCounted
<1> QED
  BY <1>1, <1>2, <1>3, Bounds


(***************************************************************************)
(* How an inbox grows                                                      *)
(***************************************************************************)

(* Positions only go up, and a position that was taken keeps its event for *)
(* as long as the inbox holds it.                                          *)
Grows(old, new) ==
  /\ old.base <= new.base
  /\ InboxEnd(old) <= InboxEnd(new)
  /\ \A k \in DOMAIN new.events :
       new.base + k <= InboxEnd(old) =>
         /\ new.base + k - old.base \in DOMAIN old.events
         /\ new.events[k] = old.events[new.base + k - old.base]

\* An inbox that stays as it is grows.
LEMMA SameGrows ==
  ASSUME NEW box \in Inbox
  PROVE  Grows(box, box)
<1>1. /\ box.base \in Nat /\ box.events \in Seq(Event)
      /\ Len(box.events) \in Nat /\ DOMAIN box.events = 1..Len(box.events)
  BY LenProperties DEF Inbox
<1>2. InboxEnd(box) \in Nat
  BY InboxEndType
<1>3. \A k \in DOMAIN box.events : box.base + k - box.base = k
  BY <1>1
<1> QED
  BY <1>1, <1>2, <1>3 DEF Grows

\* Dropping events from the front keeps the positions of the others.
LEMMA DropPrefixGrows ==
  ASSUME NEW box \in Inbox, NEW n \in Nat, n <= Len(box.events)
  PROVE  Grows(box, dropInboxPrefix(box, n))
<1> DEFINE old == box.events
           new == SubSeq(old, n + 1, Len(old))
           short == dropInboxPrefix(box, n)
<1>1. /\ box.base \in Nat /\ old \in Seq(Event)
      /\ Len(old) \in Nat /\ DOMAIN old = 1..Len(old)
  BY LenProperties DEF Inbox
<1>2. \A i \in n + 1..Len(old) : old[i] \in Event
  BY <1>1, ElementOfSeq
<1>3. /\ new \in Seq(Event)
      /\ Len(new) = IF n + 1 <= Len(old) THEN Len(old) - (n + 1) + 1 ELSE 0
      /\ \A i \in 1..Len(old) - (n + 1) + 1 : new[i] = old[(n + 1) + i - 1]
  BY <1>1, <1>2, SubSeqProperties
<1>4. DOMAIN new = 1..Len(new)
  BY <1>3, LenProperties
<1>5. short.base = box.base + n /\ short.events = new
  BY DEF dropInboxPrefix
<1>6. InboxEnd(short) = InboxEnd(box) /\ InboxEnd(box) \in Nat
  BY DropPrefixEnd, InboxEndType
<1> HIDE DEF new, short
<1>7. \A k \in DOMAIN new : k \in Nat /\ n + k \in DOMAIN old /\ new[k] = old[n + k]
  BY <1>1, <1>3, <1>4
<1>8. \A k \in DOMAIN new : box.base + n + k - box.base = n + k
  BY <1>1, <1>7
<1>9. Grows(box, short)
  BY <1>1, <1>5, <1>6, <1>7, <1>8 DEF Grows
<1> QED
  BY <1>9 DEF short

\* Growing twice is growing.
LEMMA GrowsOn ==
  ASSUME NEW a \in Inbox, NEW b \in Inbox, NEW c \in Inbox,
         Grows(a, b), Grows(b, c)
  PROVE  Grows(a, c)
<1>1. /\ a.base \in Nat /\ b.base \in Nat /\ c.base \in Nat
      /\ InboxEnd(a) \in Nat /\ InboxEnd(b) \in Nat /\ InboxEnd(c) \in Nat
  BY InboxEndType DEF Inbox
<1>2. ASSUME NEW k \in DOMAIN c.events, c.base + k <= InboxEnd(a)
      PROVE  /\ c.base + k - a.base \in DOMAIN a.events
             /\ c.events[k] = a.events[c.base + k - a.base]
  <2> DEFINE j == c.base + k - b.base
  <2>1. k \in Nat
    BY LenProperties DEF Inbox
  <2>2. c.base + k <= InboxEnd(b)
    BY <1>1, <1>2, <2>1 DEF Grows
  <2>3. j \in DOMAIN b.events /\ c.events[k] = b.events[j]
    BY <2>2 DEF Grows
  <2>4. b.base + j = c.base + k /\ j \in Int
    BY <1>1, <2>1
  <2> HIDE DEF j
  <2>5. /\ b.base + j - a.base \in DOMAIN a.events
        /\ b.events[j] = a.events[b.base + j - a.base]
    BY <1>2, <2>3, <2>4 DEF Grows
  <2>6. b.base + j - a.base = c.base + k - a.base
    BY <1>1, <2>1, <2>4
  <2> QED
    BY <2>3, <2>5, <2>6
<1> QED
  BY <1>1, <1>2 DEF Grows

\* appendInboxLocked gives the new events new positions.
LEMMA AppendInboxGrows ==
  ASSUME NEW box \in Inbox, NEW events \in Seq(Event)
  PROVE  Grows(box, appendInbox(box, events))
<1> DEFINE all == box.events \o events
           full == [base |-> box.base, events |-> all]
<1>1. /\ box.base \in Nat /\ box.events \in Seq(Event)
      /\ Len(box.events) \in Nat /\ DOMAIN box.events = 1..Len(box.events)
      /\ Len(events) \in Nat
  BY LenProperties DEF Inbox
<1>2. /\ all \in Seq(Event)
      /\ Len(all) = Len(box.events) + Len(events)
      /\ \A i \in 1..Len(box.events) + Len(events) :
           all[i] = IF i <= Len(box.events) THEN box.events[i]
                                            ELSE events[i - Len(box.events)]
      /\ DOMAIN all = 1..Len(all)
  BY <1>1, ConcatProperties, LenProperties
<1>3. full \in Inbox
  BY <1>1, <1>2 DEF Inbox
<1>4. DropCount(all) \in Nat /\ DropCount(all) <= Len(all)
  BY <1>2, DropCountType
<1>5. appendInbox(box, events) = dropInboxPrefix(full, DropCount(all))
  BY DEF appendInbox
<1>6. full.base = box.base /\ full.events = all
  OBVIOUS
<1> HIDE DEF all, full
<1>7. Grows(box, full)
  <2>1. /\ InboxEnd(box) = box.base + Len(box.events)
        /\ InboxEnd(full) = box.base + Len(box.events) + Len(events)
    <3>1. InboxEnd(full) = box.base + (Len(box.events) + Len(events))
      BY <1>2, <1>6 DEF InboxEnd
    <3> QED
      BY <1>1, <3>1 DEF InboxEnd
  <2>2. \A k \in DOMAIN all : k \in Nat /\ box.base + k - box.base = k
    BY <1>1, <1>2
  <2>3. \A k \in DOMAIN all : box.base + k <= InboxEnd(box) =>
          k \in DOMAIN box.events /\ all[k] = box.events[k]
    BY <1>1, <1>2, <2>1
  <2> QED
    BY <1>1, <1>6, <2>1, <2>2, <2>3 DEF Grows
<1>8. Grows(full, dropInboxPrefix(full, DropCount(all)))
  BY <1>3, <1>4, <1>6, DropPrefixGrows
<1>9. appendInbox(box, events) \in Inbox
  BY AppendInboxType
<1> QED
  BY <1>3, <1>5, <1>7, <1>8, <1>9, GrowsOn

\* A release appends events to an inbox.
LEMMA SweptInboxAppends ==
  ASSUME TypeOK, NEW order \in ReleaseOrders, NEW a \in DOMAIN agents
  PROVE  \E events \in Seq(Event) :
           SweptInbox(a, order[a]) = appendInbox(inboxes[a], events)
<1> DEFINE ids == order[a]
           new == [k \in DOMAIN ids |-> EventOf(ids[k], messages[ids[k]])]
<1>1. ids \in Seq(DOMAIN messages)
  BY ReleaseOrderType
<1>2. new \in Seq(Event)
  <2>1. \A k \in DOMAIN ids : new[k] \in Event
    <3> TAKE k \in DOMAIN ids
    <3>1. ids[k] \in DOMAIN messages
      BY <1>1, LenProperties, ElementOfSeq
    <3>2. ids[k] \in MessageIDs /\ messages[ids[k]] \in Message
      BY <3>1, Bounds DEF MessageIDs, TypeOK
    <3> QED
      BY <3>2, EventOfType
  <2>2. Len(ids) \in Nat /\ DOMAIN ids = 1..Len(ids)
    BY <1>1, LenProperties
  <2>3. new \in [1..Len(ids) -> Event]
    BY <2>1, <2>2
  <2> QED
    BY <2>2, <2>3, SeqDef
<1>3. SweptInbox(a, order[a]) = appendInbox(inboxes[a], new)
  BY DEF SweptInbox
<1> HIDE DEF new
<1> QED
  BY <1>2, <1>3

\* A sweep is only done at a time that differs from that of the last one.
LEMMA SweepMoves ==
  ASSUME TypeOK, Sweep
  PROVE  lastSweepAt' # lastSweepAt
<1>1. /\ now \in Nat /\ lastSweepAt \in Nat /\ now >= 1
      /\ SweepMinInterval \in Nat /\ SweepMinInterval > 0
  BY Bounds, ConfigAssumption DEF TypeOK
<1> QED
  BY <1>1 DEF Sweep, SweepDue

(* Whatever the step, the inbox of an agent that stays registered only     *)
(* grows, and it changes only in a sweep, with an accepted message, or in  *)
(* a poll.                                                                 *)
LEMMA StepGrows ==
  ASSUME TypeOK, [Next]_vars, NEW a \in DOMAIN inboxes, a \in DOMAIN inboxes'
  PROVE  /\ Grows(inboxes[a], inboxes'[a])
         /\ \/ inboxes'[a] = inboxes[a]
            \/ lastSweepAt' # lastSweepAt
            \/ nextMessageID' # nextMessageID
            \/ Polls
<1>1. inboxes[a] \in Inbox
  BY BoxTypes
<1>2. Grows(inboxes[a], inboxes[a])
  BY <1>1, SameGrows
<1>3. CASE Idles \/ Creates \/ Registers \/ Changes
  <2>1. CASE Idles \/ Creates \/ Changes
    BY <1>2, <2>1 DEF Idles, Creates, CreateConversation, Changes, SetMessage
  <2>2. CASE Registers
    <3>1. PICK b : inboxes' = IF b \in DOMAIN inboxes THEN inboxes
                              ELSE Put(inboxes, b, [base |-> 0, events |-> << >>])
      BY <2>2 DEF Registers, RegisterAgent
    <3>2. inboxes'[a] = inboxes[a]
      BY <3>1 DEF Put
    <3> QED
      BY <1>2, <3>2
  <2> QED
    BY <1>3, <2>1, <2>2
<1>4. CASE Polls
  <2>1. PICK b \in Agents, cursor \in Nat : PollInbox(b, cursor)
    BY <1>4 DEF Polls
  <2> DEFINE n == Clamp(inboxes[a], cursor) - inboxes[a].base
             box == dropInboxPrefix(inboxes[a], n)
  <2>2. inboxes'[a] = IF a = b THEN box ELSE inboxes[a]
    BY <2>1 DEF PollInbox, Active, TypeOK
  <2>3. n \in Nat /\ n <= Len(inboxes[a].events)
    BY <1>1, ClampRange
  <2> HIDE DEF n
  <2>4. Grows(inboxes[a], box)
    BY <1>1, <2>3, DropPrefixGrows
  <2> HIDE DEF box
  <2> QED
    BY <1>2, <1>4, <2>2, <2>4
<1>5. CASE Accepts
  <2>1. PICK m \in Message, choice \in ConversationChoices, names \in SUBSET Agents :
          /\ nextMessageID + 1 <= MaxMessages
          /\ Accept(nextMessageID + 1, m, choice, names)
    BY <1>5 DEF Accepts
  <2>2. nextMessageID \in Nat /\ nextMessageID' = nextMessageID + 1
    BY <2>1, AcceptKeeps
  <2>3. nextMessageID' # nextMessageID /\ nextMessageID + 1 \in MessageIDs
    BY <2>1, <2>2, Bounds DEF MessageIDs
  <2> DEFINE event == EventOf(nextMessageID + 1, m)
  <2>4. <<event>> \in Seq(Event)
    BY <2>3, EventOfType
  <2> HIDE DEF event
  <2>5. Grows(inboxes[a], appendInbox(inboxes[a], <<event>>))
    BY <1>1, <2>4, AppendInboxGrows
  <2>6. inboxes'[a] = inboxes[a]
        \/ inboxes'[a] = appendInbox(inboxes[a], <<event>>)
    BY <2>1 DEF Accept, event
  <2> QED
    BY <1>2, <2>3, <2>5, <2>6
<1>6. CASE Sweep
  <2>1. PICK order \in ReleaseOrders :
          inboxes' = [b \in KeptAgents |-> SweptInbox(b, order[b])]
    BY <1>6 DEF Sweep
  <2>2. a \in DOMAIN agents /\ a \in KeptAgents
    BY <2>1 DEF KeptAgents, TypeOK
  <2>3. PICK new \in Seq(Event) :
          SweptInbox(a, order[a]) = appendInbox(inboxes[a], new)
    BY <2>2, SweptInboxAppends
  <2>4. inboxes'[a] = appendInbox(inboxes[a], new)
    BY <2>1, <2>2, <2>3
  <2>5. Grows(inboxes[a], inboxes'[a])
    BY <1>1, <2>3, <2>4, AppendInboxGrows
  <2>6. lastSweepAt' # lastSweepAt
    BY <1>6, SweepMoves
  <2> QED
    BY <2>5, <2>6
<1> QED
  BY <1>3, <1>4, <1>5, <1>6, StepKinds


\* No call but a poll changes an inbox that is there without a new message.
LEMMA CallReclaimsNothing ==
  ASSUME TypeOK, Call, NEW a \in DOMAIN inboxes, nextMessageID' = nextMessageID
  PROVE  inboxes'[a] = inboxes[a]
<1>1. CASE Registers
  <2>1. PICK b : inboxes' = IF b \in DOMAIN inboxes THEN inboxes
                            ELSE Put(inboxes, b, [base |-> 0, events |-> << >>])
    BY <1>1 DEF Registers, RegisterAgent
  <2> QED
    BY <2>1 DEF Put
<1>2. CASE Creates \/ Changes
  BY <1>2 DEF Creates, CreateConversation, Changes, SetMessage
<1>3. CASE Accepts
  <2>1. nextMessageID \in Nat /\ nextMessageID' = nextMessageID + 1
    BY <1>3, Bounds DEF Accepts, Accept, TypeOK
  <2> QED
    BY <2>1
<1> QED
  BY <1>1, <1>2, <1>3, CallKinds

\* No agent loses its inbox.
InboxesStay == DOMAIN inboxes \subseteq DOMAIN inboxes'

\* Without a retention for agents no inbox goes.
LEMMA StaysWithoutRetention ==
  ASSUME AgentRetention = 0, TypeOK, [Next]_vars
  PROVE  InboxesStay
<1>1. TypeOK'
  BY NextType
<1>2. DOMAIN agents \subseteq DOMAIN agents'
  <2>1. CASE Sweep
    BY <2>1 DEF Sweep, KeptAgents, PrunedAgent
  <2>2. CASE Registers
    BY <2>2 DEF Registers, RegisterAgent, Put
  <2>3. CASE Idles \/ Creates \/ Accepts \/ Changes \/ Polls
    BY <2>3 DEF Idles, Creates, CreateConversation, Accepts, Accept, Changes,
                SetMessage, Polls, PollInbox
  <2> QED
    BY <2>1, <2>2, <2>3, StepKinds
<1> QED
  BY <1>1, <1>2 DEF TypeOK, InboxesStay

(* A client with the messages got may poll with c: the inbox has come that *)
(* far, and what it still holds up to there is among them.                 *)
Covered(c, box, got) ==
  /\ c <= InboxEnd(box)
  /\ \A k \in DOMAIN box.events : box.base + k <= c => box.events[k].msg \in got

\* A cursor stays covered while its inbox grows and the client forgets nothing.
LEMMA CoveredGrows ==
  ASSUME NEW old \in Inbox, NEW new \in Inbox, NEW c \in Nat, NEW got, NEW more,
         Covered(c, old, got), Grows(old, new), got \subseteq more
  PROVE  Covered(c, new, more)
<1>1. /\ old.base \in Nat /\ new.base \in Nat
      /\ InboxEnd(old) \in Nat /\ InboxEnd(new) \in Nat
  BY InboxEndType DEF Inbox
<1>2. c <= InboxEnd(old) /\ InboxEnd(old) <= InboxEnd(new)
  BY DEF Covered, Grows
<1>3. ASSUME NEW k \in DOMAIN new.events, new.base + k <= c
      PROVE  new.events[k].msg \in more
  <2> DEFINE j == new.base + k - old.base
  <2>1. k \in Nat
    BY LenProperties DEF Inbox
  <2>2. new.base + k <= InboxEnd(old)
    BY <1>1, <1>2, <1>3, <2>1
  <2>3. j \in DOMAIN old.events /\ new.events[k] = old.events[j]
    BY <2>2 DEF Grows
  <2>4. old.base + j = new.base + k
    BY <1>1, <2>1
  <2> HIDE DEF j
  <2>5. old.base + j <= c
    BY <1>3, <2>4
  <2> QED
    BY <2>3, <2>5 DEF Covered
<1> QED
  BY <1>1, <1>2, <1>3 DEF Covered

\* Zero is covered by every inbox.
LEMMA ZeroCovered ==
  ASSUME NEW box \in Inbox, NEW got
  PROVE  Covered(0, box, got)
<1>1. /\ box.base \in Nat /\ InboxEnd(box) \in Nat
      /\ \A k \in DOMAIN box.events : k \in Nat /\ k > 0
  BY InboxEndType, LenProperties DEF Inbox
<1>2. \A k \in DOMAIN box.events : ~(box.base + k <= 0)
  BY <1>1
<1> QED
  BY <1>1, <1>2 DEF Covered

(* The cursor that a poll brings is covered by what the client had and     *)
(* what the poll brings, limited or not.                                   *)
LEMMA PollCovers ==
  ASSUME NEW box \in Inbox, NEW cursor \in Nat, NEW limit \in Nat, NEW got,
         Covered(cursor, box, got)
  PROVE  Covered(NextCursor(box, cursor, limit), box,
                 got \cup {PollResult(box, cursor, limit)[k].msg :
                             k \in DOMAIN PollResult(box, cursor, limit)})
<1> DEFINE n == Clamp(box, cursor) - box.base
           events == box.events
           out == SubSeq(events, n + 1, Len(events))
           some == SubSeq(out, 1, limit)
           result == PollResult(box, cursor, limit)
           next == NextCursor(box, cursor, limit)
<1>1. /\ box.base \in Nat /\ events \in Seq(Event)
      /\ Len(events) \in Nat /\ DOMAIN events = 1..Len(events)
  BY LenProperties DEF Inbox
<1>2. n \in Nat /\ n <= Len(events) /\ Clamp(box, cursor) = box.base + n
  <2>1. n \in Nat /\ n <= Len(events)
    BY ClampRange
  <2>2. Clamp(box, cursor) \in Int
    BY <1>1 DEF Clamp, InboxEnd
  <2> QED
    BY <1>1, <2>1, <2>2
<1>3. n = 0 \/ box.base + n <= cursor
  BY <1>1, <1>2 DEF Clamp, InboxEnd
<1>4. result = IF limit > 0 /\ Len(out) > limit THEN some ELSE out
  BY DEF PollResult
<1>5. next = box.base + n + Len(result)
  BY <1>2 DEF NextCursor
<1>6. next \in Nat /\ next <= InboxEnd(box)
  BY PollResultType
<1> HIDE DEF n, result, next
<1>7. /\ out \in Seq(Event) /\ Len(out) \in Nat /\ Len(out) = Len(events) - n
      /\ \A i \in 1..Len(out) : out[i] = events[n + i]
  <2>1. \A i \in n + 1..Len(events) : events[i] \in Event
    BY <1>1, <1>2, ElementOfSeq
  <2>2. /\ out \in Seq(Event)
        /\ Len(out) = IF n + 1 <= Len(events)
                      THEN Len(events) - (n + 1) + 1 ELSE 0
        /\ \A i \in 1..Len(events) - (n + 1) + 1 : out[i] = events[(n + 1) + i - 1]
    BY <1>1, <1>2, <2>1, SubSeqProperties
  <2>3. Len(out) = Len(events) - n
    BY <1>1, <1>2, <2>2
  <2> HIDE DEF out
  <2>4. \A i \in 1..Len(out) : /\ i \in 1..Len(events) - (n + 1) + 1
                               /\ (n + 1) + i - 1 = n + i
    BY <1>1, <1>2, <2>3
  <2> QED
    BY <1>1, <1>2, <2>2, <2>3, <2>4
<1> HIDE DEF out
<1>8. limit > 0 /\ Len(out) > limit =>
        some \in Seq(Event) /\ Len(some) = limit
        /\ \A i \in 1..limit : some[i] = out[i]
  <2> SUFFICES ASSUME limit > 0, Len(out) > limit
               PROVE  some \in Seq(Event) /\ Len(some) = limit
                      /\ \A i \in 1..limit : some[i] = out[i]
    OBVIOUS
  <2>1. \A i \in 1..limit : out[i] \in Event
    BY <1>7, ElementOfSeq
  <2>2. /\ some \in Seq(Event) /\ Len(some) = IF 1 <= limit THEN limit - 1 + 1 ELSE 0
        /\ \A i \in 1..limit - 1 + 1 : some[i] = out[1 + i - 1]
    BY <1>7, <2>1, SubSeqProperties
  <2> HIDE DEF some
  <2>3. \A i \in 1..limit : i \in 1..limit - 1 + 1 /\ 1 + i - 1 = i
    OBVIOUS
  <2> QED
    BY <2>2, <2>3
<1> HIDE DEF some
<1>9. /\ result \in Seq(Event) /\ Len(result) \in Nat
      /\ DOMAIN result = 1..Len(result) /\ Len(result) <= Len(out)
      /\ \A i \in 1..Len(result) : result[i] = events[n + i]
  BY <1>4, <1>7, <1>8, LenProperties
<1>10. ASSUME NEW k \in DOMAIN events, box.base + k <= next
       PROVE  events[k].msg \in got \cup {result[i].msg : i \in DOMAIN result}
  <2>1. k \in Nat /\ k > 0
    BY <1>1
  <2>2. CASE k <= n
    <3>1. box.base + k <= cursor
      BY <1>1, <1>2, <1>3, <2>1, <2>2
    <3> QED
      BY <3>1 DEF Covered
  <2>3. CASE k > n
    <3>1. k - n \in DOMAIN result /\ n + (k - n) = k
      <4>1. box.base + k <= box.base + n + Len(result)
        BY <1>5, <1>10
      <4>2. k <= n + Len(result)
        BY <1>1, <1>2, <1>9, <2>1, <4>1
      <4>3. k - n \in 1..Len(result) /\ n + (k - n) = k
        BY <1>2, <1>9, <2>1, <2>3, <4>2
      <4> QED
        BY <1>9, <4>3
    <3>2. result[k - n] = events[k]
      BY <1>9, <3>1
    <3> QED
      BY <3>1, <3>2
  <2> QED
    BY <1>2, <2>1, <2>2, <2>3
<1>11. Covered(next, box, got \cup {result[i].msg : i \in DOMAIN result})
  BY <1>6, <1>10 DEF Covered
<1> QED
  BY <1>11 DEF next, result

(* A poll with a covered cursor gives up only events that the client has.  *)
LEMMA PollReclaims ==
  ASSUME NEW box \in Inbox, NEW cursor \in Nat, NEW got,
         Covered(cursor, box, got),
         NEW k \in 1..Clamp(box, cursor) - box.base
  PROVE  box.events[k].msg \in got
<1>1. /\ box.base \in Nat /\ Len(box.events) \in Nat
      /\ DOMAIN box.events = 1..Len(box.events)
  BY LenProperties DEF Inbox
<1>2. /\ Clamp(box, cursor) - box.base \in Nat
      /\ Clamp(box, cursor) - box.base <= Len(box.events)
      /\ Clamp(box, cursor) \in Int
  <2>1. Clamp(box, cursor) \in Int
    BY <1>1 DEF Clamp, InboxEnd
  <2> QED
    BY <2>1, ClampRange
<1>3. k \in DOMAIN box.events
  BY <1>1, <1>2
<1>4. Clamp(box, cursor) > box.base => Clamp(box, cursor) <= cursor
  BY <1>1 DEF Clamp, InboxEnd
<1>5. box.base + k <= cursor
  BY <1>1, <1>2, <1>4
<1> QED
  BY <1>3, <1>5 DEF Covered
=============================================================================
