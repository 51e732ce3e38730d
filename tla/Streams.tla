------------------------------ MODULE Streams ------------------------------
(***************************************************************************)
(* Clients that wait: long polls of an inbox (pollInbox and                *)
(* pollDurableInbox) and observers of the event stream (ObserveSince and   *)
(* handleObserve).  Both take a broadcast channel under s.mu and wait on   *)
(* it outside; an append or a publication closes the channel.              *)
(*                                                                         *)
(* The handlers of Store are reduced to what they do to inboxes, channels  *)
(* and the observe ring.  A poll takes its channel and reads in two steps, *)
(* as pollDurableInbox does; pollInbox does both under one lock, which is  *)
(* the case that nothing comes between them.                               *)
(***************************************************************************)
EXTENDS Integers, Sequences, FiniteSets, SequencesExt

CONSTANTS
  Agents,
  Names,                 \* names that events are about: agents and humans
  Pollers,               \* connections that may hold a long poll
  Observers,             \* clients of the event stream
  Filters,               \* observer -> names whose events it may see
  Channels, None,        \* channels of inboxes, and the nil channel
  MaxObserveEvents, MaxObserveBytes,
  Sizes,                 \* observeEventSize of the events
  MaxRows, MaxObserveID, MaxRestarts     \* bounds of the model

ASSUME StreamsAssumption ==
  /\ Agents # {} /\ Agents \subseteq Names
  /\ Filters \in [Observers -> SUBSET Names]
  /\ None \notin Channels
  /\ {MaxObserveEvents, MaxObserveBytes} \subseteq Nat
  /\ Sizes \subseteq Nat \ {0}
  /\ {MaxRows, MaxObserveID, MaxRestarts} \subseteq Nat

VARIABLES
  status,          \* agent -> "none", "active" or "expired"
  rows,            \* agent -> its deliveries in the order of their numbers
  acked,           \* agent -> acknowledged cursor
  got,             \* agent -> highest cursor a response brought its client
  notify,          \* inboxNotify: agent -> channel or None
  closed,          \* channels of inboxes that are closed and still held
  polls,           \* poller -> long poll under way
  ring,            \* observeEvents
  nextObserveID,
  observeNotify,   \* the channel that the observers take next
  observeClosed,   \* channels of observers that have been closed
  streams,         \* observer -> its connection, as the server sees it
  clients,         \* observer -> what it has received in this epoch
  restarts

inboxVars == <<status, rows, acked, got, notify, polls>>
observeVars == <<ring, nextObserveID, observeNotify, observeClosed>>
connections == <<streams, clients>>
streamsVars == <<inboxVars, closed, observeVars, connections, restarts>>

(* A delivery is "sent" when it has entered the runtime inbox, which wakes *)
(* the polls.  One for an expired agent does not: it is "queued" when it   *)
(* is a request that a sweep will release, "offered" when a poll has read  *)
(* that first, and "held" when it is a response or an inform, which no     *)
(* sweep releases.                                                         *)
Row == {"sent", "queued", "offered", "held"}
Event == [id : 1..MaxObserveID, who : Names, size : Sizes]
Poll == [pc : {"idle", "taken", "waiting"}, agent : Agents, cursor : Nat,
         chan : Channels \cup {None}]
Stream == [pc : {"closed", "read", "waiting", "send"}, cursor : Nat,
           batch : Seq(Event), chan : 0..MaxObserveID]
Client == [stale : BOOLEAN, seen : Seq(Nat)]

StreamsTypeOK ==
  /\ status \in [Agents -> {"none", "active", "expired"}]
  /\ rows \in [Agents -> Seq(Row)]
  /\ acked \in [Agents -> Nat]
  /\ got \in [Agents -> Nat]
  /\ notify \in [Agents -> Channels \cup {None}]
  /\ closed \subseteq Channels
  /\ polls \in [Pollers -> Poll]
  /\ ring \in Seq(Event)
  /\ nextObserveID \in 0..MaxObserveID
  /\ observeNotify \in 0..MaxObserveID
  /\ observeClosed \subseteq 0..MaxObserveID
  /\ streams \in [Observers -> Stream]
  /\ clients \in [Observers -> Client]
  /\ restarts \in 0..MaxRestarts

IdlePoll == [pc |-> "idle", agent |-> CHOOSE a \in Agents : TRUE, cursor |-> 0,
             chan |-> None]
ClosedStream == [pc |-> "closed", cursor |-> 0, batch |-> << >>, chan |-> 0]

StreamsInit ==
  /\ status = [a \in Agents |-> "none"]
  /\ rows = [a \in Agents |-> << >>]
  /\ acked = [a \in Agents |-> 0]
  /\ got = [a \in Agents |-> 0]
  /\ notify = [a \in Agents |-> None]
  /\ closed = {}
  /\ polls = [p \in Pollers |-> IdlePoll]
  /\ ring = << >>
  /\ nextObserveID = 0
  /\ observeNotify = 0
  /\ observeClosed = {}
  /\ streams = [o \in Observers |-> ClosedStream]
  /\ clients = [o \in Observers |-> [stale |-> TRUE, seen |-> << >>]]
  /\ restarts = 0

(***************************************************************************)
(* Channels                                                                *)
(***************************************************************************)
Held(ps) == {ps[p].chan : p \in Pollers}

\* Channels that nobody refers to: make(chan struct{}) returns such a one.
Unused == Channels \ (Held(polls) \cup {notify[a] : a \in Agents})
Fresh == CHOOSE ch \in Unused : TRUE

\* Mutation: the slot is cleared and the channel left open.
signalInboxSlot(a) ==
  /\ notify' = [notify EXCEPT ![a] = None]
  /\ UNCHANGED closed

\* Mutation: the nil channel of an agent that nobody polls is closed too.
signalInboxNil(a) ==
  /\ notify' = [notify EXCEPT ![a] = None]
  /\ closed' = (closed \cup {notify[a]}) \cap Held(polls)

signalInbox(a) ==
  /\ notify' = [notify EXCEPT ![a] = None]
  /\ closed' = (closed \cup {notify[a]}) \cap (Held(polls) \ {None})

\* Mutation: a new channel is installed and the old one left open.
signalObserveReplaced ==
  /\ observeNotify' = nextObserveID + 1
  /\ UNCHANGED observeClosed

\* Every publication installs a channel, so its id also names the channel.
signalObserve ==
  /\ observeNotify' = nextObserveID + 1
  /\ observeClosed' = observeClosed \cup {observeNotify}

(***************************************************************************)
(* publishLocked and trimObserveLocked                                     *)
(***************************************************************************)
RingBytes(events) == SumFunction([k \in DOMAIN events |-> events[k].size])

\* Whether the ring without its d oldest events is still over a limit.
RingOver(events, d) ==
  LET rest == SubSeq(events, d + 1, Len(events))
  IN  \/ MaxObserveEvents > 0 /\ Len(rest) > MaxObserveEvents
      \/ MaxObserveBytes > 0 /\ RingBytes(rest) > MaxObserveBytes

\* The newest event is always kept.
trimObserve(events) ==
  LET drop == Cardinality({d \in 0..Len(events) - 2 : RingOver(events, d)})
  IN  SubSeq(events, drop + 1, Len(events))

publish(name, size) ==
  /\ nextObserveID < MaxObserveID
  /\ nextObserveID' = nextObserveID + 1
  /\ ring' = trimObserve(Append(ring, [id |-> nextObserveID + 1, who |-> name,
                                       size |-> size]))
  /\ signalObserve
  /\ UNCHANGED <<connections, restarts>>

(***************************************************************************)
(* What the handlers of the store do to inboxes and ring                   *)
(***************************************************************************)
RegisterAgent(a, size) ==
  /\ status' = [status EXCEPT ![a] = "active"]
  /\ publish(a, size)
  /\ UNCHANGED <<rows, acked, got, notify, polls, closed>>

\* sweepLocked and pruneLocked, for one agent.
ExpireAgent(a, size) ==
  /\ status[a] = "active"
  /\ status' = [status EXCEPT ![a] = "expired"]
  /\ publish(a, size)
  /\ UNCHANGED <<rows, acked, got, notify, polls, closed>>

PruneAgent(a) ==
  /\ status[a] = "expired"
  /\ status' = [status EXCEPT ![a] = "none"]
  /\ signalInbox(a)
  /\ UNCHANGED <<rows, acked, got, polls, observeVars, connections, restarts>>

\* The queued requests of an agent that is back enter its inbox.
ReleaseQueued(a) ==
  /\ status[a] = "active"
  /\ \E k \in DOMAIN rows[a] : rows[a][k] = "queued"
  /\ rows' = [rows EXCEPT ![a] = [k \in DOMAIN @ |->
                IF @[k] = "queued" THEN "sent" ELSE @[k]]]
  /\ signalInbox(a)
  /\ UNCHANGED <<status, acked, got, polls, observeVars, connections, restarts>>

\* sendMessage and inject to an active agent, and to one in its grace period.
AcceptActive(a, size) ==
  /\ status[a] = "active"
  /\ Len(rows[a]) < MaxRows
  /\ rows' = [rows EXCEPT ![a] = Append(@, "sent")]
  /\ signalInbox(a)
  /\ publish(a, size)
  /\ UNCHANGED <<status, acked, got, polls>>

AcceptQueued(a, row, size) ==
  /\ status[a] = "expired"
  /\ Len(rows[a]) < MaxRows
  /\ rows' = [rows EXCEPT ![a] = Append(@, row)]
  /\ publish(a, size)
  /\ UNCHANGED <<status, acked, got, notify, polls, closed>>

\* Acks, events and deadlines publish and leave inboxes alone.
PublishOnly(name, size) ==
  /\ publish(name, size)
  /\ UNCHANGED <<inboxVars, closed>>

(***************************************************************************)
(* Long polls                                                              *)
(***************************************************************************)
\* The channel of an agent, made if there is none; the poll holds it.
TakeChannel(p, a, cursor) ==
  /\ notify[a] = None => Unused # {}
  /\ LET ch == IF notify[a] = None THEN Fresh ELSE notify[a]
     IN  /\ notify' = [notify EXCEPT ![a] = ch]
         /\ closed' = closed \ {ch}
         /\ polls' = [polls EXCEPT ![p] = [pc |-> "taken", agent |-> a,
                                           cursor |-> cursor, chan |-> ch]]
  /\ UNCHANGED <<status, rows, acked, got, observeVars, connections, restarts>>

BeginPoll(p, a, cursor) ==
  /\ polls[p].pc = "idle"
  /\ status[a] = "active"
  /\ cursor <= got[a]
  /\ TakeChannel(p, a, cursor)

Clamped(a, cursor) ==
  Max({acked[a], Min({cursor, Len(rows[a])})})

EndPoll(p) ==
  /\ polls' = [polls EXCEPT ![p] = IdlePoll]
  /\ closed' = closed \cap Held(polls')

\* The response may be lost on its way to the client.
Respond(p, cursor, arrives) ==
  /\ EndPoll(p)
  /\ got' = IF arrives THEN [got EXCEPT ![polls[p].agent] = Max({@, cursor})]
            ELSE got

(* The read acknowledges what lies below the cursor and returns what lies  *)
(* above it.  With nothing to return the poll waits, unless it was not     *)
(* asked to or its time is up.                                             *)
ReadPoll(p, arrives) ==
  LET a == polls[p].agent
      cursor == Clamped(a, polls[p].cursor)
  IN  /\ polls[p].pc = "taken"
      /\ acked' = [acked EXCEPT ![a] = cursor]
      /\ rows' = [rows EXCEPT ![a] = [k \in DOMAIN @ |->
                    IF k > cursor /\ @[k] = "queued" THEN "offered" ELSE @[k]]]
      /\ \/ cursor < Len(rows[a]) /\ Respond(p, Len(rows[a]), arrives)
         \/ cursor = Len(rows[a]) /\ Respond(p, cursor, arrives)
         \/ /\ cursor = Len(rows[a])
            /\ polls' = [polls EXCEPT ![p].pc = "waiting"]
            /\ UNCHANGED <<got, closed>>
      /\ UNCHANGED <<status, notify, observeVars, connections, restarts>>

\* The loop again, with the cursor that the client sent.
WakePoll(p) ==
  /\ polls[p].pc = "waiting"
  /\ polls[p].chan \in closed
  /\ IF status[polls[p].agent] = "active"
     THEN TakeChannel(p, polls[p].agent, polls[p].cursor)
     ELSE /\ EndPoll(p)
          /\ UNCHANGED <<status, rows, acked, got, notify, observeVars,
                         connections, restarts>>

TimeoutPoll(p, arrives) ==
  /\ polls[p].pc = "waiting"
  /\ Respond(p, Clamped(polls[p].agent, polls[p].cursor), arrives)
  /\ UNCHANGED <<status, rows, acked, notify, observeVars, connections,
                 restarts>>

(***************************************************************************)
(* The event stream                                                        *)
(***************************************************************************)
LastSeen(o) == IF clients[o].seen = << >> THEN 0
               ELSE clients[o].seen[Len(clients[o].seen)]

SetStream(o, stream) ==
  /\ streams' = [streams EXCEPT ![o] = stream]
  /\ UNCHANGED <<clients, observeVars, inboxVars, closed, restarts>>

(* A client resumes with Last-Event-ID.  One that meets a new epoch in the *)
(* response header drops the connection and comes back without a cursor.   *)
Connect(o) ==
  /\ streams[o].pc = "closed"
  /\ streams' = [streams EXCEPT ![o] =
       [pc |-> "read", cursor |-> IF clients[o].stale THEN 0 ELSE LastSeen(o),
        batch |-> << >>, chan |-> 0]]
  /\ clients' = [clients EXCEPT ![o].stale = FALSE,
                                ![o].seen = IF clients[o].stale THEN << >> ELSE @]
  /\ UNCHANGED <<observeVars, inboxVars, closed, restarts>>

Disconnect(o) ==
  /\ streams[o].pc # "closed"
  /\ SetStream(o, ClosedStream)

eventMatchesFilter(evt, o) == evt.who \in Filters[o]

\* Mutation: the event at the cursor is found again.
FirstAt(cursor) == Cardinality({k \in DOMAIN ring : ring[k].id < cursor}) + 1
\* Position of the first event past the cursor (the binary search).
FirstPast(cursor) == Cardinality({k \in DOMAIN ring : ring[k].id <= cursor}) + 1

\* Positions of the events past the cursor that pass the filter.
Matching(o) ==
  {k \in FirstPast(streams[o].cursor)..Len(ring) : eventMatchesFilter(ring[k], o)}
InOrder(ks) ==
  CHOOSE s \in SetToSeqs(ks) : \A i, j \in DOMAIN s : i < j => s[i] < s[j]

Found(o) == LET ks == InOrder(Matching(o)) IN [i \in DOMAIN ks |-> ring[ks[i]]]

\* One pass of ObserveSince.
ObserveSince(o) ==
  /\ streams[o].pc = "read"
  /\ SetStream(o, IF Found(o) # << >>
                  THEN [streams[o] EXCEPT !.pc = "send", !.batch = Found(o)]
                  ELSE [streams[o] EXCEPT !.pc = "waiting",
                                          !.chan = observeNotify])

\* Woken by a publication, or by the timer with a keep-alive.
Reread(o) == SetStream(o, [streams[o] EXCEPT !.pc = "read", !.chan = 0])
\* Mutation: with events to send, a woken stream still waits for its timer.
WakeStreamIdle(o) ==
  /\ streams[o].pc = "waiting" /\ streams[o].chan \in observeClosed
  /\ Found(o) = << >>
  /\ Reread(o)

WakeStream(o) ==
  /\ streams[o].pc = "waiting" /\ streams[o].chan \in observeClosed
  /\ Reread(o)
KeepAlive(o) == streams[o].pc = "waiting" /\ Reread(o)

\* Mutation: the cursor becomes the newest id there is.
CursorNewest(batch) == nextObserveID
CursorAfter(batch) == batch[Len(batch)].id

(* The events reach the client one by one, so that a lost connection cuts  *)
(* the batch anywhere; the cursor moves when all are written.              *)
SendEvent(o) ==
  LET batch == streams[o].batch
  IN  /\ streams[o].pc = "send"
      /\ clients' = [clients EXCEPT ![o].seen = Append(@, Head(batch).id)]
      /\ streams' = [streams EXCEPT ![o] =
           IF Len(batch) > 1 THEN [@ EXCEPT !.batch = Tail(batch)]
           ELSE [@ EXCEPT !.pc = "read", !.batch = << >>,
                          !.cursor = CursorAfter(batch)]]
      /\ UNCHANGED <<observeVars, inboxVars, closed, restarts>>

(***************************************************************************)
(* A restart ends every connection; deliveries are durable, the ring and   *)
(* its ids are not.                                                        *)
(***************************************************************************)
RestartProcess ==
  /\ restarts < MaxRestarts
  /\ restarts' = restarts + 1
  /\ notify' = [a \in Agents |-> None]
  /\ polls' = [p \in Pollers |-> IdlePoll]
  /\ closed' = {}
  /\ ring' = << >>
  /\ nextObserveID' = 0
  /\ observeNotify' = 0
  /\ observeClosed' = {}
  /\ streams' = [o \in Observers |-> ClosedStream]
  /\ clients' = [o \in Observers |-> [clients[o] EXCEPT !.stale = TRUE]]
  /\ UNCHANGED <<status, rows, acked, got>>

StreamsNext ==
  \/ \E a \in Agents, size \in Sizes :
       \/ RegisterAgent(a, size)
       \/ ExpireAgent(a, size)
       \/ AcceptActive(a, size)
       \/ \E row \in {"queued", "held"} : AcceptQueued(a, row, size)
  \/ \E name \in Names, size \in Sizes : PublishOnly(name, size)
  \/ \E a \in Agents : PruneAgent(a) \/ ReleaseQueued(a)
  \/ \E p \in Pollers :
       \/ \E a \in Agents : \E cursor \in 0..got[a] : BeginPoll(p, a, cursor)
       \/ WakePoll(p)
       \/ \E arrives \in BOOLEAN : ReadPoll(p, arrives) \/ TimeoutPoll(p, arrives)
  \/ \E o \in Observers :
       \/ Connect(o) \/ Disconnect(o)
       \/ ObserveSince(o) \/ WakeStream(o) \/ KeepAlive(o) \/ SendEvent(o)
  \/ RestartProcess

StreamsSpec == StreamsInit /\ [][StreamsNext]_streamsVars

(***************************************************************************)
(* Properties                                                              *)
(***************************************************************************)

(* No wake-up is lost: a poll whose channel is open holds the channel that *)
(* the next append will close, and one that waits on it has nothing above  *)
(* its cursor but what was accepted while its agent was expired and no     *)
(* sweep has released.                                                     *)
PollsAreWoken ==
  \A p \in Pollers :
    LET a == polls[p].agent
    IN  /\ polls[p].pc # "idle" /\ polls[p].chan \notin closed =>
             notify[a] = polls[p].chan
        /\ polls[p].pc = "waiting" /\ polls[p].chan \notin closed =>
             \A k \in DOMAIN rows[a] :
               k > Clamped(a, polls[p].cursor) => rows[a][k] # "sent"

(* The same for observers: one that waits on an open channel has no event  *)
(* of its filter left in the ring.                                         *)
ObserversAreWoken ==
  \A o \in Observers :
    streams[o].pc = "waiting" /\ streams[o].chan \notin observeClosed =>
      streams[o].chan = observeNotify /\ Found(o) = << >>

(* Within an epoch an observer gets events in the order of their ids and   *)
(* none twice, however often it reconnects and wherever the connection     *)
(* breaks.                                                                 *)
ObservedInOrder ==
  \A o \in Observers :
    LET seen == clients[o].seen
    IN  \A j, k \in DOMAIN seen : j < k => seen[j] < seen[k]

(* An observer that has passed an event of its filter has received it, as  *)
(* long as the ring still has the event: only eviction makes a gap.        *)
OnlyEvictionSkips ==
  \A o \in Observers, k \in DOMAIN ring :
    /\ streams[o].pc # "closed"
    /\ ring[k].id <= streams[o].cursor
    /\ eventMatchesFilter(ring[k], o)
    => \E j \in DOMAIN clients[o].seen : clients[o].seen[j] = ring[k].id

(* The goroutine of a connection runs.  Its timer is not needed.           *)
FairStreamsSpec ==
  /\ StreamsSpec
  /\ \A o \in Observers :
       /\ WF_streamsVars(ObserveSince(o))
       /\ WF_streamsVars(WakeStream(o))
       /\ WF_streamsVars(SendEvent(o))

(* An observer that stays connected gets every event of its filter, or the *)
(* ring has evicted it; the wake-ups alone see to it, without the timer.   *)
ObserversCatchUp ==
  \A o \in Observers, id \in 1..MaxObserveID :
    (/\ streams[o].pc # "closed"
     /\ \E k \in DOMAIN ring : ring[k].id = id /\ eventMatchesFilter(ring[k], o))
      ~> (\/ streams[o].pc = "closed"
          \/ \A k \in DOMAIN ring : ring[k].id # id
          \/ \E j \in DOMAIN clients[o].seen : clients[o].seen[j] = id)
=============================================================================
