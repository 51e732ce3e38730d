----------------------------- MODULE JsonProofs -----------------------------
(***************************************************************************)
(* What was answered survives on the JSON backend, and cursors stay        *)
(* honest, for every set of agents, every configuration and any number of  *)
(* crashes.                                                                *)
(***************************************************************************)
EXTENDS JsonStore, StoreProofs

(***************************************************************************)
(* The inductive invariant                                                 *)
(***************************************************************************)

\* The calls that persist, with what they will tell their clients.
CallRecords ==
  {Plain} \cup {Sent(key, entry) : key \in Key, entry \in Entry}
  \cup {Heard(id) : id \in MessageIDs}
  \cup {Polled(a, next, batch) : a \in Agents, next \in 0..MaxMessages,
                                 batch \in SUBSET MessageIDs}

\* The messages of a snapshot that a sweep of its store may still release.
QueuedIn(s, a) ==
  {id \in DOMAIN s.messages : s.messages[id].queued /\ s.messages[id].to = a}

(* A snapshot from which the store can go on: types, and what the store's  *)
(* own invariants need, since a restart makes it the runtime state.        *)
Sound(s) ==
  /\ DOMAIN s.agents \subseteq Agents
  /\ s.agents \in [DOMAIN s.agents -> Agent]
  /\ s.nextMessageID \in 0..MaxMessages
  /\ s.nextConversationID \in 0..MaxConversations
  /\ DOMAIN s.messages \subseteq 1..s.nextMessageID
  /\ s.messages \in [DOMAIN s.messages -> Message]
  /\ s.inboxes \in [DOMAIN s.agents -> Inbox]
  /\ DOMAIN s.idempotency \subseteq Key
  /\ s.idempotency \in [DOMAIN s.idempotency -> Entry]
  /\ DOMAIN s.conversations \subseteq Nat
  /\ s.conversations \in [DOMAIN s.conversations -> Conversation]
  /\ \A id \in DOMAIN s.messages :
       s.messages[id].queued =>
         s.messages[id].state \in {"pending"} \cup TerminalStates
  /\ \A a \in DOMAIN s.inboxes :
       InboxEnd(s.inboxes[a]) + Cardinality(QueuedIn(s, a)) <= s.nextMessageID

\* A snapshot in which a request is taken up, ended or forgotten for good.
Settled(id, s) ==
  /\ id <= s.nextMessageID
  /\ id \in DOMAIN s.messages =>
       s.messages[id].state \in {"executing"} \cup TerminalStates

\* A snapshot that finds the original of an answered send, within the window.
Finds(r, s, t) ==
  t - r[2].at <= IdempotencyWindow =>
    r[1] \in DOMAIN s.idempotency /\ s.idempotency[r[1]] = r[2]

\* What the clients have been told holds in a snapshot.
Answered(s, told, heard, t) ==
  /\ \A id \in heard : Settled(id, s)
  /\ \A r \in told : Finds(r, s, t)

\* What a call is going to tell its client holds in a snapshot.
Promised(call, s, t) ==
  /\ call.kind = "ack" => Settled(call.msg, s)
  /\ call.kind = "send" => Finds(<<call.key, call.entry>>, s, t)

ClientTypes ==
  /\ up \in BOOLEAN
  /\ crashes \in 0..MaxCrashes
  /\ calls \in Seq(CallRecords)
  /\ Len(calls) <= MaxInFlight
  /\ cursors \in [Agents -> SUBSET (0..MaxMessages)]
  /\ received \in [Agents -> SUBSET MessageIDs]
  /\ unwritten \subseteq Agents
  /\ receipts \subseteq Key \X Entry
  /\ answeredAcks \subseteq MessageIDs

(* One snapshot is on its way at a time, and nothing is on its way in a    *)
(* process that is down.                                                   *)
Writing ==
  /\ \A v, w \in writing : v = w
  /\ \A w \in writing : w.call \in CallRecords /\ Sound(w.state)
  /\ ~up => calls = << >> /\ writing = {}

StoreInv == TypeOK /\ QueuedPending /\ EndsCounted

JsonInv ==
  /\ StoreInv
  /\ ClientTypes
  /\ Sound(file)
  /\ Writing
  /\ Answered(file, receipts, answeredAcks, clock)
  /\ up => Answered(stateSnapshot, receipts, answeredAcks, clock)
  /\ \A k \in DOMAIN calls : Promised(calls[k], stateSnapshot, clock)
  /\ \A w \in writing :
       /\ Answered(w.state, receipts, answeredAcks, clock)
       /\ Promised(w.call, w.state, clock)
       /\ Promised(w.call, stateSnapshot, clock)

(***************************************************************************)
(* Lemmas about calls and snapshots                                        *)
(***************************************************************************)

\* What the fields of a waiting call are.
LEMMA CallFields ==
  ASSUME NEW c \in CallRecords
  PROVE  /\ c.kind \in {"plain", "send", "ack", "poll"}
         /\ c.kind = "ack" => c.msg \in MessageIDs
         /\ c.kind = "send" => c.key \in Key /\ c.entry \in Entry
         /\ c.kind = "poll" => /\ c.agent \in Agents /\ c.next \in 0..MaxMessages
                               /\ c.batch \subseteq MessageIDs
BY DEF CallRecords, Plain, Sent, Heard, Polled

\* Taking one call out of the waiting ones.
LEMMA RemoveAtCalls ==
  ASSUME NEW S, NEW s \in Seq(S), NEW k \in DOMAIN s
  PROVE  /\ RemoveAt(s, k) \in Seq(S)
         /\ Len(RemoveAt(s, k)) <= Len(s)
         /\ \A j \in DOMAIN RemoveAt(s, k) :
              \E i \in DOMAIN s : RemoveAt(s, k)[j] = s[i]
<1> DEFINE front == SubSeq(s, 1, k - 1)
           back == SubSeq(s, k + 1, Len(s))
<1>1. /\ Len(s) \in Nat /\ DOMAIN s = 1..Len(s) /\ k \in 1..Len(s)
      /\ \A i \in 1..Len(s) : s[i] \in S
  BY LenProperties, ElementOfSeq
<1>2. /\ front \in Seq(S) /\ Len(front) = k - 1
      /\ \A i \in 1..k - 1 : front[i] = s[i]
  <2>1. \A i \in 1..k - 1 : s[i] \in S
    BY <1>1
  <2>2. /\ front \in Seq(S)
        /\ Len(front) = IF 1 <= k - 1 THEN (k - 1) - 1 + 1 ELSE 0
        /\ \A i \in 1..(k - 1) - 1 + 1 : front[i] = s[1 + i - 1]
    BY <1>1, <2>1, SubSeqProperties
  <2>3. \A i \in 1..k - 1 : i \in 1..(k - 1) - 1 + 1 /\ 1 + i - 1 = i
    BY <1>1
  <2> HIDE DEF front
  <2> QED
    BY <1>1, <2>2, <2>3
<1>3. /\ back \in Seq(S) /\ Len(back) = Len(s) - k
      /\ \A i \in 1..Len(s) - k : back[i] = s[k + i]
  <2>1. \A i \in k + 1..Len(s) : s[i] \in S
    BY <1>1
  <2>2. /\ back \in Seq(S)
        /\ Len(back) = IF k + 1 <= Len(s) THEN Len(s) - (k + 1) + 1 ELSE 0
        /\ \A i \in 1..Len(s) - (k + 1) + 1 : back[i] = s[(k + 1) + i - 1]
    BY <1>1, <2>1, SubSeqProperties
  <2>3. \A i \in 1..Len(s) - k :
          i \in 1..Len(s) - (k + 1) + 1 /\ (k + 1) + i - 1 = k + i
    BY <1>1
  <2> HIDE DEF back
  <2> QED
    BY <1>1, <2>2, <2>3
<1> HIDE DEF front, back
<1> DEFINE all == front \o back
<1>4. /\ all \in Seq(S)
      /\ Len(all) = Len(front) + Len(back)
      /\ \A i \in 1..Len(front) + Len(back) :
           all[i] = IF i <= Len(front) THEN front[i] ELSE back[i - Len(front)]
  BY <1>2, <1>3, ConcatProperties
<1>5. RemoveAt(s, k) = all
  BY DEF RemoveAt, front, back
<1> HIDE DEF all
<1>6. DOMAIN all = 1..Len(s) - 1 /\ Len(all) = Len(s) - 1
  <2>1. Len(front) + Len(back) = Len(s) - 1
    BY <1>1, <1>2, <1>3
  <2> QED
    BY <1>4, <2>1, LenProperties
<1>7. ASSUME NEW j \in DOMAIN all
      PROVE  \E i \in DOMAIN s : all[j] = s[i]
  <2>1. j \in 1..Len(front) + Len(back) /\ j \in Nat
        /\ k \in Nat /\ Len(front) = k - 1
    BY <1>1, <1>2, <1>3, <1>6
  <2>2. CASE j <= k - 1
    <3>1. j \in DOMAIN s /\ all[j] = s[j]
      BY <1>1, <1>2, <1>4, <2>1, <2>2
    <3> QED
      BY <3>1
  <2>3. CASE j > k - 1
    <3>1. j - (k - 1) \in 1..Len(s) - k /\ k + (j - (k - 1)) = j + 1
          /\ j + 1 \in 1..Len(s)
      BY <1>1, <1>6, <2>1, <2>3
    <3>2. all[j] = back[j - (k - 1)]
      BY <1>4, <2>1, <2>3
    <3>3. all[j] = s[j + 1]
      BY <1>3, <3>1, <3>2
    <3> QED
      BY <1>1, <3>1, <3>3
  <2> QED
    BY <2>1, <2>2, <2>3
<1>8. Len(all) <= Len(s)
  BY <1>1, <1>6
<1> QED
  BY <1>4, <1>5, <1>7, <1>8

\* The snapshot holds the runtime state.
LEMMA SnapshotFields ==
  /\ stateSnapshot.agents = agents
  /\ stateSnapshot.messages = messages
  /\ stateSnapshot.inboxes = inboxes
  /\ stateSnapshot.idempotency = idempotency
  /\ stateSnapshot.conversations = conversations
  /\ stateSnapshot.nextMessageID = nextMessageID
  /\ stateSnapshot.nextConversationID = nextConversationID
BY DEF stateSnapshot

\* Any snapshot that the store takes is one it can go on from.
LEMMA SoundSnapshot ==
  ASSUME StoreInv
  PROVE  Sound(stateSnapshot)
<1> DEFINE s == stateSnapshot
<1>1. \A a : QueuedIn(s, a) = QueuedFor(a)
  BY SnapshotFields DEF QueuedIn, QueuedFor
<1>2. \A a \in DOMAIN s.inboxes :
        InboxEnd(s.inboxes[a]) + Cardinality(QueuedIn(s, a)) <= s.nextMessageID
  BY <1>1, SnapshotFields DEF StoreInv, EndsCounted
<1>3. \A id \in DOMAIN s.messages :
        s.messages[id].queued => s.messages[id].state \in {"pending"} \cup TerminalStates
  BY SnapshotFields DEF StoreInv, QueuedPending
<1> HIDE DEF s
<1>4. /\ s.agents = agents /\ s.messages = messages /\ s.inboxes = inboxes
      /\ s.idempotency = idempotency /\ s.conversations = conversations
      /\ s.nextMessageID = nextMessageID
      /\ s.nextConversationID = nextConversationID
  BY SnapshotFields DEF s
<1>5. Sound(s)
  BY <1>2, <1>3, <1>4 DEF StoreInv, TypeOK, Sound
<1> QED
  BY <1>5 DEF s

(***************************************************************************)
(* What a step of the store does to what the clients were told             *)
(***************************************************************************)

\* The store's invariants go through every step of the store.
LEMMA RuntimeStep ==
  ASSUME StoreInv, [Next]_vars
  PROVE  StoreInv'
BY NextType, NextQueued, NextCounted DEF StoreInv

\* Time does not run backwards, and no handler is ahead of it.
LEMMA StoreTimeStep ==
  ASSUME TypeOK, [Next]_vars
  PROVE  /\ clock \in Nat /\ clock' \in Nat /\ clock <= clock'
         /\ now \in Nat /\ now <= clock
<1>1. /\ clock \in Nat /\ now \in Nat /\ now <= clock
  BY Bounds DEF TypeOK
<1>2. CASE Tick
  BY <1>1, <1>2 DEF Tick
<1>3. CASE ReadClock \/ Sweep \/ UNCHANGED vars
  BY <1>1, <1>3 DEF ReadClock, Sweep, vars
<1>4. CASE Call
  <2>1. CASE Registers \/ Creates
    <3>1. clock' = clock
      BY <2>1 DEF Registers, Creates, RegisterAgent, CreateConversation
    <3> QED
      BY <1>1, <3>1
  <2>2. CASE \E from, to \in Agents, req \in RequestIDs, type \in SendTypes,
                choice \in ConversationChoices, ttl \in MessageTTLs,
                size \in Sizes :
               SendMessage(from, to, req, type, choice, ttl, size)
    BY <1>1, <2>2 DEF SendMessage, Accept
  <2>3. CASE \E to \in Agents \cup {Nobody}, choice \in ConversationChoices,
                size \in Sizes : Inject(to, choice, size)
    BY <1>1, <2>3 DEF Inject, Accept
  <2>4. CASE \E a \in Agents, id \in MessageIDs :
               \/ \E status \in {"accepted", "rejected"} : Ack(a, id, status)
               \/ \E type \in {"progress", "final", "error"} :
                    PostEvent(a, id, type)
    BY <1>1, <2>4 DEF Ack, PostEvent, SetMessage
  <2> QED
    BY <1>4, <2>1, <2>2, <2>3, <2>4 DEF Call, Registers, Creates
<1>5. CASE \E a \in Agents, cursor \in 0..MaxMessages + 1 : PollInbox(a, cursor)
  BY <1>1, <1>5 DEF PollInbox
<1> QED
  BY <1>2, <1>3, <1>4, <1>5 DEF Next

\* The states in which an answered ack leaves a request, and what may follow.
Done == {"executing"} \cup Lifecycle!Ended

\* What is done stays done: the lifecycle goes one way.
LEMMA DoneStep ==
  ASSUME StoreInv, [Next]_vars, NEW id \in MessageIDs, Status(id) \in Done
  PROVE  Status(id)' \in Done
<1>1. Lifecycle!Next
  BY NextLifecycle DEF StoreInv
<1>2. /\ StatusMap = [i \in MessageIDs |-> Status(i)]
      /\ StatusMap' = [i \in MessageIDs |-> Status(i)']
  BY DEF StatusMap, MessageIDs
<1>3. \/ Status(id)' = Status(id)
      \/ Status(id) = "none"
      \/ Status(id)' \in Done
  BY <1>1, <1>2
  DEF Lifecycle!Next, Lifecycle!Accepted, Lifecycle!Advanced,
      Lifecycle!Forgotten, Done, Lifecycle!Ended
<1> QED
  BY <1>3 DEF Done, Lifecycle!Ended

\* A request is settled in the snapshot when its status is done.
LEMMA SettledMeansDone ==
  ASSUME TypeOK, NEW id \in MessageIDs
  PROVE  Settled(id, stateSnapshot) <=> Status(id) \in Done
<1>1. /\ id \in Nat /\ nextMessageID \in Nat
      /\ id \in DOMAIN messages => id <= nextMessageID
                                   /\ messages[id].state \in States
  BY Bounds DEF TypeOK, MessageIDs, Message
<1>2. Settled(id, stateSnapshot) <=>
        /\ id <= nextMessageID
        /\ id \in DOMAIN messages =>
             messages[id].state \in {"executing"} \cup TerminalStates
  BY SnapshotFields DEF Settled
<1> QED
  BY <1>1, <1>2
  DEF Status, Done, Lifecycle!Ended, TerminalStates, States

\* The same after a step.
LEMMA DoneMeansSettled ==
  ASSUME TypeOK', NEW id \in MessageIDs, Status(id)' \in Done
  PROVE  Settled(id, stateSnapshot')
<1>1. /\ id \in Nat /\ nextMessageID' \in Nat
      /\ id \in DOMAIN messages' => id <= nextMessageID'
                                    /\ messages'[id].state \in States
  BY Bounds DEF TypeOK, MessageIDs, Message
<1>2. /\ stateSnapshot'.nextMessageID = nextMessageID'
      /\ stateSnapshot'.messages = messages'
  BY DEF stateSnapshot
<1>3. Status(id)' = CASE id > nextMessageID' -> "none"
                      [] id \in DOMAIN messages' -> messages'[id].state
                      [] OTHER -> "gone"
  BY DEF Status, MessageIDs
<1> QED
  BY <1>1, <1>2, <1>3
  DEF Settled, Done, Lifecycle!Ended, TerminalStates, States

\* What an earlier snapshot says of settled requests and sends, a later one says.
Later(s, t, z, u) ==
  /\ \A id \in MessageIDs : Settled(id, s) => Settled(id, z)
  /\ \A r \in Key \X Entry : Finds(r, s, t) => Finds(r, z, u)

\* The same snapshot only forgets sends that have left the window.
LEMMA SameLater ==
  ASSUME NEW s, NEW t \in Nat, NEW u \in Nat, t <= u
  PROVE  Later(s, t, s, u)
<1>1. \A r \in Key \X Entry :
        u - r[2].at <= IdempotencyWindow => t - r[2].at <= IdempotencyWindow
  <2> TAKE r \in Key \X Entry
  <2>1. r[2].at \in Nat /\ IdempotencyWindow \in Nat
    BY ConfigAssumption DEF Entry
  <2> QED
    BY <2>1
<1> QED
  BY <1>1 DEF Later, Finds

(* A step of the store keeps the entry of every send that is still within  *)
(* the window: a sweep drops only what is stale, and a send overwrites     *)
(* only what is no duplicate.                                              *)
LEMMA EntriesStep ==
  ASSUME TypeOK, [Next]_vars, NEW key \in Key, NEW e \in Entry,
         clock' - e.at <= IdempotencyWindow,
         key \in DOMAIN idempotency, idempotency[key] = e
  PROVE  key \in DOMAIN idempotency' /\ idempotency'[key] = e
<1>1. /\ clock \in Nat /\ clock' \in Nat /\ clock <= clock'
      /\ now \in Nat /\ now <= clock
  BY StoreTimeStep
<1>2. e.at \in Nat /\ IdempotencyWindow \in Nat
  BY ConfigAssumption DEF Entry
<1>3. now - e.at <= IdempotencyWindow
  BY <1>1, <1>2
<1>4. CASE Sweep
  <2>1. key \in KeptEntries
    BY <1>2, <1>3, <1>1 DEF KeptEntries, StaleEntry
  <2> QED
    BY <1>4, <2>1 DEF Sweep
<1>5. CASE \E from, to \in Agents, req \in RequestIDs, type \in SendTypes,
              choice \in ConversationChoices, ttl \in MessageTTLs,
              size \in Sizes :
             SendMessage(from, to, req, type, choice, ttl, size)
  <2>1. PICK from, to \in Agents, req \in RequestIDs :
          /\ ~Duplicate(<<from, to, req>>)
          /\ idempotency' = Put(idempotency, <<from, to, req>>,
                                [msg |-> nextMessageID + 1, at |-> now])
    BY <1>5 DEF SendMessage
  <2>2. key # <<from, to, req>>
    BY <1>3, <2>1 DEF Duplicate
  <2> QED
    BY <2>1, <2>2 DEF Put
<1>6. CASE UNCHANGED idempotency
  BY <1>6
<1>7. \/ Sweep
      \/ \E from, to \in Agents, req \in RequestIDs, type \in SendTypes,
            choice \in ConversationChoices, ttl \in MessageTTLs,
            size \in Sizes :
           SendMessage(from, to, req, type, choice, ttl, size)
      \/ UNCHANGED idempotency
  BY DEF Next, vars, Tick, ReadClock, Call, RegisterAgent, CreateConversation,
         Inject, Ack, PostEvent, SetMessage, PollInbox
<1> QED
  BY <1>4, <1>5, <1>6, <1>7

\* A step of the store says no less than the state before.
LEMMA StoreLater ==
  ASSUME StoreInv, [Next]_vars
  PROVE  Later(stateSnapshot, clock, stateSnapshot', clock')
<1>1. TypeOK /\ StoreInv'
  BY RuntimeStep DEF StoreInv
<1>2. \A id \in MessageIDs :
        Settled(id, stateSnapshot) => Settled(id, stateSnapshot')
  BY <1>1, SettledMeansDone, DoneStep, DoneMeansSettled DEF StoreInv
<1>3. ASSUME NEW r \in Key \X Entry, Finds(r, stateSnapshot, clock),
             clock' - r[2].at <= IdempotencyWindow
      PROVE  r[1] \in DOMAIN idempotency' /\ idempotency'[r[1]] = r[2]
  <2>1. /\ r[1] \in Key /\ r[2] \in Entry /\ r[2].at \in Nat
        /\ IdempotencyWindow \in Nat
    BY <1>3, ConfigAssumption DEF Entry
  <2>2. clock - r[2].at <= IdempotencyWindow
    BY <1>1, <1>3, <2>1, StoreTimeStep
  <2>3. r[1] \in DOMAIN idempotency /\ idempotency[r[1]] = r[2]
    BY <1>3, <2>2, SnapshotFields DEF Finds
  <2> QED
    BY <1>1, <1>3, <2>1, <2>3, EntriesStep
<1>4. stateSnapshot'.idempotency = idempotency'
  BY DEF stateSnapshot
<1>5. \A r \in Key \X Entry :
        Finds(r, stateSnapshot, clock) => Finds(r, stateSnapshot', clock')
  BY <1>3, <1>4 DEF Finds
<1> QED
  BY <1>2, <1>5 DEF Later

\* What the clients were told, from one snapshot to a later one.
LEMMA AnsweredLater ==
  ASSUME NEW s, NEW t, NEW z, NEW u, Later(s, t, z, u),
         NEW told \in SUBSET (Key \X Entry), NEW heard \in SUBSET MessageIDs,
         Answered(s, told, heard, t)
  PROVE  Answered(z, told, heard, u)
BY DEF Later, Answered

\* What a call will tell, from one snapshot to a later one.
LEMMA PromisedLater ==
  ASSUME NEW s, NEW t, NEW z, NEW u, Later(s, t, z, u),
         NEW c \in CallRecords, Promised(c, s, t)
  PROVE  Promised(c, z, u)
<1>1. /\ c.kind = "ack" => c.msg \in MessageIDs
      /\ c.kind = "send" => <<c.key, c.entry>> \in Key \X Entry
  BY CallFields
<1> QED
  BY <1>1 DEF Later, Promised

\* The calls that wait are call records.
LEMMA WaitingCalls ==
  ASSUME ClientTypes
  PROVE  \A k \in DOMAIN calls : calls[k] \in CallRecords
BY LenProperties, ElementOfSeq DEF ClientTypes

(* A step of the store, whatever it does to calls and clients, keeps what  *)
(* was said of the snapshots and calls there were.                         *)
LEMMA StepKept ==
  ASSUME JsonInv, [Next]_vars
  PROVE  /\ StoreInv'
         /\ Answered(file, receipts, answeredAcks, clock')
         /\ up => Answered(stateSnapshot', receipts, answeredAcks, clock')
         /\ \A k \in DOMAIN calls : Promised(calls[k], stateSnapshot', clock')
         /\ \A w \in writing :
              /\ Answered(w.state, receipts, answeredAcks, clock')
              /\ Promised(w.call, w.state, clock')
              /\ Promised(w.call, stateSnapshot', clock')
<1> DEFINE t == clock
           u == clock'
           s == stateSnapshot
           z == stateSnapshot'
<1>1. StoreInv /\ TypeOK /\ StoreInv'
  BY RuntimeStep DEF JsonInv, StoreInv
<1>2. t \in Nat /\ u \in Nat /\ t <= u
  BY <1>1, StoreTimeStep
<1>3. Later(s, t, z, u) /\ \A any : Later(any, t, any, u)
  BY <1>1, <1>2, StoreLater, SameLater
<1>4. receipts \in SUBSET (Key \X Entry) /\ answeredAcks \in SUBSET MessageIDs
  BY DEF JsonInv, ClientTypes
<1>5. /\ \A k \in DOMAIN calls : calls[k] \in CallRecords
      /\ \A w \in writing : w.call \in CallRecords
  BY WaitingCalls DEF JsonInv, Writing
<1>6. /\ Answered(file, receipts, answeredAcks, t)
      /\ up => Answered(s, receipts, answeredAcks, t)
      /\ \A k \in DOMAIN calls : Promised(calls[k], s, t)
      /\ \A w \in writing :
           /\ Answered(w.state, receipts, answeredAcks, t)
           /\ Promised(w.call, w.state, t)
           /\ Promised(w.call, s, t)
  BY DEF JsonInv
<1> HIDE DEF s, z, t, u
<1>7. /\ Answered(file, receipts, answeredAcks, u)
      /\ up => Answered(z, receipts, answeredAcks, u)
  BY <1>3, <1>4, <1>6, AnsweredLater
<1>8. \A k \in DOMAIN calls : Promised(calls[k], z, u)
  BY <1>3, <1>5, <1>6, PromisedLater
<1>9. \A w \in writing :
        /\ Answered(w.state, receipts, answeredAcks, u)
        /\ Promised(w.call, w.state, u)
        /\ Promised(w.call, z, u)
  BY <1>3, <1>4, <1>5, <1>6, AnsweredLater, PromisedLater
<1> QED
  BY <1>1, <1>7, <1>8, <1>9 DEF z, u

(***************************************************************************)
(* The steps of the backend                                                *)
(***************************************************************************)

\* Steps of the store that nobody is told of: time, sweeps, polls that sleep.
LEMMA JsonQuietStep ==
  ASSUME JsonInv, [Next]_vars,
         UNCHANGED <<file, up, crashes, calls, writing, jsonClients>>
  PROVE  JsonInv'
<1>1. UNCHANGED <<file, up, crashes, calls, writing, cursors, received,
                  unwritten, receipts, answeredAcks>>
  BY DEF jsonClients
<1>2. ClientTypes' /\ Writing' /\ Sound(file)'
  BY <1>1 DEF JsonInv, ClientTypes, Writing
<1> QED
  BY <1>1, <1>2, StepKept DEF JsonInv

\* A poll that has nothing to persist is answered at once.
LEMMA AnsweredPoll ==
  ASSUME JsonInv, [Next]_vars,
         UNCHANGED <<file, up, crashes, calls, writing, unwritten, receipts, answeredAcks>>,
         cursors' \in [Agents -> SUBSET (0..MaxMessages)],
         received' \in [Agents -> SUBSET MessageIDs]
  PROVE  JsonInv'
<1>1. ClientTypes' /\ Writing' /\ Sound(file)'
  BY DEF JsonInv, ClientTypes, Writing
<1> QED
  BY <1>1, StepKept DEF JsonInv

\* A call that has changed the store, or has found its answer there, waits.
LEMMA EnterStep ==
  ASSUME JsonInv, up, [Next]_vars, NEW c \in CallRecords, Enter(c),
         Promised(c, stateSnapshot', clock')
  PROVE  JsonInv'
<1>1. /\ Len(calls) < MaxInFlight
      /\ calls' = Append(calls, c)
      /\ UNCHANGED <<file, up, crashes, writing, cursors, received, unwritten,
                     receipts, answeredAcks>>
  BY DEF Enter, jsonClients
<1>2. calls \in Seq(CallRecords) /\ MaxInFlight \in Nat
  BY BackendAssumption DEF JsonInv, ClientTypes
<1>3. /\ calls' \in Seq(CallRecords) /\ Len(calls) \in Nat
      /\ Len(calls') = Len(calls) + 1
      /\ \A k \in 1..Len(calls) : calls'[k] = calls[k]
      /\ calls'[Len(calls) + 1] = c
      /\ DOMAIN calls = 1..Len(calls) /\ DOMAIN calls' = 1..Len(calls')
  BY <1>1, <1>2, AppendProperties, LenProperties
<1>4. ClientTypes'
  BY <1>1, <1>2, <1>3 DEF JsonInv, ClientTypes
<1>5. Writing' /\ Sound(file)'
  BY <1>1 DEF JsonInv, Writing
<1>6. \A k \in DOMAIN calls' : Promised(calls'[k], stateSnapshot', clock')
  <2>1. \A k \in DOMAIN calls : Promised(calls[k], stateSnapshot', clock')
    BY StepKept
  <2>2. \A k \in DOMAIN calls' : k \in DOMAIN calls \/ k = Len(calls) + 1
    BY <1>3
  <2> QED
    BY <1>3, <2>1, <2>2
<1> QED
  BY <1>1, <1>4, <1>5, <1>6, StepKept DEF JsonInv

\* persist takes its snapshot: everything said so far holds in it.
LEMMA BeginPersistStep ==
  ASSUME JsonInv, NEW k \in DOMAIN calls, BeginPersist(k)
  PROVE  JsonInv'
<1>1. /\ writing = {}
      /\ writing' = {[call |-> calls[k], state |-> stateSnapshot]}
      /\ calls' = RemoveAt(calls, k)
      /\ UNCHANGED <<vars, file, up, crashes, cursors, received, unwritten,
                     receipts, answeredAcks>>
  BY DEF BeginPersist, jsonClients
<1>2. /\ calls \in Seq(CallRecords) /\ calls[k] \in CallRecords
      /\ Len(calls) \in Nat /\ Len(calls) <= MaxInFlight /\ MaxInFlight \in Nat
      /\ calls # << >>
  BY WaitingCalls, LenProperties, BackendAssumption DEF JsonInv, ClientTypes
<1>3. up
  BY <1>2 DEF JsonInv, Writing, ClientTypes
<1>4. /\ calls' \in Seq(CallRecords) /\ Len(calls') <= Len(calls)
      /\ \A j \in DOMAIN calls' : \E i \in DOMAIN calls : calls'[j] = calls[i]
  BY <1>1, <1>2, RemoveAtCalls
<1>5. ClientTypes'
  <2>1. Len(calls') \in Nat
    BY <1>4, LenProperties
  <2>2. Len(calls') <= MaxInFlight
    BY <1>2, <1>4, <2>1
  <2> QED
    BY <1>1, <1>4, <2>2 DEF JsonInv, ClientTypes
<1>6. Sound(stateSnapshot)
  BY SoundSnapshot DEF JsonInv
<1>7. Writing'
  BY <1>1, <1>2, <1>3, <1>6 DEF Writing
<1>8. stateSnapshot' = stateSnapshot /\ clock' = clock
  BY <1>1 DEF vars, stateSnapshot
<1>9. StoreInv' /\ Sound(file)'
  <2>1. StoreInv'
    BY <1>1, StepKept
  <2> QED
    BY <1>1, <2>1 DEF JsonInv
<1>10. \A j \in DOMAIN calls' : Promised(calls'[j], stateSnapshot, clock)
  BY <1>4 DEF JsonInv
<1>11. /\ Answered(stateSnapshot, receipts, answeredAcks, clock)
       /\ Promised(calls[k], stateSnapshot, clock)
       /\ Answered(file, receipts, answeredAcks, clock)
  BY <1>3 DEF JsonInv
<1> QED
  BY <1>1, <1>5, <1>7, <1>8, <1>9, <1>10, <1>11 DEF JsonInv

\* What a snapshot promises, it holds once the client has been told.
LEMMA AnsweredMore ==
  ASSUME NEW s, NEW t, NEW c \in CallRecords, NEW told, NEW heard,
         Answered(s, told, heard, t), Promised(c, s, t)
  PROVE  Answered(s, IF c.kind = "send" THEN told \cup {<<c.key, c.entry>>} ELSE told,
                  IF c.kind = "ack" THEN heard \cup {c.msg} ELSE heard, t)
BY DEF Answered, Promised

(* persist ends.  The file is what it was or the snapshot, and both hold   *)
(* what has been answered; the answer to this call is only given when the  *)
(* file is the snapshot.                                                   *)
LEMMA EndPersistStep ==
  ASSUME JsonInv, NEW w \in writing, NEW written \in BOOLEAN,
         NEW arrives \in BOOLEAN, EndPersist(w, written, arrives)
  PROVE  JsonInv'
<1> DEFINE c == w.call
           tells == arrives /\ (written \/ c.kind = "poll")
<1>1. /\ writing' = writing \ {w}
      /\ file' = IF written THEN w.state ELSE file
      /\ IF tells THEN Answer(c, written) ELSE UNCHANGED jsonClients
      /\ UNCHANGED <<vars, up, crashes, calls>>
  BY DEF EndPersist
<1>2. /\ \A v \in writing : v = w
      /\ c \in CallRecords /\ Sound(w.state) /\ up
  BY DEF JsonInv, Writing, ClientTypes
<1>3. writing' = {}
  BY <1>1, <1>2
<1>4. /\ c.kind \in {"plain", "send", "ack", "poll"}
      /\ c.kind = "ack" => c.msg \in MessageIDs
      /\ c.kind = "send" => c.key \in Key /\ c.entry \in Entry
      /\ c.kind = "poll" => /\ c.agent \in Agents /\ c.next \in 0..MaxMessages
                            /\ c.batch \subseteq MessageIDs
  BY <1>2, CallFields
<1> HIDE DEF c
<1>5. ClientTypes' /\ Writing' /\ Sound(file)' /\ StoreInv'
  <2>1. StoreInv'
    BY <1>1, StepKept
  <2>2. Sound(file')
    BY <1>1, <1>2 DEF JsonInv
  <2>3. Writing'
    BY <1>1, <1>2, <1>3 DEF Writing
  <2>4. /\ cursors' \in [Agents -> SUBSET (0..MaxMessages)]
        /\ received' \in [Agents -> SUBSET MessageIDs]
        /\ unwritten' \subseteq Agents
        /\ receipts' \subseteq Key \X Entry
        /\ answeredAcks' \subseteq MessageIDs
    <3>1. CASE tells
      <4>1. /\ unwritten' = IF written THEN unwritten ELSE unwritten \cup {c.agent}
            /\ receipts' = IF c.kind = "send"
                           THEN receipts \cup {<<c.key, c.entry>>} ELSE receipts
            /\ answeredAcks' = IF c.kind = "ack" THEN answeredAcks \cup {c.msg} ELSE answeredAcks
            /\ cursors' = IF c.kind # "poll" THEN cursors
                          ELSE [cursors EXCEPT ![c.agent] = @ \cup {c.next}]
            /\ received' = IF c.kind # "poll" THEN received
                           ELSE [received EXCEPT ![c.agent] = @ \cup c.batch]
        BY <1>1, <3>1 DEF Answer
      <4> QED
        BY <1>4, <3>1, <4>1 DEF JsonInv, ClientTypes
    <3>2. CASE ~tells
      BY <1>1, <3>2 DEF JsonInv, ClientTypes, jsonClients
    <3> QED
      BY <3>1, <3>2
  <2>5. ClientTypes'
    BY <1>1, <2>4 DEF JsonInv, ClientTypes
  <2> QED
    BY <2>1, <2>2, <2>3, <2>5
<1>6. /\ Answered(file, receipts, answeredAcks, clock)
      /\ Answered(stateSnapshot, receipts, answeredAcks, clock)
      /\ Answered(w.state, receipts, answeredAcks, clock)
      /\ Promised(c, w.state, clock)
      /\ Promised(c, stateSnapshot, clock)
      /\ \A k \in DOMAIN calls : Promised(calls[k], stateSnapshot, clock)
  BY <1>2 DEF JsonInv, c
<1>7. Answered(file', receipts', answeredAcks', clock)
      /\ Answered(stateSnapshot, receipts', answeredAcks', clock)
  <2>1. CASE tells /\ written
    <3>1. /\ receipts' = IF c.kind = "send"
                         THEN receipts \cup {<<c.key, c.entry>>} ELSE receipts
          /\ answeredAcks' = IF c.kind = "ack" THEN answeredAcks \cup {c.msg} ELSE answeredAcks
          /\ file' = w.state
      BY <1>1, <2>1 DEF Answer
    <3> QED
      BY <1>2, <1>6, <3>1, AnsweredMore DEF c
  <2>2. CASE ~(tells /\ written)
    <3>1. receipts' = receipts /\ answeredAcks' = answeredAcks
      BY <1>1, <1>4, <2>2 DEF Answer, jsonClients
    <3>2. file' = file \/ file' = w.state
      BY <1>1
    <3> QED
      BY <1>6, <3>1, <3>2
  <2> QED
    BY <2>1, <2>2
<1>8. stateSnapshot' = stateSnapshot /\ clock' = clock
  BY <1>1 DEF vars, stateSnapshot
<1> QED
  BY <1>1, <1>3, <1>5, <1>6, <1>7, <1>8 DEF JsonInv

\* A crash leaves the file.
LEMMA JsonCrashStep ==
  ASSUME JsonInv, JsonCrash
  PROVE  JsonInv'
<1>1. /\ crashes < MaxCrashes /\ crashes' = crashes + 1 /\ up' = FALSE
      /\ lastSweepAt' = 0
      /\ agents' = << >> /\ messages' = << >> /\ inboxes' = << >>
      /\ idempotency' = << >> /\ conversations' = << >>
      /\ nextMessageID' = 0 /\ nextConversationID' = 0
      /\ calls' = << >> /\ writing' = {}
      /\ UNCHANGED <<clock, now, file, cursors, received, unwritten, receipts,
                     answeredAcks>>
  BY DEF JsonCrash, jsonClients
<1>2. StoreInv'
  <2>1. TypeOK'
    BY <1>1, Bounds DEF JsonInv, StoreInv, TypeOK
  <2>2. QueuedPending' /\ EndsCounted'
    BY <1>1 DEF QueuedPending, EndsCounted
  <2> QED
    BY <2>1, <2>2 DEF StoreInv
<1>3. ClientTypes'
  <2>1. MaxCrashes \in Nat /\ MaxInFlight \in Nat
    BY BackendAssumption
  <2>2. crashes' \in 0..MaxCrashes
    BY <1>1, <2>1 DEF JsonInv, ClientTypes
  <2>3. calls' \in Seq(CallRecords) /\ Len(calls') <= MaxInFlight
    BY <1>1, <2>1
  <2> QED
    BY <1>1, <2>2, <2>3 DEF JsonInv, ClientTypes
<1>4. Writing'
  BY <1>1 DEF Writing
<1>5. Sound(file)' /\ Answered(file, receipts, answeredAcks, clock)'
  BY <1>1 DEF JsonInv
<1> QED
  BY <1>1, <1>2, <1>3, <1>4, <1>5 DEF JsonInv

\* load makes the file the runtime state.
LEMMA JsonRestartStep ==
  ASSUME JsonInv, JsonRestart
  PROVE  JsonInv'
<1>1. /\ up' = TRUE /\ calls = << >> /\ writing = {}
      /\ agents' = file.agents /\ messages' = file.messages
      /\ inboxes' = file.inboxes /\ idempotency' = file.idempotency
      /\ conversations' = file.conversations
      /\ nextMessageID' = file.nextMessageID
      /\ nextConversationID' = file.nextConversationID
      /\ received' = [a \in Agents |-> received[a] \cap (1..file.nextMessageID)]
      /\ UNCHANGED <<clock, now, lastSweepAt, file, crashes, calls, writing,
                     cursors, unwritten, receipts, answeredAcks>>
  BY DEF JsonRestart, ReadMessageID, JsonInv, Writing
<1>2. Sound(file) /\ TypeOK
  BY DEF JsonInv, StoreInv
<1>3. StoreInv'
  <2>1. TypeOK'
    BY <1>1, <1>2 DEF Sound, TypeOK
  <2>2. QueuedPending'
    BY <1>1, <1>2 DEF Sound, QueuedPending
  <2>3. \A a : QueuedFor(a)' = QueuedIn(file, a)
    BY <1>1 DEF QueuedFor, QueuedIn
  <2>4. \A a \in DOMAIN file.inboxes :
          InboxEnd(file.inboxes[a]) + Cardinality(QueuedIn(file, a))
            <= file.nextMessageID
    BY <1>2 DEF Sound
  <2>5. EndsCounted'
    BY <1>1, <2>3, <2>4 DEF EndsCounted
  <2> QED
    BY <2>1, <2>2, <2>5 DEF StoreInv
<1>4. ClientTypes'
  BY <1>1 DEF JsonInv, ClientTypes
<1>5. Writing' /\ Sound(file)'
  BY <1>1, <1>2 DEF Writing
<1>6. stateSnapshot' =
        [agents |-> file.agents, messages |-> file.messages,
         inboxes |-> file.inboxes, idempotency |-> file.idempotency,
         conversations |-> file.conversations,
         nextMessageID |-> file.nextMessageID,
         nextConversationID |-> file.nextConversationID]
  BY <1>1 DEF stateSnapshot
<1>7. Answered(file, receipts, answeredAcks, clock) /\ Answered(file, receipts, answeredAcks, clock)'
  BY <1>1 DEF JsonInv
<1>8. Answered(stateSnapshot', receipts, answeredAcks, clock)
  <2> DEFINE z == stateSnapshot'
  <2>1. z.messages = file.messages /\ z.idempotency = file.idempotency
        /\ z.nextMessageID = file.nextMessageID
    BY <1>6
  <2> HIDE DEF z
  <2>2. Answered(z, receipts, answeredAcks, clock)
    BY <1>7, <2>1 DEF Answered, Settled, Finds
  <2> QED
    BY <2>2 DEF z
<1> QED
  BY <1>1, <1>3, <1>4, <1>5, <1>7, <1>8 DEF JsonInv

\* The steps of the store's handlers are steps of the store.
LEMMA PlainCall ==
  ASSUME JsonInv, up, [Next]_vars, Enter(Plain)
  PROVE  JsonInv'
<1>1. Plain \in CallRecords /\ Promised(Plain, stateSnapshot', clock')
  BY DEF CallRecords, Plain, Promised
<1> QED
  BY <1>1, EnterStep

\* A call that will report an ack of a message that has left the queue.
LEMMA HeardCall ==
  ASSUME JsonInv, up, [Next]_vars, NEW id \in MessageIDs, Enter(Heard(id)),
         id \in DOMAIN messages',
         messages'[id].state \in {"executing"} \cup TerminalStates
  PROVE  JsonInv'
<1>1. TypeOK'
  BY StepKept DEF StoreInv
<1>2. id <= nextMessageID'
  BY <1>1, Bounds DEF TypeOK
<1>3. /\ stateSnapshot'.messages = messages'
      /\ stateSnapshot'.nextMessageID = nextMessageID'
  BY DEF stateSnapshot
<1>4. Settled(id, stateSnapshot')
  BY <1>2, <1>3 DEF Settled
<1>5. Heard(id) \in CallRecords /\ Promised(Heard(id), stateSnapshot', clock')
  BY <1>4 DEF CallRecords, Heard, Promised
<1> QED
  BY <1>5, EnterStep

\* A call that will report a message sent before or just now.
LEMMA SentCall ==
  ASSUME JsonInv, up, [Next]_vars, NEW key \in Key,
         key \in DOMAIN idempotency', Enter(Sent(key, idempotency'[key]))
  PROVE  JsonInv'
<1> DEFINE e == idempotency'[key]
<1>1. TypeOK'
  BY StepKept DEF StoreInv
<1>2. e \in Entry
  BY <1>1 DEF TypeOK
<1>3. stateSnapshot'.idempotency = idempotency'
  BY DEF stateSnapshot
<1> DEFINE z == stateSnapshot'
<1>4. key \in DOMAIN z.idempotency /\ z.idempotency[key] = e
  BY <1>3
<1> HIDE DEF e, z
<1>5. /\ Sent(key, e).kind = "send" /\ Sent(key, e).key = key
      /\ Sent(key, e).entry = e /\ Sent(key, e) \in CallRecords
  BY <1>2 DEF Sent, CallRecords
<1>6. Finds(<<key, e>>, z, clock')
  BY <1>4 DEF Finds
<1>7. Promised(Sent(key, e), z, clock')
  BY <1>5, <1>6 DEF Promised
<1> QED
  BY <1>5, <1>7, EnterStep DEF e, z

\* ack, and events that say more than "still queued".
LEMMA JsonAckStep ==
  ASSUME JsonInv, up, NEW a \in Agents, NEW id \in MessageIDs,
         NEW status \in {"accepted", "rejected"}, JsonAck(a, id, status)
  PROVE  JsonInv'
<1>1. /\ id \in DOMAIN messages /\ Ack(a, id, status) /\ Enter(Heard(id))
      /\ messages' = [messages EXCEPT ![id] = AckedMessage(messages[id], status)]
  BY DEF JsonAck, Ack, SetMessage
<1>2. [Next]_vars
  BY <1>1 DEF Next, Call
<1>3. messages[id] \in Message
  BY <1>1 DEF JsonInv, StoreInv, TypeOK
<1>4. AckedMessage(messages[id], status).state \in {"executing", "rejected"}
  BY <1>3 DEF AckedMessage, Message
<1>5. id \in DOMAIN messages'
      /\ messages'[id].state \in {"executing"} \cup TerminalStates
  BY <1>1, <1>4 DEF TerminalStates
<1> QED
  BY <1>1, <1>2, <1>5, HeardCall

\* postEvent.
LEMMA JsonEventStep ==
  ASSUME JsonInv, up, NEW a \in Agents, NEW id \in MessageIDs,
         NEW type \in {"progress", "final", "error"}, JsonEvent(a, id, type)
  PROVE  JsonInv'
<1>1. /\ id \in DOMAIN messages /\ PostEvent(a, id, type)
      /\ Enter(IF messages'[id].state = "pending" THEN Plain ELSE Heard(id))
      /\ Pending(messages[id])
  BY DEF JsonEvent, PostEvent
<1>2. [Next]_vars
  BY <1>1 DEF Next, Call
<1>3. messages[id] \in Message
  BY <1>1 DEF JsonInv, StoreInv, TypeOK
<1>4. PICK n : /\ messages' = [messages EXCEPT ![id] = n]
               /\ n = ProgressedMessage(messages[id])
                  \/ n = FinishedMessage(messages[id], type)
  BY <1>1 DEF PostEvent, SetMessage
<1>5. id \in DOMAIN messages' /\ messages'[id] = n
  BY <1>1, <1>4
<1>6. n.state \in {"pending", "executing"} \cup TerminalStates
  <2>1. CASE n = ProgressedMessage(messages[id])
    BY <1>1, <1>3, <2>1
    DEF ProgressedMessage, Message, States, TerminalStates, Pending, isTerminal
  <2>2. CASE n = FinishedMessage(messages[id], type)
    BY <1>3, <2>2 DEF FinishedMessage, Message, TerminalStates
  <2> QED
    BY <1>4, <2>1, <2>2
<1>7. CASE n.state = "pending"
  BY <1>1, <1>2, <1>5, <1>7, PlainCall
<1>8. CASE n.state # "pending"
  <2>1. Enter(Heard(id))
    BY <1>1, <1>5, <1>8
  <2>2. messages'[id].state \in {"executing"} \cup TerminalStates
    BY <1>5, <1>6, <1>8
  <2> QED
    BY <1>2, <1>5, <2>1, <2>2, HeardCall
<1> QED
  BY <1>7, <1>8

\* sendMessage, accepted or found to be a duplicate.
LEMMA JsonSendStep ==
  ASSUME JsonInv, up, NEW from \in Agents, NEW to \in Agents,
         NEW req \in RequestIDs, <<from, to>> \in Routes,
         \/ \E type \in SendTypes, choice \in ConversationChoices,
              ttl \in MessageTTLs, size \in Sizes :
              JsonSend(from, to, req, type, choice, ttl, size)
         \/ JsonRetry(from, to, req)
  PROVE  JsonInv'
<1> DEFINE key == <<from, to, req>>
<1>1. key \in Key
  BY DEF Key
<1>2. CASE \E type \in SendTypes, choice \in ConversationChoices,
              ttl \in MessageTTLs, size \in Sizes :
             JsonSend(from, to, req, type, choice, ttl, size)
  <2>1. PICK type \in SendTypes, choice \in ConversationChoices,
             ttl \in MessageTTLs, size \in Sizes :
          JsonSend(from, to, req, type, choice, ttl, size)
    BY <1>2
  <2>2. /\ SendMessage(from, to, req, type, choice, ttl, size)
        /\ Enter(Sent(key, idempotency'[key]))
    BY <2>1 DEF JsonSend
  <2>3. [Next]_vars
    BY <2>2 DEF Next, Call
  <2>4. key \in DOMAIN idempotency'
    BY <2>2 DEF SendMessage, Put
  <2> HIDE DEF key
  <2> QED
    BY <1>1, <2>2, <2>3, <2>4, SentCall
<1>3. CASE JsonRetry(from, to, req)
  <2>1. /\ key \in DOMAIN idempotency /\ UNCHANGED vars
        /\ Enter(Sent(key, idempotency[key]))
    BY <1>3 DEF JsonRetry, Duplicate
  <2>2. idempotency' = idempotency
    BY <2>1 DEF vars
  <2> HIDE DEF key
  <2> QED
    BY <1>1, <2>1, <2>2, SentCall
<1> QED
  BY <1>2, <1>3

\* PollInbox: with something to say, without, or going to sleep.
LEMMA JsonPollStep ==
  ASSUME JsonInv, up, NEW a \in Agents, NEW limit \in Limits,
         NEW waits \in BOOLEAN, NEW cursor \in cursors[a],
         JsonPoll(a, cursor, limit, waits)
  PROVE  JsonInv'
<1> DEFINE box == inboxes[a]
           out == PollResult(box, cursor, limit)
           next == NextCursor(box, cursor, limit)
           batch == {out[k].msg : k \in DOMAIN out}
<1>1. /\ PollInbox(a, cursor)
      /\ \/ Enter(Polled(a, next, batch))
         \/ /\ cursors' = [cursors EXCEPT ![a] = @ \cup {next}]
            /\ received' = [received EXCEPT ![a] = @ \cup batch]
            /\ UNCHANGED <<file, up, crashes, calls, writing, unwritten, receipts,
                           answeredAcks>>
         \/ UNCHANGED <<file, up, crashes, calls, writing, jsonClients>>
  BY DEF JsonPoll
<1>2. cursor \in 0..MaxMessages /\ cursor \in Nat /\ limit \in Nat
      /\ cursor \in 0..MaxMessages + 1
  BY BackendAssumption, Bounds DEF JsonInv, ClientTypes
<1>3. [Next]_vars
  BY <1>1, <1>2 DEF Next
<1>4. a \in DOMAIN inboxes /\ box \in Inbox
  BY <1>1 DEF PollInbox, Active, JsonInv, StoreInv, TypeOK
<1>5. next \in 0..MaxMessages
  BY <1>2, <1>4, NextCursorInRange DEF JsonInv, StoreInv
<1>6. batch \subseteq MessageIDs
  BY <1>2, <1>4, PollResultType
<1> HIDE DEF box, out, next, batch
<1>7. CASE Enter(Polled(a, next, batch))
  <2>1. Polled(a, next, batch) \in CallRecords
    BY <1>5, <1>6 DEF CallRecords, Polled
  <2>2. Promised(Polled(a, next, batch), stateSnapshot', clock')
    BY DEF Polled, Promised
  <2> QED
    BY <1>3, <1>7, <2>1, <2>2, EnterStep
<1>8. CASE /\ cursors' = [cursors EXCEPT ![a] = @ \cup {next}]
           /\ received' = [received EXCEPT ![a] = @ \cup batch]
           /\ UNCHANGED <<file, up, crashes, calls, writing, unwritten, receipts,
                          answeredAcks>>
  <2>1. /\ cursors' \in [Agents -> SUBSET (0..MaxMessages)]
        /\ received' \in [Agents -> SUBSET MessageIDs]
    BY <1>5, <1>6, <1>8 DEF JsonInv, ClientTypes
  <2> QED
    BY <1>3, <1>8, <2>1, AnsweredPoll
<1>9. CASE UNCHANGED <<file, up, crashes, calls, writing, jsonClients>>
  BY <1>3, <1>9, JsonQuietStep
<1> QED
  BY <1>1, <1>7, <1>8, <1>9

\* Every call.
LEMMA JsonCallStep ==
  ASSUME JsonInv, up, JsonCall
  PROVE  JsonInv'
<1>1. CASE \E a \in Agents, ttl \in RegistrationTTLs, mode \in Modes :
             JsonRegister(a, ttl, mode)
  <2>1. [Next]_vars /\ Enter(Plain)
    BY <1>1 DEF JsonRegister, Next, Call
  <2> QED
    BY <2>1, PlainCall
<1>2. CASE \E actor \in Agents \cup {Nobody}, choice \in ConversationChoices,
              names \in ParticipantChoices : JsonCreate(actor, choice, names)
  <2>1. PICK actor \in Agents \cup {Nobody}, choice \in ConversationChoices,
             names \in ParticipantChoices :
          /\ CreateConversation(actor, choice, names)
          /\ \/ Enter(Plain)
             \/ UNCHANGED <<file, up, crashes, calls, writing, jsonClients>>
    BY <1>2 DEF JsonCreate
  <2>2. [Next]_vars
    BY <2>1 DEF Next, Call
  <2> QED
    BY <2>1, <2>2, PlainCall, JsonQuietStep
<1>3. CASE \E from, to \in Agents, req \in RequestIDs :
             /\ <<from, to>> \in Routes
             /\ \/ \E type \in SendTypes, choice \in ConversationChoices,
                     ttl \in MessageTTLs, size \in Sizes :
                     JsonSend(from, to, req, type, choice, ttl, size)
                \/ JsonRetry(from, to, req)
  BY <1>3, JsonSendStep
<1>4. CASE \E to \in Agents \cup {Nobody}, choice \in ConversationChoices,
              size \in Sizes :
             <<Human, to>> \in Routes /\ JsonInject(to, choice, size)
  <2>1. [Next]_vars /\ Enter(Plain)
    BY <1>4 DEF JsonInject, Next, Call
  <2> QED
    BY <2>1, PlainCall
<1>5. CASE \E a \in Agents, id \in MessageIDs, status \in {"accepted", "rejected"} :
             JsonAck(a, id, status)
  BY <1>5, JsonAckStep
<1>6. CASE \E a \in Agents, id \in MessageIDs,
              type \in {"progress", "final", "error"} : JsonEvent(a, id, type)
  BY <1>6, JsonEventStep
<1>7. CASE \E a \in Agents, id \in MessageIDs : JsonLate(a, id)
  <2>1. PICK a \in Agents, id \in MessageIDs :
          /\ id \in DOMAIN messages /\ isTerminal(messages[id].state)
          /\ Enter(Heard(id)) /\ UNCHANGED vars
    BY <1>7 DEF JsonLate
  <2>2. messages' = messages /\ [Next]_vars
    BY <2>1 DEF vars
  <2> QED
    BY <2>1, <2>2, HeardCall DEF isTerminal
<1>8. CASE \E a \in Agents, limit \in Limits, waits \in BOOLEAN :
             \E cursor \in cursors[a] : JsonPoll(a, cursor, limit, waits)
  BY <1>8, JsonPollStep
<1> QED
  BY <1>1, <1>2, <1>3, <1>4, <1>5, <1>6, <1>7, <1>8 DEF JsonCall

\* Every step of the backend.
LEMMA JsonNextStep ==
  ASSUME JsonInv, [JsonNext]_jsonVars
  PROVE  JsonInv'
<1>1. CASE \/ (Tick \/ ReadClock)
              /\ UNCHANGED <<file, up, crashes, calls, writing, jsonClients>>
           \/ up /\ Sweep /\ UNCHANGED <<file, up, crashes, calls, writing, jsonClients>>
           \/ UNCHANGED jsonVars
  <2>1. [Next]_vars /\ UNCHANGED <<file, up, crashes, calls, writing, jsonClients>>
    BY <1>1 DEF Next, jsonVars
  <2> QED
    BY <2>1, JsonQuietStep
<1>2. CASE up /\ JsonCall
  BY <1>2, JsonCallStep
<1>3. CASE \E k \in DOMAIN calls : BeginPersist(k)
  BY <1>3, BeginPersistStep
<1>4. CASE \E w \in writing, written \in BOOLEAN, arrives \in BOOLEAN :
             EndPersist(w, written, arrives)
  BY <1>4, EndPersistStep
<1>5. CASE JsonCrash
  BY <1>5, JsonCrashStep
<1>6. CASE JsonRestart
  BY <1>6, JsonRestartStep
<1> QED
  BY <1>1, <1>2, <1>3, <1>4, <1>5, <1>6 DEF JsonNext

\* A process without a state file has promised nothing.
LEMMA JsonInitHolds ==
  ASSUME JsonInit
  PROVE  JsonInv
<1>1. StoreInv
  BY Bounds, InputAssumption
  DEF JsonInit, Init, StoreInv, TypeOK, QueuedPending, EndsCounted
<1>2. Sound(stateSnapshot) /\ file = stateSnapshot
  BY <1>1, SoundSnapshot DEF JsonInit
<1>3. ClientTypes
  <2>1. calls \in Seq(CallRecords) /\ Len(calls) <= MaxInFlight
    BY BackendAssumption DEF JsonInit
  <2>2. 0 \in 0..MaxMessages /\ crashes \in 0..MaxCrashes
    BY BackendAssumption, Bounds DEF JsonInit
  <2> QED
    BY <2>1, <2>2 DEF JsonInit, ClientTypes
<1> QED
  BY <1>1, <1>2, <1>3 DEF JsonInit, JsonInv, Writing, Answered

(***************************************************************************)
(* The theorems                                                            *)
(***************************************************************************)

\* The invariant of the backend.
LEMMA JsonInvariant == JsonSpec => []JsonInv
<1>1. JsonInit => JsonInv
  BY JsonInitHolds
<1>2. JsonInv /\ [JsonNext]_jsonVars => JsonInv'
  BY JsonNextStep
<1> QED
  BY <1>1, <1>2, PTL DEF JsonSpec

(* Every reachable state of the JSON backend is well typed, in memory and  *)
(* with the clients: whatever a restart takes back, no client is handed a  *)
(* cursor beyond the ids that messages may have.                           *)
THEOREM JsonTypeCorrect == JsonSpec => []JsonTypeOK
<1>1. JsonInv => JsonTypeOK
  BY DEF JsonInv, StoreInv, ClientTypes, JsonTypeOK
<1> QED
  BY <1>1, JsonInvariant, PTL

(* An answered send stays answered on the JSON backend: a retry within the *)
(* window finds the original, whichever calls overlapped, whichever writes *)
(* of the state file failed and wherever the process crashed.              *)
THEOREM AnsweredSendsAreKeptHolds == JsonSpec => []AnsweredSendsAreKept
<1>1. JsonInv => AnsweredSendsAreKept
  <2> SUFFICES ASSUME JsonInv, up, NEW r \in receipts,
                      clock - r[2].at <= IdempotencyWindow
               PROVE  Duplicate(r[1]) /\ idempotency[r[1]] = r[2]
    BY DEF AnsweredSendsAreKept
  <2>1. r[1] \in DOMAIN idempotency /\ idempotency[r[1]] = r[2]
    BY SnapshotFields DEF JsonInv, Answered, Finds
  <2>2. clock \in Nat /\ now \in Nat /\ now <= clock
    BY Bounds DEF JsonInv, StoreInv, TypeOK
  <2>3. r[2].at \in Nat /\ IdempotencyWindow \in Nat
    BY ConfigAssumption DEF JsonInv, ClientTypes, Entry
  <2> QED
    BY <2>1, <2>2, <2>3 DEF Duplicate
<1> QED
  BY <1>1, JsonInvariant, PTL

(* Answered work is not taken back on the JSON backend: no snapshot that   *)
(* reaches the file, from whichever of several overlapping calls, shows a  *)
(* request whose ack was answered as waiting, or has forgotten its id.     *)
THEOREM AnsweredAcksAreKeptHolds == JsonSpec => []AnsweredAcksAreKept
<1>1. JsonInv => AnsweredAcksAreKept
  BY DEF JsonInv, Answered, Settled, AnsweredAcksAreKept
<1> QED
  BY <1>1, JsonInvariant, PTL


(***************************************************************************)
(* Cursors and the state file                                              *)
(***************************************************************************)

\* The inboxes of a snapshot hold what the store's own invariant says of them.
InboxesIn(s) ==
  \A a \in DOMAIN s.inboxes :
    /\ s.inboxes[a] \in Inbox
    /\ Holds(s.inboxes[a].events, a, s.messages, s.nextMessageID)

\* A snapshot honours cursor c of a client that has the messages got.
Reaches(c, s, a, got) ==
  c # 0 => a \in DOMAIN s.inboxes /\ Covered(c, s.inboxes[a], got)

(* An empty inbox was emptied by polls, so that a client has a cursor that *)
(* lies no lower than its base.                                            *)
Drained(s, a, curs) ==
  a \in DOMAIN s.inboxes /\ s.inboxes[a].events = << >> =>
    s.inboxes[a].base = 0 \/ \E c \in curs : s.inboxes[a].base <= c

Serves(s, a, curs, got) ==
  (\A c \in curs : Reaches(c, s, a, got)) /\ Drained(s, a, curs)

\* What the answer of a poll is going to bring, a snapshot honours.
Brings(call, s, got) ==
  call.kind = "poll" =>
    Reaches(call.next, s, call.agent, got[call.agent] \cup call.batch)

\* The client of this call is not one that went on after a failed write.
Written(call) == call.kind = "poll" => call.agent \notin unwritten

(* The inductive invariant.  A client's cursors are honoured by whatever   *)
(* may become the runtime state: the file, the snapshot that is about to   *)
(* be the file, and the runtime state itself; and so is the cursor of      *)
(* every answer on its way.                                                *)
CursorInv ==
  /\ InboxesIn(file)
  /\ InboxesIn(stateSnapshot)
  /\ \A w \in writing : InboxesIn(w.state)
  /\ ~up => DOMAIN inboxes = {}
  /\ \A a \in Agents \ unwritten :
       /\ Serves(file, a, cursors[a], received[a])
       /\ up => Serves(stateSnapshot, a, cursors[a], received[a])
       /\ \A w \in writing : Serves(w.state, a, cursors[a], received[a])
  /\ \A k \in DOMAIN calls :
       Written(calls[k]) => Brings(calls[k], stateSnapshot, received)
  /\ \A w \in writing :
       Written(w.call) => /\ Brings(w.call, w.state, received)
                          /\ Brings(w.call, stateSnapshot, received)

\* A client with more messages is honoured all the same.
LEMMA ReachesMore ==
  ASSUME NEW c, NEW s, NEW a, NEW got, NEW more, Reaches(c, s, a, got),
         got \subseteq more
  PROVE  Reaches(c, s, a, more)
BY DEF Reaches, Covered

\* So is a lower cursor.
LEMMA ReachesBelow ==
  ASSUME NEW c \in Nat, NEW n \in Nat, n <= c, NEW s, InboxesIn(s), NEW a, NEW got,
         Reaches(c, s, a, got)
  PROVE  Reaches(n, s, a, got)
<1> SUFFICES ASSUME n # 0
             PROVE  a \in DOMAIN s.inboxes /\ Covered(n, s.inboxes[a], got)
  BY DEF Reaches
<1>1. a \in DOMAIN s.inboxes /\ Covered(c, s.inboxes[a], got)
  BY DEF Reaches
<1>2. PICK box : box = s.inboxes[a]
  OBVIOUS
<1>3. box \in Inbox /\ Covered(c, box, got)
  BY <1>1, <1>2 DEF InboxesIn
<1>4. /\ InboxEnd(box) \in Nat /\ box.base \in Nat
      /\ \A k \in DOMAIN box.events : k \in Nat
  BY <1>3, InboxEndType, LenProperties DEF Inbox
<1>5. n <= InboxEnd(box)
  BY <1>3, <1>4 DEF Covered
<1>6. \A k \in DOMAIN box.events : box.base + k <= n => box.base + k <= c
  BY <1>4
<1>7. Covered(n, box, got)
  BY <1>3, <1>5, <1>6 DEF Covered
<1> QED
  BY <1>1, <1>2, <1>7

\* One snapshot after another, with no inbox lost.
GrownTo(s, z) ==
  \A a \in DOMAIN s.inboxes :
    /\ a \in DOMAIN z.inboxes
    /\ s.inboxes[a] \in Inbox /\ z.inboxes[a] \in Inbox
    /\ Grows(s.inboxes[a], z.inboxes[a])

LEMMA ReachesGrown ==
  ASSUME NEW c \in Nat, NEW s, NEW z, GrownTo(s, z), NEW a, NEW got,
         Reaches(c, s, a, got)
  PROVE  Reaches(c, z, a, got)
<1> SUFFICES ASSUME c # 0
             PROVE  a \in DOMAIN z.inboxes /\ Covered(c, z.inboxes[a], got)
  BY DEF Reaches
<1>1. a \in DOMAIN s.inboxes /\ Covered(c, s.inboxes[a], got)
  BY DEF Reaches
<1>2. PICK old : old = s.inboxes[a]
  OBVIOUS
<1>3. PICK new : new = z.inboxes[a]
  OBVIOUS
<1>4. /\ a \in DOMAIN z.inboxes /\ old \in Inbox /\ new \in Inbox
      /\ Grows(old, new)
  BY <1>1, <1>2, <1>3 DEF GrownTo
<1>5. Covered(c, new, got)
  BY <1>1, <1>2, <1>4, CoveredGrows
<1> QED
  BY <1>3, <1>4, <1>5

\* A step of the store that prunes no agent only makes the inboxes grow.
LEMMA StoreGrows ==
  ASSUME TypeOK, [Next]_vars, InboxesStay
  PROVE  GrownTo(stateSnapshot, stateSnapshot')
<1>1. TypeOK'
  BY NextType
<1>2. stateSnapshot.inboxes = inboxes /\ stateSnapshot'.inboxes = inboxes'
  BY DEF stateSnapshot
<1>3. ASSUME NEW a \in DOMAIN inboxes
      PROVE  /\ a \in DOMAIN inboxes'
             /\ inboxes[a] \in Inbox /\ inboxes'[a] \in Inbox
             /\ Grows(inboxes[a], inboxes'[a])
  <2>1. a \in DOMAIN inboxes'
    BY DEF InboxesStay
  <2>2. inboxes[a] \in Inbox /\ inboxes'[a] \in Inbox
    BY <1>1, <2>1 DEF TypeOK
  <2> QED
    BY <2>1, <2>2, StepGrows
<1> QED
  BY <1>2, <1>3 DEF GrownTo

\* The store's invariant of its inboxes, read off the snapshot.
LEMMA SnapshotInboxes ==
  ASSUME TypeOK
  PROVE  InboxesIn(stateSnapshot) <=> InboxesHold
BY SnapshotFields, BoxTypes DEF InboxesIn, InboxesHold

LEMMA StoreInboxes ==
  ASSUME TypeOK, [Next]_vars, InboxesIn(stateSnapshot)
  PROVE  InboxesIn(stateSnapshot')
<1>1. TypeOK' /\ InboxesHold'
  BY NextType, NextInboxes, SnapshotInboxes
<1>2. /\ stateSnapshot'.inboxes = inboxes'
      /\ stateSnapshot'.messages = messages'
      /\ stateSnapshot'.nextMessageID = nextMessageID'
  BY DEF stateSnapshot
<1>3. \A a \in DOMAIN inboxes' :
        /\ inboxes'[a] \in Inbox
        /\ Holds(inboxes'[a].events, a, messages', nextMessageID')
  BY <1>1 DEF TypeOK, InboxesHold
<1> QED
  BY <1>2, <1>3 DEF InboxesIn

(* What a step of the store keeps of the invariant, as long as its clients *)
(* are told nothing new.                                                   *)
LEMMA StoreReaches ==
  ASSUME JsonInv, CursorInv, [Next]_vars, InboxesStay
  PROVE  /\ InboxesIn(stateSnapshot')
         /\ up => \A a \in Agents \ unwritten : \A c \in cursors[a] :
                    Reaches(c, stateSnapshot', a, received[a])
         /\ \A k \in DOMAIN calls :
              Written(calls[k]) => Brings(calls[k], stateSnapshot', received)
         /\ \A w \in writing :
              Written(w.call) => Brings(w.call, stateSnapshot', received)
<1> DEFINE s == stateSnapshot
           z == stateSnapshot'
<1>1. TypeOK
  BY DEF JsonInv, StoreInv
<1>2. GrownTo(s, z) /\ InboxesIn(z)
  BY <1>1, StoreGrows, StoreInboxes DEF CursorInv
<1>3. \A a \in Agents : \A c \in cursors[a] : c \in Nat
  BY Bounds DEF JsonInv, ClientTypes
<1>4. up => \A a \in Agents \ unwritten : \A c \in cursors[a] :
              Reaches(c, s, a, received[a])
  BY DEF CursorInv, Serves
<1>5. /\ \A k \in DOMAIN calls : calls[k] \in CallRecords
      /\ \A w \in writing : w.call \in CallRecords
  BY WaitingCalls DEF JsonInv, Writing
<1>6. \A call \in CallRecords : call.kind = "poll" => call.next \in Nat
  BY CallFields, Bounds
<1>7. /\ \A k \in DOMAIN calls : Written(calls[k]) => Brings(calls[k], s, received)
      /\ \A w \in writing : Written(w.call) => Brings(w.call, s, received)
  BY DEF CursorInv
<1> HIDE DEF s, z
<1>8. up => \A a \in Agents \ unwritten : \A c \in cursors[a] :
              Reaches(c, z, a, received[a])
  BY <1>2, <1>3, <1>4, ReachesGrown
<1>9. \A call \in CallRecords : Brings(call, s, received) => Brings(call, z, received)
  BY <1>2, <1>6, ReachesGrown DEF Brings
<1>10. /\ \A k \in DOMAIN calls : Written(calls[k]) => Brings(calls[k], z, received)
       /\ \A w \in writing : Written(w.call) => Brings(w.call, z, received)
  BY <1>5, <1>7, <1>9
<1> QED
  BY <1>2, <1>8, <1>10 DEF z


\* The inboxes that a step leaves empty were empty, or are new.
EmptyKept ==
  \A a \in DOMAIN inboxes' :
    inboxes'[a].events = << >> =>
      \/ inboxes'[a].base = 0
      \/ a \in DOMAIN inboxes /\ inboxes'[a] = inboxes[a]

\* Appending leaves an inbox empty only if there was nothing to append.
LEMMA AppendInboxEmpty ==
  ASSUME NEW box \in Inbox, NEW events \in Seq(Event),
         appendInbox(box, events).events = << >>
  PROVE  appendInbox(box, events) = box
<1> DEFINE all == box.events \o events
           n == DropCount(all)
           rest == SubSeq(all, n + 1, Len(all))
<1>1. /\ box.base \in Nat /\ box.events \in Seq(Event)
      /\ Len(box.events) \in Nat /\ Len(events) \in Nat
  BY LenProperties DEF Inbox
<1>2. all \in Seq(Event) /\ Len(all) = Len(box.events) + Len(events)
  BY <1>1, ConcatProperties
<1>3. appendInbox(box, events) = [base |-> box.base + n, events |-> rest]
  BY DEF appendInbox, dropInboxPrefix
<1> HIDE DEF all
<1>4. n \in Nat /\ n <= Len(all) /\ (all # << >> => n < Len(all))
  BY <1>2, DropCountType
<1> HIDE DEF n
<1>5. Len(all) \in Nat /\ \A i \in n + 1..Len(all) : all[i] \in Event
  BY <1>2, <1>4, LenProperties, ElementOfSeq
<1>6. Len(rest) = IF n + 1 <= Len(all) THEN Len(all) - (n + 1) + 1 ELSE 0
  BY <1>2, <1>4, <1>5, SubSeqProperties
<1>7. rest = << >>
  BY <1>3
<1> HIDE DEF rest
<1>8. Len(rest) = 0
  BY <1>7, EmptySeq
<1>9. all = << >> /\ Len(all) = 0
  <2>1. ~(n < Len(all))
    BY <1>4, <1>5, <1>6, <1>8
  <2>2. all = << >>
    BY <1>4, <2>1
  <2> QED
    BY <2>2
<1>10. n = 0 /\ Len(box.events) = 0
  BY <1>1, <1>2, <1>4, <1>9
<1>11. box.events = << >>
  BY <1>1, <1>10, EmptySeq
<1>12. box = [base |-> box.base, events |-> box.events]
  BY DEF Inbox
<1> QED
  BY <1>1, <1>3, <1>7, <1>10, <1>11, <1>12

\* Only a poll empties an inbox.
LEMMA NoPollEmpties ==
  ASSUME TypeOK, Idles \/ Sweep \/ Registers \/ Creates \/ Accepts \/ Changes
  PROVE  EmptyKept
<1> SUFFICES ASSUME NEW a \in DOMAIN inboxes', inboxes'[a].events = << >>,
                    inboxes'[a].base # 0
             PROVE  a \in DOMAIN inboxes /\ inboxes'[a] = inboxes[a]
  BY DEF EmptyKept
<1>1. CASE Idles \/ Creates \/ Changes
  BY <1>1 DEF Idles, Creates, CreateConversation, Changes, SetMessage
<1>2. CASE Registers
  <2>1. PICK b : inboxes' = IF b \in DOMAIN inboxes THEN inboxes
                            ELSE Put(inboxes, b, [base |-> 0, events |-> << >>])
    BY <1>2 DEF Registers, RegisterAgent
  <2> QED
    BY <2>1 DEF Put
<1>3. CASE Accepts
  <2>1. PICK m \in Message, choice \in ConversationChoices, names \in SUBSET Agents :
          /\ nextMessageID + 1 <= MaxMessages
          /\ Accept(nextMessageID + 1, m, choice, names)
    BY <1>3 DEF Accepts
  <2>2. nextMessageID + 1 \in MessageIDs
    BY <2>1, AcceptKeeps, Bounds DEF MessageIDs
  <2> DEFINE event == EventOf(nextMessageID + 1, m)
  <2>3. <<event>> \in Seq(Event)
    BY <2>2, EventOfType
  <2>4. /\ a \in DOMAIN inboxes
        /\ inboxes'[a] = inboxes[a]
           \/ inboxes'[a] = appendInbox(inboxes[a], <<event>>)
    BY <2>1 DEF Accept
  <2>5. inboxes[a] \in Inbox
    BY <2>4, BoxTypes
  <2> HIDE DEF event
  <2> QED
    BY <2>3, <2>4, <2>5, AppendInboxEmpty
<1>4. CASE Sweep
  <2>1. PICK order \in ReleaseOrders :
          inboxes' = [b \in KeptAgents |-> SweptInbox(b, order[b])]
    BY <1>4 DEF Sweep
  <2>2. a \in DOMAIN agents /\ a \in DOMAIN inboxes /\ a \in KeptAgents
    BY <2>1 DEF KeptAgents, TypeOK
  <2>3. PICK new \in Seq(Event) : inboxes'[a] = appendInbox(inboxes[a], new)
    <3>1. SweptInbox(a, order[a]) = inboxes'[a]
      BY <2>1, <2>2
    <3> QED
      BY <2>2, <3>1, SweptInboxAppends
  <2>4. inboxes[a] \in Inbox
    BY <2>2, BoxTypes
  <2> QED
    BY <2>2, <2>3, <2>4, AppendInboxEmpty
<1> QED
  BY <1>1, <1>2, <1>3, <1>4

\* The steps of the backend that tell no client of a cursor.
Quietly ==
  /\ UNCHANGED <<file, up, writing, cursors, received, unwritten>>
  /\ \/ calls' = calls
     \/ \E c \in CallRecords : c.kind # "poll" /\ calls' = Append(calls, c)

LEMMA QuietCursors ==
  ASSUME JsonInv, CursorInv, up, [Next]_vars, InboxesStay, EmptyKept, Quietly
  PROVE  CursorInv'
<1>1. UNCHANGED <<file, up, writing, cursors, received, unwritten>>
  BY DEF Quietly
<1>2. /\ InboxesIn(stateSnapshot')
      /\ \A a \in Agents \ unwritten : \A c \in cursors[a] :
           Reaches(c, stateSnapshot', a, received[a])
      /\ \A k \in DOMAIN calls :
           Written(calls[k]) => Brings(calls[k], stateSnapshot', received)
      /\ \A w \in writing :
           Written(w.call) => Brings(w.call, stateSnapshot', received)
  BY StoreReaches
<1>3. \A a \in Agents \ unwritten : Drained(stateSnapshot', a, cursors[a])
  <2> SUFFICES ASSUME NEW a \in Agents \ unwritten, a \in DOMAIN inboxes',
                      inboxes'[a].events = << >>, inboxes'[a].base # 0
               PROVE  \E c \in cursors[a] : inboxes'[a].base <= c
    <3>1. stateSnapshot'.inboxes = inboxes'
      BY DEF stateSnapshot
    <3> QED
      BY <3>1 DEF Drained
  <2>1. a \in DOMAIN inboxes /\ inboxes'[a] = inboxes[a]
    BY DEF EmptyKept
  <2>2. Drained(stateSnapshot, a, cursors[a])
    BY DEF CursorInv, Serves
  <2> QED
    BY <2>1, <2>2, SnapshotFields DEF Drained
<1>4. \A c : Written(c)' <=> Written(c)
  BY <1>1 DEF Written
<1>5. \A k \in DOMAIN calls' :
        Written(calls'[k]) => Brings(calls'[k], stateSnapshot', received)
  <2>1. CASE calls' = calls
    BY <1>2, <2>1
  <2>2. CASE \E c \in CallRecords : c.kind # "poll" /\ calls' = Append(calls, c)
    <3>1. PICK c \in CallRecords : c.kind # "poll" /\ calls' = Append(calls, c)
      BY <2>2
    <3>2. calls \in Seq(CallRecords)
      BY DEF JsonInv, ClientTypes
    <3>3. \A k \in DOMAIN calls' :
            \/ k \in DOMAIN calls /\ calls'[k] = calls[k]
            \/ calls'[k] = c
      BY <3>1, <3>2, AppendProperties, LenProperties
    <3> QED
      BY <1>2, <3>1, <3>3 DEF Brings
  <2> QED
    BY <2>1, <2>2 DEF Quietly
<1> QED
  BY <1>1, <1>2, <1>3, <1>4, <1>5 DEF CursorInv, Serves


\* Nothing happens to the inboxes, the calls and the clients.
LEMMA StillCursors ==
  ASSUME CursorInv,
         UNCHANGED <<stateSnapshot, file, up, calls, writing, cursors, received,
                     unwritten>>
  PROVE  CursorInv'
<1>1. inboxes' = inboxes
  <2>1. stateSnapshot'.inboxes = inboxes' /\ stateSnapshot.inboxes = inboxes
    BY DEF stateSnapshot
  <2> QED
    BY <2>1
<1> QED
  BY <1>1 DEF CursorInv, Written

\* A call other than a poll tells no client of a cursor.
LEMMA JsonCallKinds ==
  ASSUME JsonInv, JsonCall
  PROVE  \/ (Call \/ UNCHANGED vars) /\ Quietly
         \/ \E a \in Agents, limit \in Limits, waits \in BOOLEAN :
              \E cursor \in cursors[a] : JsonPoll(a, cursor, limit, waits)
<1>1. ASSUME Enter(Plain)
      PROVE  Quietly
  BY <1>1 DEF Enter, Plain, CallRecords, Quietly, jsonClients
<1>2. ASSUME NEW id \in MessageIDs, Enter(Heard(id))
      PROVE  Quietly
  BY <1>2 DEF Enter, Heard, CallRecords, Quietly, jsonClients
<1>3. ASSUME NEW key \in Key, NEW e \in Entry, Enter(Sent(key, e))
      PROVE  Quietly
  BY <1>3 DEF Enter, Sent, CallRecords, Quietly, jsonClients
<1>4. CASE \E a \in Agents, ttl \in RegistrationTTLs, mode \in Modes :
             JsonRegister(a, ttl, mode)
  BY <1>1, <1>4 DEF JsonRegister, Call
<1>5. CASE \E actor \in Agents \cup {Nobody}, choice \in ConversationChoices,
              names \in ParticipantChoices : JsonCreate(actor, choice, names)
  <2>1. PICK actor \in Agents \cup {Nobody}, choice \in ConversationChoices,
             names \in ParticipantChoices :
          /\ CreateConversation(actor, choice, names)
          /\ \/ Enter(Plain)
             \/ UNCHANGED <<file, up, crashes, calls, writing, jsonClients>>
    BY <1>5 DEF JsonCreate
  <2>2. Call
    BY <2>1 DEF Call
  <2> QED
    BY <1>1, <2>1, <2>2 DEF Quietly, jsonClients
<1>6. CASE \E from, to \in Agents, req \in RequestIDs :
             /\ <<from, to>> \in Routes
             /\ \E type \in SendTypes, choice \in ConversationChoices,
                  ttl \in MessageTTLs, size \in Sizes :
                  JsonSend(from, to, req, type, choice, ttl, size)
  <2>1. PICK from \in Agents, to \in Agents, req \in RequestIDs,
             type \in SendTypes, choice \in ConversationChoices,
             ttl \in MessageTTLs, size \in Sizes :
          /\ <<from, to>> \in Routes
          /\ SendMessage(from, to, req, type, choice, ttl, size)
          /\ Enter(Sent(<<from, to, req>>, idempotency'[<<from, to, req>>]))
    BY <1>6 DEF JsonSend
  <2>2. Call
    BY <2>1 DEF Call
  <2> DEFINE key == <<from, to, req>>
  <2>3. key \in Key /\ key \in DOMAIN idempotency'
    BY <2>1 DEF SendMessage, Put, Key
  <2>4. [Next]_vars
    BY <2>2 DEF Next
  <2>5. TypeOK'
    BY <2>4, StepKept DEF StoreInv
  <2>6. idempotency'[key] \in Entry
    BY <2>3, <2>5 DEF TypeOK
  <2> HIDE DEF key
  <2>7. Quietly
    BY <1>3, <2>1, <2>3, <2>6 DEF key
  <2> QED
    BY <2>2, <2>7
<1>7. CASE \E from, to \in Agents, req \in RequestIDs :
             /\ <<from, to>> \in Routes
             /\ JsonRetry(from, to, req)
  <2>1. PICK from \in Agents, to \in Agents, req \in RequestIDs :
          /\ <<from, to, req>> \in DOMAIN idempotency
          /\ UNCHANGED vars
          /\ Enter(Sent(<<from, to, req>>, idempotency[<<from, to, req>>]))
    BY <1>7 DEF JsonRetry, Duplicate
  <2>2. <<from, to, req>> \in Key /\ idempotency[<<from, to, req>>] \in Entry
    BY <2>1 DEF JsonInv, StoreInv, TypeOK, Key
  <2> QED
    BY <1>3, <2>1, <2>2
<1>8. CASE \E to \in Agents \cup {Nobody}, choice \in ConversationChoices,
              size \in Sizes :
             <<Human, to>> \in Routes /\ JsonInject(to, choice, size)
  BY <1>1, <1>8 DEF JsonInject, Call
<1>9. CASE \E a \in Agents, id \in MessageIDs, status \in {"accepted", "rejected"} :
             JsonAck(a, id, status)
  BY <1>2, <1>9 DEF JsonAck, Call
<1>10. CASE \E a \in Agents, id \in MessageIDs,
               type \in {"progress", "final", "error"} : JsonEvent(a, id, type)
  <2>1. PICK a \in Agents, id \in MessageIDs, type \in {"progress", "final", "error"} :
          /\ PostEvent(a, id, type)
          /\ Enter(Plain) \/ Enter(Heard(id))
    BY <1>10 DEF JsonEvent
  <2>2. Call
    BY <2>1 DEF Call
  <2> QED
    BY <1>1, <1>2, <2>1, <2>2
<1>11. CASE \E a \in Agents, id \in MessageIDs : JsonLate(a, id)
  BY <1>2, <1>11 DEF JsonLate
<1> QED
  BY <1>4, <1>5, <1>6, <1>7, <1>8, <1>9, <1>10, <1>11 DEF JsonCall

\* Every call but a poll.
LEMMA CallCursors ==
  ASSUME JsonInv, CursorInv, up, InboxesStay, Call \/ UNCHANGED vars, Quietly
  PROVE  CursorInv'
<1>1. TypeOK /\ [Next]_vars
  BY DEF JsonInv, StoreInv, Next
<1>2. Idles \/ Registers \/ Creates \/ Accepts \/ Changes
  BY <1>1, CallKinds DEF Idles, vars
<1>3. EmptyKept
  BY <1>1, <1>2, NoPollEmpties
<1> QED
  BY <1>1, <1>3, QuietCursors

\* The sweep.
LEMMA SweepCursors ==
  ASSUME JsonInv, CursorInv, up, InboxesStay, Sweep,
         UNCHANGED <<file, up, crashes, calls, writing, jsonClients>>
  PROVE  CursorInv'
<1>1. TypeOK /\ [Next]_vars
  BY DEF JsonInv, StoreInv, Next
<1>2. EmptyKept
  BY <1>1, NoPollEmpties
<1>3. Quietly
  BY DEF Quietly, jsonClients
<1> QED
  BY <1>1, <1>2, <1>3, QuietCursors

\* persist takes its snapshot, which honours what the runtime state honours.
LEMMA BeginPersistCursors ==
  ASSUME JsonInv, CursorInv, NEW k \in DOMAIN calls, BeginPersist(k)
  PROVE  CursorInv'
<1>1. /\ writing' = {[call |-> calls[k], state |-> stateSnapshot]}
      /\ calls' = RemoveAt(calls, k)
      /\ UNCHANGED <<vars, file, up, cursors, received, unwritten>>
  BY DEF BeginPersist, jsonClients
<1>2. calls \in Seq(CallRecords) /\ calls # << >>
  BY DEF JsonInv, ClientTypes
<1>3. up
  BY <1>2 DEF JsonInv, Writing, ClientTypes
<1>4. \A j \in DOMAIN calls' : \E i \in DOMAIN calls : calls'[j] = calls[i]
  BY <1>1, <1>2, RemoveAtCalls
<1>5. stateSnapshot' = stateSnapshot /\ inboxes' = inboxes
  BY <1>1 DEF vars, stateSnapshot
<1>6. \A c : Written(c)' <=> Written(c)
  BY <1>1 DEF Written
<1>7. \A j \in DOMAIN calls' :
        Written(calls'[j]) => Brings(calls'[j], stateSnapshot, received)
  BY <1>4 DEF CursorInv
<1>8. \A w \in writing' : w.call = calls[k] /\ w.state = stateSnapshot
  BY <1>1
<1> QED
  BY <1>1, <1>3, <1>5, <1>6, <1>7, <1>8 DEF CursorInv

\* A crash leaves the file and no call on its way.
LEMMA CrashCursors ==
  ASSUME JsonInv, CursorInv, JsonCrash
  PROVE  CursorInv'
<1>1. /\ up' = FALSE /\ DOMAIN inboxes' = {} /\ calls' = << >> /\ writing' = {}
      /\ UNCHANGED <<file, cursors, received, unwritten>>
  BY DEF JsonCrash, jsonClients
<1>2. InboxesIn(stateSnapshot')
  <2>1. stateSnapshot'.inboxes = inboxes'
    BY DEF stateSnapshot
  <2> QED
    BY <1>1, <2>1 DEF InboxesIn
<1> QED
  BY <1>1, <1>2 DEF CursorInv

(* load makes the file the runtime state.  Messages that never made it     *)
(* into the file are none of its inboxes' events.                          *)
LEMMA RestartCursors ==
  ASSUME JsonInv, CursorInv, JsonRestart
  PROVE  CursorInv'
<1>1. /\ up' = TRUE /\ calls' = << >> /\ writing' = {}
      /\ inboxes' = file.inboxes /\ messages' = file.messages
      /\ nextMessageID' = file.nextMessageID
      /\ received' = [a \in Agents |-> received[a] \cap (1..file.nextMessageID)]
      /\ UNCHANGED <<file, cursors, unwritten>>
  BY DEF JsonRestart, ReadMessageID, JsonInv, Writing
<1>2. /\ stateSnapshot'.inboxes = file.inboxes
      /\ stateSnapshot'.messages = file.messages
      /\ stateSnapshot'.nextMessageID = file.nextMessageID
  BY <1>1 DEF stateSnapshot
<1>3. InboxesIn(file) /\ InboxesIn(stateSnapshot')
  BY <1>2 DEF CursorInv, InboxesIn
<1>4. ASSUME NEW a \in Agents \ unwritten
      PROVE  Serves(file, a, cursors[a], received'[a])
  <2>1. Serves(file, a, cursors[a], received[a])
    BY DEF CursorInv
  <2>2. received'[a] = received[a] \cap (1..file.nextMessageID)
    BY <1>1
  <2>3. ASSUME NEW c \in cursors[a], Reaches(c, file, a, received[a]), c # 0
        PROVE  a \in DOMAIN file.inboxes /\ Covered(c, file.inboxes[a], received'[a])
    <3>1. a \in DOMAIN file.inboxes /\ Covered(c, file.inboxes[a], received[a])
      BY <2>3 DEF Reaches
    <3>2. /\ file.inboxes[a] \in Inbox
          /\ \A k \in DOMAIN file.inboxes[a].events :
               file.inboxes[a].events[k].msg <= file.nextMessageID
      BY <1>3, <3>1 DEF InboxesIn, Holds
    <3>3. \A k \in DOMAIN file.inboxes[a].events :
            file.inboxes[a].events[k].msg \in 1..file.nextMessageID
      <4>1. \A k \in DOMAIN file.inboxes[a].events :
              file.inboxes[a].events[k] \in Event
        BY <3>2, LenProperties, ElementOfSeq DEF Inbox
      <4>2. file.nextMessageID \in Nat
        BY Bounds DEF JsonInv, Sound
      <4> QED
        BY <3>2, <4>1, <4>2, Bounds DEF Event, MessageIDs
    <3> QED
      BY <2>2, <3>1, <3>3 DEF Covered
  <2> QED
    BY <2>1, <2>3 DEF Serves, Reaches
<1>5. ASSUME NEW a \in Agents \ unwritten
      PROVE  Serves(stateSnapshot', a, cursors[a], received'[a])
  BY <1>2, <1>4 DEF Serves, Reaches, Drained
<1>6. file' = file /\ cursors' = cursors /\ unwritten' = unwritten
  BY <1>1
<1>7. /\ \A a \in Agents \ unwritten' :
           /\ Serves(file', a, cursors'[a], received'[a])
           /\ Serves(stateSnapshot', a, cursors'[a], received'[a])
      /\ InboxesIn(file')
  BY <1>3, <1>4, <1>5, <1>6
<1>8. DOMAIN calls' = {}
  BY <1>1
<1> QED
  BY <1>1, <1>3, <1>7, <1>8 DEF CursorInv


\* A poll empties an inbox with the client's own cursor, or finds it empty.
LEMMA PollDrains ==
  ASSUME JsonInv, CursorInv, up, NEW a \in Agents \ unwritten,
         NEW b \in Agents, NEW cursor \in cursors[b], PollInbox(b, cursor)
  PROVE  Drained(stateSnapshot', a, cursors[a])
<1> SUFFICES ASSUME a \in DOMAIN inboxes', inboxes'[a].events = << >>,
                    inboxes'[a].base # 0
             PROVE  \E c \in cursors[a] : inboxes'[a].base <= c
  <2>1. stateSnapshot'.inboxes = inboxes'
    BY DEF stateSnapshot
  <2> QED
    BY <2>1 DEF Drained
<1> DEFINE box == inboxes[a]
           n == Clamp(box, cursor) - box.base
<1>1. a \in DOMAIN inboxes
  BY DEF PollInbox
<1>2. inboxes'[a] = IF a = b THEN dropInboxPrefix(box, n) ELSE box
  BY <1>1 DEF PollInbox
<1>3. box \in Inbox /\ cursor \in Nat
  BY <1>1, BoxTypes, Bounds DEF JsonInv, StoreInv, ClientTypes
<1>4. box.events = << >> /\ box.base # 0 => \E c \in cursors[a] : box.base <= c
  BY <1>1, SnapshotFields DEF CursorInv, Serves, Drained
<1>5. /\ box.base \in Nat /\ box.events \in Seq(Event) /\ Len(box.events) \in Nat
      /\ Clamp(box, cursor) \in Int /\ n \in Nat
  <2>1. /\ box.base \in Nat /\ box.events \in Seq(Event) /\ Len(box.events) \in Nat
    BY <1>3, LenProperties DEF Inbox
  <2>2. Clamp(box, cursor) \in Int
    BY <1>3, <2>1 DEF Clamp, InboxEnd
  <2>3. n \in Nat
    BY <1>3, ClampRange
  <2> QED
    BY <2>1, <2>2, <2>3
<1>6. CASE a # b
  BY <1>2, <1>4, <1>6
<1>7. CASE a = b /\ Clamp(box, cursor) > box.base
  <2>1. Clamp(box, cursor) <= cursor
    BY <1>3, <1>5, <1>7 DEF Clamp, InboxEnd
  <2>2. inboxes'[a].base = box.base + n
    BY <1>2, <1>7 DEF dropInboxPrefix
  <2>3. inboxes'[a].base <= cursor
    BY <1>5, <2>1, <2>2
  <2> QED
    BY <1>7, <2>3
<1>8. CASE a = b /\ ~(Clamp(box, cursor) > box.base)
  <2>1. n = 0
    BY <1>5, <1>8
  <2> HIDE DEF n
  <2>2. /\ inboxes'[a].base = box.base + 0
        /\ inboxes'[a].events = SubSeq(box.events, 0 + 1, Len(box.events))
    BY <1>2, <1>8, <2>1 DEF dropInboxPrefix
  <2>3. \A i \in 0 + 1..Len(box.events) : box.events[i] \in Event
    BY <1>5, ElementOfSeq
  <2>4. Len(inboxes'[a].events) =
          IF 0 + 1 <= Len(box.events) THEN Len(box.events) - (0 + 1) + 1 ELSE 0
    BY <1>5, <2>2, <2>3, SubSeqProperties
  <2>5. Len(inboxes'[a].events) = 0
    BY EmptySeq
  <2>6. Len(box.events) = 0
    BY <1>5, <2>4, <2>5
  <2>7. box.events = << >>
    BY <1>5, <2>6, EmptySeq
  <2>8. inboxes'[a].base = box.base
    BY <1>5, <2>2
  <2> HIDE DEF box
  <2> QED
    BY <1>4, <2>7, <2>8
<1> QED
  BY <1>6, <1>7, <1>8

\* A poll that returns nothing has come to the end of the inbox.
LEMMA PollFindsEnd ==
  ASSUME NEW box \in Inbox, NEW cursor \in Nat, NEW limit \in Nat,
         PollResult(box, cursor, limit) = << >>,
         ~(Clamp(box, cursor) > box.base)
  PROVE  box.events = << >> /\ NextCursor(box, cursor, limit) = box.base
<1> DEFINE n == Clamp(box, cursor) - box.base
           out == SubSeq(box.events, n + 1, Len(box.events))
           some == SubSeq(out, 1, limit)
<1>1. /\ box.base \in Nat /\ box.events \in Seq(Event) /\ Len(box.events) \in Nat
  BY LenProperties DEF Inbox
<1>2. Clamp(box, cursor) \in Int
  BY <1>1 DEF Clamp, InboxEnd
<1>3. n \in Nat
  BY ClampRange
<1>4. n = 0 /\ Clamp(box, cursor) = box.base
  BY <1>1, <1>2, <1>3
<1>5. (IF limit > 0 /\ Len(out) > limit THEN some ELSE out) = << >>
  BY DEF PollResult
<1> HIDE DEF n
<1>6. out \in Seq(Event) /\ Len(out) = Len(box.events)
  <2>1. \A i \in n + 1..Len(box.events) : box.events[i] \in Event
    BY <1>1, <1>3, ElementOfSeq
  <2>2. /\ out \in Seq(Event)
        /\ Len(out) = IF n + 1 <= Len(box.events)
                      THEN Len(box.events) - (n + 1) + 1 ELSE 0
    BY <1>1, <1>3, <2>1, SubSeqProperties
  <2> QED
    BY <1>1, <1>4, <2>2
<1> HIDE DEF out
<1>7. ASSUME limit > 0, Len(out) > limit
      PROVE  some # << >>
  <2>1. Len(out) \in Nat /\ \A i \in 1..limit : out[i] \in Event
    BY <1>6, <1>7, LenProperties, ElementOfSeq
  <2>2. Len(some) = IF 1 <= limit THEN limit - 1 + 1 ELSE 0
    BY <1>6, <1>7, <2>1, SubSeqProperties
  <2> HIDE DEF some
  <2>3. Len(some) # 0
    BY <1>7, <2>2
  <2> QED
    BY <2>3, EmptySeq
<1> HIDE DEF some
<1>8. out = << >>
  BY <1>5, <1>7
<1>9. Len(box.events) = 0
  BY <1>6, <1>8, EmptySeq
<1>10. box.events = << >>
  BY <1>1, <1>9, EmptySeq
<1>11. NextCursor(box, cursor, limit) = Clamp(box, cursor) + Len(<< >>)
  BY DEF NextCursor
<1>12. NextCursor(box, cursor, limit) = box.base + 0
  BY <1>4, <1>11, EmptySeq
<1> QED
  BY <1>1, <1>10, <1>12

\* PollInbox: with something to say, without, or going to sleep.
LEMMA PollCursors ==
  ASSUME JsonInv, CursorInv, up, InboxesStay, NEW a \in Agents,
         NEW limit \in Limits, NEW waits \in BOOLEAN, NEW cursor \in cursors[a],
         JsonPoll(a, cursor, limit, waits)
  PROVE  CursorInv'
<1> DEFINE box == inboxes[a]
           out == PollResult(box, cursor, limit)
           next == NextCursor(box, cursor, limit)
           batch == {out[k].msg : k \in DOMAIN out}
           s == stateSnapshot
           z == stateSnapshot'
<1>1. /\ PollInbox(a, cursor)
      /\ \/ Enter(Polled(a, next, batch))
         \/ /\ out = << >> /\ ~(Clamp(box, cursor) > box.base)
            /\ cursors' = [cursors EXCEPT ![a] = @ \cup {next}]
            /\ received' = [received EXCEPT ![a] = @ \cup batch]
            /\ UNCHANGED <<file, up, crashes, calls, writing, unwritten, receipts,
                           answeredAcks>>
         \/ UNCHANGED <<file, up, crashes, calls, writing, jsonClients>>
  BY DEF JsonPoll, PersistsPoll
<1>2. cursor \in Nat /\ limit \in Nat /\ cursor \in 0..MaxMessages + 1
  BY BackendAssumption, Bounds DEF JsonInv, ClientTypes
<1>3. [Next]_vars /\ TypeOK
  BY <1>1, <1>2 DEF Next, JsonInv, StoreInv
<1>4. a \in DOMAIN inboxes /\ box \in Inbox
  BY <1>1 DEF PollInbox, Active, JsonInv, StoreInv, TypeOK
<1>5. next \in Nat /\ next \in 0..MaxMessages
  <2>1. next \in 0..MaxMessages
    BY <1>2, <1>4, NextCursorInRange DEF JsonInv, StoreInv
  <2> QED
    BY <2>1, Bounds
<1>6. batch \subseteq MessageIDs
  BY <1>2, <1>4, PollResultType
<1>7. /\ InboxesIn(z)
      /\ \A b \in Agents \ unwritten : \A c \in cursors[b] :
           Reaches(c, z, b, received[b])
      /\ \A k \in DOMAIN calls : Written(calls[k]) => Brings(calls[k], z, received)
      /\ \A w \in writing : Written(w.call) => Brings(w.call, z, received)
  BY <1>3, StoreReaches
<1>8. \A b \in Agents \ unwritten : Drained(z, b, cursors[b])
  BY <1>1, PollDrains
<1>9. ~up' <=> FALSE
  BY <1>1 DEF Enter
<1>10. CASE UNCHANGED <<file, up, crashes, calls, writing, jsonClients>>
  <2>1. UNCHANGED <<file, up, calls, writing, cursors, received, unwritten>>
    BY <1>10 DEF jsonClients
  <2>2. \A c : Written(c)' <=> Written(c)
    BY <2>1 DEF Written
  <2> HIDE DEF z
  <2>3. z = stateSnapshot'
    BY DEF z
  <2> QED
    BY <1>7, <1>8, <1>9, <2>1, <2>2, <2>3 DEF CursorInv, Serves
<1>11. CASE Enter(Polled(a, next, batch))
  <2> DEFINE call == Polled(a, next, batch)
  <2>1. /\ calls' = Append(calls, call)
        /\ UNCHANGED <<file, up, writing, cursors, received, unwritten>>
    BY <1>11 DEF Enter, jsonClients
  <2>2. /\ call.kind = "poll" /\ call.agent = a /\ call.next = next
        /\ call.batch = batch
    BY DEF Polled
  <2>3. call \in CallRecords
    <3> HIDE DEF next, batch
    <3>1. a \in Agents /\ next \in 0..MaxMessages /\ batch \in SUBSET MessageIDs
      BY <1>5, <1>6
    <3>2. Polled(a, next, batch) \in
            {Polled(b, n, ids) : b \in Agents, n \in 0..MaxMessages,
                                 ids \in SUBSET MessageIDs}
      BY <3>1
    <3> QED
      BY <3>2 DEF CallRecords
  <2>4. a \notin unwritten => Reaches(next, z, a, received[a] \cup batch)
    <3> SUFFICES ASSUME a \notin unwritten
                 PROVE  Reaches(next, z, a, received[a] \cup batch)
      OBVIOUS
    <3>1. Reaches(cursor, s, a, received[a])
      BY DEF CursorInv, Serves
    <3>2. s.inboxes = inboxes
      BY SnapshotFields
    <3>3. Covered(cursor, box, received[a])
      BY <1>4, <3>1, <3>2, ZeroCovered DEF Reaches
    <3>4. Covered(next, box, received[a] \cup batch)
      BY <1>2, <1>4, <3>3, PollCovers
    <3> HIDE DEF next, batch, s, z
    <3>5. Reaches(next, s, a, received[a] \cup batch)
      BY <1>4, <3>2, <3>4 DEF Reaches
    <3>6. GrownTo(s, z)
      BY <1>3, StoreGrows DEF s, z
    <3> QED
      BY <1>5, <3>5, <3>6, ReachesGrown
  <2> HIDE DEF call, next, batch, z
  <2>5. Written(call) => Brings(call, z, received)
    BY <2>2, <2>4 DEF Written, Brings
  <2>6. \A c : Written(c)' <=> Written(c)
    BY <2>1 DEF Written
  <2>7. \A k \in DOMAIN calls' :
          Written(calls'[k]) => Brings(calls'[k], z, received)
    <3>1. calls \in Seq(CallRecords)
      BY DEF JsonInv, ClientTypes
    <3>2. \A k \in DOMAIN calls' :
            \/ k \in DOMAIN calls /\ calls'[k] = calls[k]
            \/ calls'[k] = call
      BY <2>1, <2>3, <3>1, AppendProperties, LenProperties
    <3> QED
      BY <1>7, <2>5, <3>2
  <2>8. z = stateSnapshot'
    BY DEF z
  <2> QED
    BY <1>7, <1>8, <1>9, <2>1, <2>6, <2>7, <2>8 DEF CursorInv, Serves
<1>12. CASE /\ out = << >> /\ ~(Clamp(box, cursor) > box.base)
            /\ cursors' = [cursors EXCEPT ![a] = @ \cup {next}]
            /\ received' = [received EXCEPT ![a] = @ \cup batch]
            /\ UNCHANGED <<file, up, crashes, calls, writing, unwritten, receipts,
                           answeredAcks>>
  <2>1. box.events = << >> /\ next = box.base
    BY <1>2, <1>4, <1>12, PollFindsEnd
  <2>2. batch = {}
    BY <1>12
  <2> HIDE DEF batch, next, out
  <2>3. /\ cursors' = [cursors EXCEPT ![a] = cursors[a] \cup {next}]
        /\ UNCHANGED <<file, up, calls, writing, unwritten>>
    BY <1>12
  <2>4. received' = received
    <3>1. received \in [Agents -> SUBSET MessageIDs]
      BY DEF JsonInv, ClientTypes
    <3> QED
      BY <1>12, <2>2, <3>1
  <2>5. a \notin unwritten => next = 0 \/ \E c \in cursors[a] : next <= c
    BY <1>4, <2>1, SnapshotFields DEF CursorInv, Serves, Drained
  <2>6. \A c \in cursors[a] : c \in Nat
    BY Bounds DEF JsonInv, ClientTypes
  <2>7. ASSUME NEW t, InboxesIn(t), a \notin unwritten,
               \A c \in cursors[a] : Reaches(c, t, a, received[a])
        PROVE  Reaches(next, t, a, received[a])
    BY <1>5, <2>5, <2>6, <2>7, ReachesBelow DEF Reaches
  <2>8. ASSUME NEW t, InboxesIn(t), NEW b \in Agents \ unwritten,
               Serves(t, b, cursors[b], received[b])
        PROVE  Serves(t, b, cursors'[b], received[b])
    <3>1. cursors'[b] = IF b = a THEN cursors[b] \cup {next} ELSE cursors[b]
      BY <2>3 DEF JsonInv, ClientTypes
    <3>2. \A c \in cursors'[b] : Reaches(c, t, b, received[b])
      BY <2>7, <2>8, <3>1 DEF Serves
    <3>3. Drained(t, b, cursors'[b])
      BY <2>8, <3>1 DEF Serves, Drained
    <3> QED
      BY <3>2, <3>3 DEF Serves
  <2>9. \A b \in Agents \ unwritten :
          /\ Serves(file, b, cursors'[b], received[b])
          /\ \A w \in writing : Serves(w.state, b, cursors'[b], received[b])
    BY <2>8 DEF CursorInv
  <2>10. \A b \in Agents \ unwritten : Serves(z, b, cursors'[b], received[b])
    <3> HIDE DEF z
    <3>1. \A b \in Agents \ unwritten : Serves(z, b, cursors[b], received[b])
      BY <1>7, <1>8 DEF Serves
    <3> QED
      BY <1>7, <2>8, <3>1
  <2>11. \A c : Written(c)' <=> Written(c)
    BY <2>3 DEF Written
  <2> HIDE DEF z
  <2>12. z = stateSnapshot'
    BY DEF z
  <2> QED
    BY <1>7, <1>9, <2>3, <2>4, <2>9, <2>10, <2>11, <2>12 DEF CursorInv
<1> QED
  BY <1>1, <1>10, <1>11, <1>12

\* An answer that a snapshot honours joins what the client has already.
LEMMA AnswerServes ==
  ASSUME NEW t, NEW a, NEW curs, NEW got, NEW n, NEW batch,
         Serves(t, a, curs, got), Reaches(n, t, a, got \cup batch)
  PROVE  Serves(t, a, curs \cup {n}, got \cup batch)
<1>1. \A c \in curs : Reaches(c, t, a, got \cup batch)
  BY ReachesMore DEF Serves
<1>2. Drained(t, a, curs \cup {n})
  BY DEF Serves, Drained
<1> QED
  BY <1>1, <1>2 DEF Serves

(* The file is renamed or the write fails, and the answer goes out or is   *)
(* lost.  Once the client has the cursor of a poll, the file has the       *)
(* inbox that the cursor counts in; else the client joins unwritten.       *)
LEMMA EndPersistCursors ==
  ASSUME JsonInv, CursorInv, NEW w \in writing, NEW written \in BOOLEAN,
         NEW arrives \in BOOLEAN, EndPersist(w, written, arrives)
  PROVE  CursorInv'
<1> DEFINE c == w.call
           tells == arrives /\ (written \/ c.kind = "poll")
<1>1. /\ writing' = writing \ {w}
      /\ file' = IF written THEN w.state ELSE file
      /\ IF tells THEN Answer(c, written) ELSE UNCHANGED jsonClients
      /\ UNCHANGED <<vars, up, crashes, calls>>
  BY DEF EndPersist
<1>2. /\ \A v \in writing : v = w
      /\ c \in CallRecords /\ up
  BY DEF JsonInv, Writing, ClientTypes
<1>3. writing' = {}
  BY <1>1, <1>2
<1>4. /\ c.kind \in {"plain", "send", "ack", "poll"}
      /\ c.kind = "poll" => c.agent \in Agents
  BY <1>2, CallFields
<1>5. /\ cursors \in [Agents -> SUBSET (0..MaxMessages)]
      /\ received \in [Agents -> SUBSET MessageIDs]
  BY DEF JsonInv, ClientTypes
<1>6. stateSnapshot' = stateSnapshot /\ inboxes' = inboxes /\ up' = up
  BY <1>1 DEF vars, stateSnapshot
<1>7. InboxesIn(file')
  BY <1>1 DEF CursorInv
<1>8. Written(c) => Brings(c, w.state, received) /\ Brings(c, stateSnapshot, received)
  BY DEF CursorInv
<1> HIDE DEF c
<1>9. CASE ~(tells /\ c.kind = "poll")
  <2>1. UNCHANGED <<cursors, received, unwritten>>
    <3>1. CASE tells
      BY <1>1, <1>9, <3>1 DEF Answer
    <3>2. CASE ~tells
      BY <1>1, <3>2 DEF jsonClients
    <3> QED
      BY <3>1, <3>2
  <2>2. \A d : Written(d)' <=> Written(d)
    BY <2>1 DEF Written
  <2>3. \A a \in Agents \ unwritten : Serves(file', a, cursors[a], received[a])
    BY <1>1 DEF CursorInv
  <2> QED
    BY <1>1, <1>2, <1>3, <1>6, <1>7, <2>1, <2>2, <2>3 DEF CursorInv
<1>10. CASE tells /\ c.kind = "poll"
  <2>1. /\ unwritten' = IF written THEN unwritten ELSE unwritten \cup {c.agent}
        /\ cursors' = [cursors EXCEPT ![c.agent] = cursors[c.agent] \cup {c.next}]
        /\ received' = [received EXCEPT ![c.agent] = received[c.agent] \cup c.batch]
    BY <1>1, <1>10 DEF Answer
  <2>2. \A a \in Agents : received[a] \subseteq received'[a]
    BY <1>5, <2>1
  <2>3. \A d : Written(d)' => Written(d)
    BY <2>1 DEF Written
  <2>4. ASSUME NEW a \in Agents \ unwritten', NEW t,
               Serves(t, a, cursors[a], received[a]),
               Written(c) => Brings(c, t, received)
        PROVE  Serves(t, a, cursors'[a], received'[a])
    <3>1. CASE a # c.agent
      BY <1>5, <2>1, <2>4, <3>1
    <3>2. CASE a = c.agent
      <4>1. Written(c)
        BY <2>1, <3>2 DEF Written
      <4>2. Reaches(c.next, t, a, received[a] \cup c.batch)
        BY <1>10, <2>4, <3>2, <4>1 DEF Brings
      <4>3. /\ cursors'[a] = cursors[a] \cup {c.next}
            /\ received'[a] = received[a] \cup c.batch
        BY <1>5, <2>1, <3>2
      <4>4. Serves(t, a, cursors[a] \cup {c.next}, received[a] \cup c.batch)
        BY <2>4, <4>2, AnswerServes
      <4> QED
        BY <4>3, <4>4
    <3> QED
      BY <3>1, <3>2
  <2>5. \A a \in Agents \ unwritten' :
          Serves(stateSnapshot, a, cursors'[a], received'[a])
    <3>1. \A a \in Agents \ unwritten' :
            Serves(stateSnapshot, a, cursors[a], received[a])
      BY <1>2, <2>1 DEF CursorInv
    <3> QED
      BY <1>8, <2>4, <3>1
  <2>6. \A a \in Agents \ unwritten' : Serves(file', a, cursors'[a], received'[a])
    <3>1. CASE written
      <4>1. \A a \in Agents \ unwritten' : Serves(w.state, a, cursors[a], received[a])
        BY <2>1 DEF CursorInv
      <4>2. \A a \in Agents \ unwritten' :
              Serves(w.state, a, cursors'[a], received'[a])
        BY <1>8, <2>4, <4>1
      <4> QED
        BY <1>1, <3>1, <4>2
    <3>2. CASE ~written
      <4>1. \A a \in Agents \ unwritten' : Serves(file, a, cursors[a], received[a])
        BY <2>1 DEF CursorInv
      <4>2. \A a \in Agents \ unwritten' :
              cursors'[a] = cursors[a] /\ received'[a] = received[a]
        BY <1>5, <2>1, <3>2
      <4> QED
        BY <1>1, <3>2, <4>1, <4>2
    <3> QED
      BY <3>1, <3>2
  <2>7. \A k \in DOMAIN calls :
          Written(calls[k])' => Brings(calls[k], stateSnapshot, received')
    <3>1. ASSUME NEW k \in DOMAIN calls, Written(calls[k])'
          PROVE  Brings(calls[k], stateSnapshot, received')
      <4>1. PICK d : d = calls[k]
        OBVIOUS
      <4>2. d \in CallRecords
        BY <4>1, ElementOfSeq DEF JsonInv, ClientTypes
      <4>3. d.kind = "poll" => d.agent \in Agents
        BY <4>2, CallFields
      <4>4. Written(d)
        <5>1. calls' = calls
          BY <1>1
        <5> QED
          BY <2>1, <3>1, <4>1, <5>1 DEF Written
      <4>5. Brings(d, stateSnapshot, received)
        BY <4>1, <4>4 DEF CursorInv
      <4>6. Brings(d, stateSnapshot, received')
        <5> SUFFICES ASSUME d.kind = "poll"
                     PROVE  Reaches(d.next, stateSnapshot, d.agent,
                                    received'[d.agent] \cup d.batch)
          BY DEF Brings
        <5>1. Reaches(d.next, stateSnapshot, d.agent,
                      received[d.agent] \cup d.batch)
          BY <4>5 DEF Brings
        <5>2. received[d.agent] \cup d.batch \subseteq received'[d.agent] \cup d.batch
          BY <2>2, <4>3
        <5> QED
          BY <5>1, <5>2, ReachesMore
      <4> QED
        BY <4>1, <4>6
    <3> QED
      BY <3>1
  <2>8. calls' = calls
    BY <1>1
  <2> QED
    BY <1>2, <1>3, <1>6, <1>7, <2>5, <2>6, <2>7, <2>8 DEF CursorInv
<1> QED
  BY <1>9, <1>10

\* Every step that prunes no agent of a running process preserves the invariant.
LEMMA JsonNextCursors ==
  ASSUME JsonInv, CursorInv, [JsonNext]_jsonVars, up' => InboxesStay
  PROVE  CursorInv'
<1> DEFINE quiet == UNCHANGED <<file, up, crashes, calls, writing, jsonClients>>
<1>1. CASE (Tick \/ ReadClock) /\ quiet
  <2>1. UNCHANGED <<stateSnapshot, file, up, calls, writing, cursors, received,
                    unwritten>>
    BY <1>1 DEF Tick, ReadClock, stateSnapshot, jsonClients
  <2> QED
    BY <2>1, StillCursors
<1>2. CASE up /\ Sweep /\ quiet
  BY <1>2, SweepCursors
<1>3. CASE up /\ JsonCall
  <2>1. CASE (Call \/ UNCHANGED vars) /\ Quietly
    <3>1. up'
      BY <1>3, <2>1 DEF Quietly
    <3> QED
      BY <1>3, <2>1, <3>1, CallCursors
  <2>2. CASE \E a \in Agents, limit \in Limits, waits \in BOOLEAN :
               \E cursor \in cursors[a] : JsonPoll(a, cursor, limit, waits)
    <3>1. PICK a \in Agents, limit \in Limits, waits \in BOOLEAN :
            \E cursor \in cursors[a] : JsonPoll(a, cursor, limit, waits)
      BY <2>2
    <3>2. PICK cursor \in cursors[a] : JsonPoll(a, cursor, limit, waits)
      BY <3>1
    <3>3. up'
      BY <1>3, <3>2 DEF JsonPoll, Enter
    <3> QED
      BY <1>3, <3>2, <3>3, PollCursors
  <2> QED
    BY <1>3, <2>1, <2>2, JsonCallKinds
<1>4. CASE \E k \in DOMAIN calls : BeginPersist(k)
  BY <1>4, BeginPersistCursors
<1>5. CASE \E w \in writing, written \in BOOLEAN, arrives \in BOOLEAN :
             EndPersist(w, written, arrives)
  BY <1>5, EndPersistCursors
<1>6. CASE up /\ JsonCrash
  BY <1>6, CrashCursors
<1>7. CASE JsonRestart
  BY <1>7, RestartCursors
<1>8. CASE UNCHANGED jsonVars
  <2>1. UNCHANGED <<stateSnapshot, file, up, calls, writing, cursors, received,
                    unwritten>>
    BY <1>8 DEF jsonVars, vars, stateSnapshot, jsonClients
  <2> QED
    BY <2>1, StillCursors
<1> QED
  BY <1>1, <1>2, <1>3, <1>4, <1>5, <1>6, <1>7, <1>8 DEF JsonNext

\* No inbox yet, and cursor 0 everywhere.
LEMMA JsonInitCursors ==
  ASSUME JsonInit
  PROVE  CursorInv
<1>1. file = stateSnapshot /\ DOMAIN stateSnapshot.inboxes = {}
  BY DEF JsonInit, Init, stateSnapshot
<1>2. \A a \in Agents : cursors[a] = {0}
  BY DEF JsonInit
<1>3. \A a \in Agents : Serves(stateSnapshot, a, cursors[a], received[a])
  BY <1>1, <1>2 DEF Serves, Reaches, Drained
<1>4. InboxesIn(stateSnapshot)
  BY <1>1 DEF InboxesIn
<1> QED
  BY <1>1, <1>3, <1>4 DEF JsonInit, CursorInv

\* What a step may reclaim from the inbox of agent a.
ReclaimedBy(a) ==
  inboxes'[a].base > inboxes[a].base
  /\ UNCHANGED <<lastSweepAt, nextMessageID>> =>
    \A k \in 1..inboxes'[a].base - inboxes[a].base :
      inboxes[a].events[k].msg \in received[a]

\* Without a sweep or a new message only a poll changes an inbox.
LEMMA OnlyPollsReclaim ==
  ASSUME JsonInv, CursorInv, [JsonNext]_jsonVars,
         NEW a \in DOMAIN inboxes \cap DOMAIN inboxes', inboxes'[a] # inboxes[a],
         lastSweepAt' = lastSweepAt, nextMessageID' = nextMessageID
  PROVE  up /\ \E b \in Agents : \E cursor \in cursors[b] : PollInbox(b, cursor)
<1>1. TypeOK
  BY DEF JsonInv, StoreInv
<1>2. CASE (Tick \/ ReadClock) \/ UNCHANGED vars
  BY <1>2 DEF Tick, ReadClock, vars
<1>3. CASE Sweep
  BY <1>1, <1>3, SweepMoves
<1>4. CASE up /\ JsonCall
  <2>1. CASE (Call \/ UNCHANGED vars) /\ Quietly
    BY <1>1, <1>2, <2>1, CallReclaimsNothing
  <2>2. CASE \E b \in Agents, limit \in Limits, waits \in BOOLEAN :
               \E cursor \in cursors[b] : JsonPoll(b, cursor, limit, waits)
    BY <1>4, <2>2 DEF JsonPoll
  <2> QED
    BY <1>4, <2>1, <2>2, JsonCallKinds
<1>5. CASE \/ \E k \in DOMAIN calls : BeginPersist(k)
           \/ \E w \in writing, written \in BOOLEAN, arrives \in BOOLEAN :
                EndPersist(w, written, arrives)
  BY <1>2, <1>5 DEF BeginPersist, EndPersist
<1>6. CASE JsonCrash
  BY <1>6 DEF JsonCrash
<1>7. CASE JsonRestart
  BY <1>7 DEF JsonRestart, CursorInv
<1>8. CASE UNCHANGED jsonVars
  BY <1>2, <1>8 DEF jsonVars
<1> QED
  BY <1>2, <1>3, <1>4, <1>5, <1>6, <1>7, <1>8 DEF JsonNext

\* A poll reclaims what its cursor covers, and the runtime state honours that.
LEMMA JsonStepReclaims ==
  ASSUME JsonInv, CursorInv, [JsonNext]_jsonVars,
         NEW a \in (DOMAIN inboxes \cap DOMAIN inboxes') \ unwritten
  PROVE  ReclaimedBy(a)
<1> SUFFICES ASSUME inboxes'[a].base > inboxes[a].base,
                    lastSweepAt' = lastSweepAt, nextMessageID' = nextMessageID,
                    NEW k \in 1..inboxes'[a].base - inboxes[a].base
             PROVE  inboxes[a].events[k].msg \in received[a]
  BY DEF ReclaimedBy
<1>1. inboxes[a] \in Inbox /\ a \in Agents
  BY BoxTypes DEF JsonInv, StoreInv, TypeOK
<1>2. inboxes'[a] # inboxes[a]
  <2>1. inboxes[a].base \in Nat
    BY <1>1 DEF Inbox
  <2> QED
    BY <2>1
<1>3. up /\ \E b \in Agents : \E cursor \in cursors[b] : PollInbox(b, cursor)
  BY <1>2, OnlyPollsReclaim
<1>4. PICK b \in Agents : \E cursor \in cursors[b] : PollInbox(b, cursor)
  BY <1>3
<1>5. PICK cursor \in cursors[b] : PollInbox(b, cursor)
  BY <1>4
<1>6. b = a /\ inboxes'[a] = dropInboxPrefix(inboxes[a],
                               Clamp(inboxes[a], cursor) - inboxes[a].base)
  BY <1>2, <1>5 DEF PollInbox
<1>7. cursor \in Nat
  BY Bounds DEF JsonInv, ClientTypes
<1>8. Reaches(cursor, stateSnapshot, a, received[a])
  BY <1>1, <1>3, <1>6 DEF CursorInv, Serves
<1>9. Covered(cursor, inboxes[a], received[a])
  BY <1>1, <1>8, ZeroCovered, SnapshotFields DEF Reaches
<1>10. inboxes'[a].base - inboxes[a].base = Clamp(inboxes[a], cursor) - inboxes[a].base
  <2>1. /\ inboxes[a].base \in Nat
        /\ Clamp(inboxes[a], cursor) - inboxes[a].base \in Nat
    BY <1>1, <1>7, ClampRange DEF Inbox
  <2>2. inboxes'[a].base =
          inboxes[a].base + (Clamp(inboxes[a], cursor) - inboxes[a].base)
    BY <1>6 DEF dropInboxPrefix
  <2> QED
    BY <2>1, <2>2
<1> QED
  BY <1>1, <1>7, <1>9, <1>10, PollReclaims

(* The running process prunes no agent.  pruneLocked deletes an inbox with *)
(* its base, and an agent that registers again starts at 0, while its      *)
(* client may come with a cursor of the old numbering.                     *)
NothingPruned == [][up' => InboxesStay]_jsonVars

(* Cursors survive the state file: whatever calls wait for p.mu, whatever  *)
(* writes fail, answers are lost and crashes take back, the events that a  *)
(* poll reclaims have reached the client (dropInboxPrefix behind           *)
(* persist and load), though numbers of unwritten events are given out     *)
(* again after a crash.                                                    *)
THEOREM CursorsOutliveFileHolds ==
  JsonSpec /\ NothingPruned => CursorsOutliveFile
<1> DEFINE P == \A a \in (DOMAIN inboxes \cap DOMAIN inboxes') \ unwritten :
                  ReclaimedBy(a)
           S == up' => InboxesStay
<1>1. JsonInit => CursorInv
  BY JsonInitCursors
<1>2. JsonInv /\ CursorInv /\ [JsonNext]_jsonVars /\ [S]_jsonVars => CursorInv'
  <2> SUFFICES ASSUME JsonInv, CursorInv, [JsonNext]_jsonVars, [S]_jsonVars
               PROVE  CursorInv'
    OBVIOUS
  <2>1. S
    BY DEF InboxesStay, jsonVars, vars
  <2> QED
    BY <2>1, JsonNextCursors
<1>3. JsonInv /\ CursorInv /\ [JsonNext]_jsonVars => [P]_jsonVars
  BY JsonStepReclaims
<1>4. NothingPruned <=> [][S]_jsonVars
  BY DEF NothingPruned
<1>5. JsonSpec /\ NothingPruned => [][P]_jsonVars
  BY <1>1, <1>2, <1>3, <1>4, JsonInvariant, PTL DEF JsonSpec
<1> QED
  BY <1>5 DEF CursorsOutliveFile, ReclaimedBy

\* A step of the backend is one of the store, a crash or a restart.
LEMMA JsonSteps ==
  ASSUME JsonInv, [JsonNext]_jsonVars
  PROVE  [Next]_vars \/ JsonCrash \/ JsonRestart
<1>1. CASE \E a \in Agents, limit \in Limits, waits \in BOOLEAN :
             \E cursor \in cursors[a] : JsonPoll(a, cursor, limit, waits)
  <2>1. PICK a \in Agents : \E cursor \in cursors[a] : PollInbox(a, cursor)
    BY <1>1 DEF JsonPoll
  <2>2. \A cursor \in cursors[a] : cursor \in 0..MaxMessages + 1
    BY Bounds DEF JsonInv, ClientTypes
  <2> QED
    BY <2>1, <2>2 DEF Next
<1>2. CASE JsonCall
  BY <1>1, <1>2, JsonCallKinds DEF Next
<1>3. CASE Tick \/ ReadClock \/ Sweep
  BY <1>3 DEF Next
<1>4. CASE UNCHANGED vars
  BY <1>4
<1> QED
  BY <1>1, <1>2, <1>3, <1>4 DEF JsonNext, BeginPersist, EndPersist, jsonVars

(* With AgentRetention = 0, which switches the pruning of agents off, the  *)
(* backend needs no other condition.                                       *)
THEOREM CursorsOutliveWithoutRetention ==
  ASSUME AgentRetention = 0
  PROVE  JsonSpec => CursorsOutliveFile
<1>1. JsonInv /\ CursorInv /\ [JsonNext]_jsonVars => [up' => InboxesStay]_jsonVars
  <2> SUFFICES ASSUME JsonInv, CursorInv, [JsonNext]_jsonVars, up'
               PROVE  InboxesStay
    OBVIOUS
  <2>1. CASE [Next]_vars
    BY <2>1, StaysWithoutRetention DEF JsonInv, StoreInv
  <2>2. CASE JsonCrash
    BY <2>2 DEF JsonCrash
  <2>3. CASE JsonRestart
    BY <2>3 DEF JsonRestart, CursorInv, InboxesStay
  <2> QED
    BY <2>1, <2>2, <2>3, JsonSteps
<1>2. JsonInv /\ CursorInv /\ [JsonNext]_jsonVars => CursorInv'
  <2>1. UNCHANGED jsonVars => InboxesStay
    BY DEF InboxesStay, jsonVars, vars
  <2> QED
    BY <1>1, <2>1, JsonNextCursors
<1>3. JsonInit => CursorInv
  BY JsonInitCursors
<1>4. JsonSpec => NothingPruned
  BY <1>1, <1>2, <1>3, JsonInvariant, PTL DEF JsonSpec, NothingPruned
<1> QED
  BY <1>4, CursorsOutliveFileHolds
=============================================================================
