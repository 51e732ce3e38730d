----------------------------- MODULE JsonStore -----------------------------
(***************************************************************************)
(* The JSON-file backend (pkg/bus/persistent.go): every call first changes *)
(* the runtime state of Store and then, having let go of s.mu, rewrites    *)
(* the state file with a fresh snapshot under p.mu.  In between, others    *)
(* see and use what is not durable yet.  Renaming the temporary file is    *)
(* the commit; a crash before it leaves the old file.                      *)
(***************************************************************************)
EXTENDS Backend

VARIABLES
  file,        \* the state file
  calls,       \* calls that have changed the state and wait for p.mu
  writing,     \* calls that write the file, with their snapshot
  received,    \* agent -> messages whose event reached the client
  unwritten,   \* agents that got a poll's answer although its write failed
  receipts,    \* idempotency key and entry of every answered send
  answeredAcks \* messages whose Ack, or event after delivery, was answered

jsonClients == <<cursors, received, unwritten, receipts, answeredAcks>>
jsonVars == <<vars, file, up, crashes, calls, writing, jsonClients>>

JsonTypeOK ==
  /\ TypeOK
  /\ up \in BOOLEAN
  /\ crashes \in 0..MaxCrashes
  /\ Len(calls) <= MaxInFlight
  /\ cursors \in [Agents -> SUBSET (0..MaxMessages)]
  /\ received \in [Agents -> SUBSET MessageIDs]
  /\ unwritten \subseteq Agents
  /\ receipts \subseteq Key \X Entry
  /\ answeredAcks \subseteq MessageIDs

stateSnapshot ==
  [agents |-> agents, messages |-> messages, inboxes |-> inboxes,
   idempotency |-> idempotency, conversations |-> conversations,
   nextMessageID |-> nextMessageID, nextConversationID |-> nextConversationID]

\* A process without a state file starts like one with an empty file.
JsonInit ==
  /\ Init
  /\ file = stateSnapshot
  /\ up = TRUE
  /\ crashes = 0
  /\ calls = << >>
  /\ writing = {}
  /\ cursors = [a \in Agents |-> {0}]
  /\ received = [a \in Agents |-> {}]
  /\ unwritten = {}
  /\ receipts = {}
  /\ answeredAcks = {}

(***************************************************************************)
(* The calls                                                               *)
(***************************************************************************)
\* What a call tells its client, once it is answered.
Plain == [kind |-> "plain"]
Sent(key, entry) == [kind |-> "send", key |-> key, entry |-> entry]
Heard(id) == [kind |-> "ack", msg |-> id]
Polled(a, next, batch) ==
  [kind |-> "poll", agent |-> a, next |-> next, batch |-> batch]

\* The call goes on to persist.
Enter(call) ==
  /\ Len(calls) < MaxInFlight
  /\ calls' = Append(calls, call)
  /\ UNCHANGED <<file, up, crashes, writing, jsonClients>>

JsonRegister(a, ttl, mode) == RegisterAgent(a, ttl, mode) /\ Enter(Plain)

\* A refused creation is answered without persisting.
JsonCreate(actor, choice, names) ==
  LET id == ConversationID(choice)
  IN  /\ CreateConversation(actor, choice, names)
      /\ IF /\ id \in DOMAIN conversations'
            /\ AllAccessible(actor, conversations'[id].participants \cup names)
         THEN Enter(Plain)
         ELSE UNCHANGED <<file, up, crashes, calls, writing, jsonClients>>

JsonSend(from, to, req, type, choice, ttl, size) ==
  LET key == <<from, to, req>>
  IN  /\ SendMessage(from, to, req, type, choice, ttl, size)
      /\ Enter(Sent(key, idempotency'[key]))

\* A duplicate is answered with the original, and persisted all the same.
JsonRetry(from, to, req) ==
  LET key == <<from, to, req>>
  IN  /\ ~SweepDue
      /\ Active(from) /\ CanAccess(from, from) /\ MayPublish(from, to)
      /\ to \in DOMAIN agents
      /\ Duplicate(key)
      /\ Enter(Sent(key, idempotency[key]))
      /\ UNCHANGED vars

JsonInject(to, choice, size) == Inject(to, choice, size) /\ Enter(Plain)

JsonAck(a, id, status) == Ack(a, id, status) /\ Enter(Heard(id))

\* Progress on a request that is still queued leaves it to be delivered.
JsonEvent(a, id, type) ==
  /\ PostEvent(a, id, type)
  /\ Enter(IF messages'[id].state = "pending" THEN Plain ELSE Heard(id))

\* ack and postEvent succeed, and persist, when the message is terminal.
JsonLate(a, id) ==
  /\ ~SweepDue
  /\ id \in DOMAIN messages
  /\ messages[id].type = "request" /\ messages[id].to = a
  /\ isTerminal(messages[id].state)
  /\ Enter(Heard(id))
  /\ UNCHANGED vars

\* Mutation: only what a poll reclaims is worth a write.
PersistsReclaimed(box, cursor, limit) == Clamp(box, cursor) > box.base

\* A poll persists when it returns events or has moved the base.
PersistsPoll(box, cursor, limit) ==
  \/ PollResult(box, cursor, limit) # << >>
  \/ Clamp(box, cursor) > box.base

(* One pass of PollInbox.  A pass that finds nothing may go to sleep, with *)
(* what it reclaimed not persisted, or return.                             *)
JsonPoll(a, cursor, limit, waits) ==
  LET box  == inboxes[a]
      out  == PollResult(box, cursor, limit)
      next == NextCursor(box, cursor, limit)
  IN  /\ PollInbox(a, cursor)
      /\ waits => out = << >>
      /\ \/ /\ ~waits /\ PersistsPoll(box, cursor, limit)
            /\ Enter(Polled(a, next, {out[k].msg : k \in DOMAIN out}))
         \/ /\ ~waits /\ ~PersistsPoll(box, cursor, limit)
            /\ cursors' = [cursors EXCEPT ![a] = @ \cup {next}]
            /\ received' = [received EXCEPT
                              ![a] = @ \cup {out[k].msg : k \in DOMAIN out}]
            /\ UNCHANGED <<file, up, crashes, calls, writing, unwritten, receipts,
                           answeredAcks>>
         \/ /\ waits
            /\ UNCHANGED <<file, up, crashes, calls, writing, jsonClients>>

(***************************************************************************)
(* persist                                                                 *)
(***************************************************************************)
\* Mutation: p.mu is not held from the snapshot to the rename.
PersistUnlocked(k) ==
  /\ writing' = writing \cup {[call |-> calls[k], state |-> stateSnapshot]}
  /\ calls' = RemoveAt(calls, k)
  /\ UNCHANGED <<vars, file, up, crashes, jsonClients>>

\* p.mu is held from here to the end of persist.
BeginPersist(k) ==
  /\ writing = {}
  /\ writing' = {[call |-> calls[k], state |-> stateSnapshot]}
  /\ calls' = RemoveAt(calls, k)
  /\ UNCHANGED <<vars, file, up, crashes, jsonClients>>

\* What the clients know after the call was answered.
Answer(call, written) ==
  /\ unwritten' = IF written THEN unwritten ELSE unwritten \cup {call.agent}
  /\ receipts' = IF call.kind = "send"
                 THEN receipts \cup {<<call.key, call.entry>>} ELSE receipts
  /\ answeredAcks' = IF call.kind # "ack" THEN answeredAcks
                     ELSE answeredAcks \cup {call.msg}
  /\ cursors' = IF call.kind # "poll" THEN cursors
                ELSE [cursors EXCEPT ![call.agent] = @ \cup {call.next}]
  /\ received' = IF call.kind # "poll" THEN received
                 ELSE [received EXCEPT ![call.agent] = @ \cup call.batch]

(* A call that could not be persisted is answered with the error, but a    *)
(* poll with its events (persistBestEffort).  The answer may be lost.      *)
EndPersist(w, written, arrives) ==
  /\ w \in writing
  /\ writing' = writing \ {w}
  /\ file' = IF written THEN w.state ELSE file
  /\ IF arrives /\ (written \/ w.call.kind = "poll")
     THEN Answer(w.call, written) ELSE UNCHANGED jsonClients
  /\ UNCHANGED <<vars, up, crashes, calls>>

(***************************************************************************)
(* Crash and restart                                                       *)
(***************************************************************************)
JsonCrash ==
  /\ crashes < MaxCrashes
  /\ crashes' = crashes + 1
  /\ up' = FALSE
  /\ lastSweepAt' = 0
  /\ agents' = << >> /\ messages' = << >> /\ inboxes' = << >>
  /\ idempotency' = << >> /\ conversations' = << >>
  /\ nextMessageID' = 0 /\ nextConversationID' = 0
  /\ calls' = << >>
  /\ writing' = {}
  /\ UNCHANGED <<clock, now, file, jsonClients>>

\* Mutation: the counter is not taken from the file.
ReadFromZero(f) == 0
ReadMessageID(f) == f.nextMessageID

(* load and applyState.  A message that never made it into the file has    *)
(* ceased to exist: its id will be given to another one.                   *)
JsonRestart ==
  /\ ~up
  /\ up' = TRUE
  /\ agents' = file.agents
  /\ messages' = file.messages
  /\ inboxes' = file.inboxes
  /\ idempotency' = file.idempotency
  /\ conversations' = file.conversations
  /\ nextMessageID' = ReadMessageID(file)
  /\ nextConversationID' = file.nextConversationID
  /\ received' = [a \in Agents |-> received[a] \cap (1..file.nextMessageID)]
  /\ UNCHANGED <<clock, now, lastSweepAt, file, crashes, calls, writing,
                 cursors, unwritten, receipts, answeredAcks>>

(***************************************************************************)
(* The specification                                                       *)
(***************************************************************************)
JsonCall ==
  \/ \E a \in Agents, ttl \in RegistrationTTLs, mode \in Modes :
       JsonRegister(a, ttl, mode)
  \/ \E actor \in Agents \cup {Nobody}, choice \in ConversationChoices,
        names \in ParticipantChoices : JsonCreate(actor, choice, names)
  \/ \E from, to \in Agents, req \in RequestIDs :
       /\ <<from, to>> \in Routes
       /\ \/ \E type \in SendTypes, choice \in ConversationChoices,
               ttl \in MessageTTLs, size \in Sizes :
               JsonSend(from, to, req, type, choice, ttl, size)
          \/ JsonRetry(from, to, req)
  \/ \E to \in Agents \cup {Nobody}, choice \in ConversationChoices,
        size \in Sizes :
       <<Human, to>> \in Routes /\ JsonInject(to, choice, size)
  \/ \E a \in Agents, id \in MessageIDs :
       \/ \E status \in {"accepted", "rejected"} : JsonAck(a, id, status)
       \/ \E type \in {"progress", "final", "error"} : JsonEvent(a, id, type)
       \/ JsonLate(a, id)
  \/ \E a \in Agents, limit \in Limits, waits \in BOOLEAN :
       \E cursor \in cursors[a] : JsonPoll(a, cursor, limit, waits)

JsonNext ==
  \/ (Tick \/ ReadClock)
     /\ UNCHANGED <<file, up, crashes, calls, writing, jsonClients>>
  \/ up /\ Sweep /\ UNCHANGED <<file, up, crashes, calls, writing, jsonClients>>
  \/ up /\ JsonCall
  \/ \E k \in DOMAIN calls : BeginPersist(k)
  \/ \E w \in writing, written \in BOOLEAN, arrives \in BOOLEAN :
       EndPersist(w, written, arrives)
  \/ up /\ JsonCrash
  \/ JsonRestart

JsonSpec == JsonInit /\ [][JsonNext]_jsonVars

(***************************************************************************)
(* Properties                                                              *)
(***************************************************************************)

(* A send that was answered stays answered: a retry within the window      *)
(* finds the original message, whatever other calls, sweeps and rewrites   *)
(* of the file came between, and through a crash at any of their steps.    *)
AnsweredSendsAreKept ==
  up => \A r \in receipts :
          clock - r[2].at <= IdempotencyWindow =>
            Duplicate(r[1]) /\ idempotency[r[1]] = r[2]

(* Work whose ack or event was answered is not taken back: neither an      *)
(* older snapshot nor a restart shows it as still waiting for an ack.      *)
(* (Progress may be reported on a request that is queued; it stays so.)    *)
AnsweredAcksAreKept ==
  \A id \in answeredAcks :
    /\ id <= file.nextMessageID
    /\ id \in DOMAIN file.messages =>
         file.messages[id].state \in {"executing"} \cup TerminalStates

(* Cursors survive the state file: the events that a poll reclaims have    *)
(* reached the client, although numbers of events that were never written  *)
(* are given out again after a crash.  The exception are clients that got  *)
(* an answer whose write had failed (persistBestEffort).                   *)
CursorsOutliveFile ==
  [][\A a \in (DOMAIN inboxes \cap DOMAIN inboxes') \ unwritten :
       inboxes'[a].base > inboxes[a].base
       /\ UNCHANGED <<lastSweepAt, nextMessageID>> =>
         \A k \in 1..inboxes'[a].base - inboxes[a].base :
           inboxes[a].events[k].msg \in received[a]]_jsonVars
=============================================================================
