-------------------------- MODULE MemoryBusProofs --------------------------
(***************************************************************************)
(* What polling clients can rely on, for every set of agents and limits,   *)
(* every configuration of the store and any loss of responses.             *)
(***************************************************************************)
EXTENDS MemoryBus, StoreProofs

(***************************************************************************)
(* Types                                                                   *)
(***************************************************************************)

(* The inductive invariant of the types.  That a cursor is a number of a   *)
(* message needs EndsCounted: an inbox never comes further than messages   *)
(* were accepted.                                                          *)
BusInv == BusTypeOK /\ EndsCounted

\* Some client polls.
ClientPolls ==
  \E a \in Agents : \E cursor \in cursors[a], limit \in Limits,
                       arrives \in BOOLEAN : Poll(a, cursor, limit, arrives)

\* A poll of the bus is a poll of the store.
LEMMA BusStep ==
  ASSUME BusTypeOK, [BusNext]_busVars
  PROVE  [Next]_vars
<1>1. CASE (Tick \/ ReadClock \/ Sweep \/ Call) /\ UNCHANGED <<cursors, received>>
  BY <1>1 DEF Next
<1>2. CASE ClientPolls
  <2>1. PICK a \in Agents : \E cursor \in cursors[a] : PollInbox(a, cursor)
    BY <1>2 DEF ClientPolls, Poll
  <2>2. \A cursor \in cursors[a] : cursor \in 0..MaxMessages + 1
    BY Bounds DEF BusTypeOK
  <2> QED
    BY <2>1, <2>2 DEF Next
<1>3. CASE UNCHANGED busVars
  BY <1>3 DEF busVars
<1> QED
  BY <1>1, <1>2, <1>3 DEF BusNext, ClientPolls

\* What a poll does to its client, whether or not the response arrives.
LEMMA PollClient ==
  ASSUME BusInv, NEW a \in Agents, NEW cursor \in cursors[a], NEW limit \in Limits,
         NEW arrives \in BOOLEAN, Poll(a, cursor, limit, arrives)
  PROVE  /\ a \in DOMAIN inboxes /\ inboxes[a] \in Inbox
         /\ cursor \in Nat /\ limit \in Nat
         /\ NextCursor(inboxes[a], cursor, limit) \in 0..MaxMessages
         /\ cursors' = [cursors EXCEPT ![a] = cursors'[a]]
         /\ received' = [received EXCEPT ![a] = received'[a]]
         /\ received[a] \subseteq received'[a]
         /\ received'[a] \subseteq MessageIDs
         /\ \A c \in cursors'[a] :
              \/ c \in cursors[a]
              \/ /\ c = NextCursor(inboxes[a], cursor, limit)
                 /\ received'[a] =
                      received[a] \cup
                        {PollResult(inboxes[a], cursor, limit)[k].msg :
                           k \in DOMAIN PollResult(inboxes[a], cursor, limit)}
<1> DEFINE next == NextCursor(inboxes[a], cursor, limit)
           batch == {PollResult(inboxes[a], cursor, limit)[k].msg :
                       k \in DOMAIN PollResult(inboxes[a], cursor, limit)}
<1>1. a \in DOMAIN inboxes
  BY DEF Poll, PollInbox, Active, BusInv, BusTypeOK, TypeOK
<1>2. inboxes[a] \in Inbox
  BY <1>1, BoxTypes DEF BusInv, BusTypeOK
<1>3. cursor \in Nat /\ limit \in Nat
  BY Bounds, LimitsAssumption DEF BusInv, BusTypeOK
<1>4. next \in 0..MaxMessages
  BY <1>1, <1>3, NextCursorInRange DEF BusInv, BusTypeOK
<1>5. batch \subseteq MessageIDs
  BY <1>2, <1>3, PollResultType
<1>6. /\ cursors' = IF ~arrives THEN cursors
                    ELSE [cursors EXCEPT ![a] = @ \cup {next}]
      /\ received' = IF ~arrives THEN received
                     ELSE [received EXCEPT ![a] = @ \cup batch]
  BY DEF Poll
<1>7. /\ cursors \in [Agents -> SUBSET (0..MaxMessages)]
      /\ received \in [Agents -> SUBSET MessageIDs]
  BY DEF BusInv, BusTypeOK
<1> HIDE DEF next, batch
<1>8. /\ cursors' = [cursors EXCEPT ![a] = cursors'[a]]
      /\ received' = [received EXCEPT ![a] = received'[a]]
      /\ received[a] \subseteq received'[a]
      /\ received'[a] \subseteq MessageIDs
      /\ \A c \in cursors'[a] :
           \/ c \in cursors[a]
           \/ c = next /\ received'[a] = received[a] \cup batch
  <2>1. CASE arrives
    BY <1>5, <1>6, <1>7, <2>1
  <2>2. CASE ~arrives
    <3>1. /\ cursors = [cursors EXCEPT ![a] = cursors[a]]
          /\ received = [received EXCEPT ![a] = received[a]]
          /\ received[a] \subseteq MessageIDs
      BY <1>7
    <3>2. cursors' = cursors /\ received' = received
      BY <1>6, <2>2
    <3> QED
      BY <3>1, <3>2
  <2> QED
    BY <2>1, <2>2
<1> QED
  BY <1>1, <1>2, <1>3, <1>4, <1>8 DEF next, batch

\* A step of the bus is a poll or leaves the clients alone.
LEMMA BusCases ==
  ASSUME [BusNext]_busVars
  PROVE  UNCHANGED <<cursors, received>> \/ ClientPolls
BY DEF BusNext, busVars, ClientPolls

\* Every step preserves the types.
LEMMA NextBusInv ==
  ASSUME BusInv, [BusNext]_busVars
  PROVE  BusInv'
<1>1. [Next]_vars
  BY BusStep DEF BusInv
<1>2. TypeOK' /\ EndsCounted'
  BY <1>1, NextType, NextCounted DEF BusInv, BusTypeOK
<1>3. /\ cursors' \in [Agents -> SUBSET (0..MaxMessages)]
      /\ received' \in [Agents -> SUBSET MessageIDs]
  <2>1. /\ cursors \in [Agents -> SUBSET (0..MaxMessages)]
        /\ received \in [Agents -> SUBSET MessageIDs]
    BY DEF BusInv, BusTypeOK
  <2>2. CASE UNCHANGED <<cursors, received>>
    BY <2>1, <2>2
  <2>3. CASE ClientPolls
    <3> PICK a \in Agents :
          \E cursor \in cursors[a], limit \in Limits, arrives \in BOOLEAN :
            Poll(a, cursor, limit, arrives)
      BY <2>3 DEF ClientPolls
    <3>1. PICK cursor \in cursors[a], limit \in Limits, arrives \in BOOLEAN :
            Poll(a, cursor, limit, arrives)
      OBVIOUS
    <3>2. /\ NextCursor(inboxes[a], cursor, limit) \in 0..MaxMessages
          /\ cursors' = [cursors EXCEPT ![a] = cursors'[a]]
          /\ received' = [received EXCEPT ![a] = received'[a]]
          /\ received'[a] \subseteq MessageIDs
          /\ \A c \in cursors'[a] :
               c \in cursors[a] \/ c = NextCursor(inboxes[a], cursor, limit)
      BY <3>1, PollClient
    <3>3. cursors'[a] \subseteq 0..MaxMessages
      BY <2>1, <3>2
    <3> QED
      BY <2>1, <3>2, <3>3
  <2> QED
    BY <2>2, <2>3, BusCases
<1> QED
  BY <1>2, <1>3 DEF BusInv, BusTypeOK

\* BusInv is an invariant.
LEMMA BusInvariant == BusSpec => []BusInv
<1>1. BusInit => BusInv
  <2> SUFFICES ASSUME BusInit
               PROVE  BusInv
    OBVIOUS
  <2>1. TypeOK
    BY Bounds, InputAssumption DEF BusInit, Init, TypeOK
  <2>2. EndsCounted
    BY DEF BusInit, Init, EndsCounted
  <2>3. 0 \in 0..MaxMessages
    BY Bounds
  <2> QED
    BY <2>1, <2>2, <2>3 DEF BusInit, BusInv, BusTypeOK
<1>2. BusInv /\ [BusNext]_busVars => BusInv'
  BY NextBusInv
<1> QED
  BY <1>1, <1>2, PTL DEF BusSpec

(* The bus with its clients stays well typed: no sequence of polls, lost   *)
(* responses, evictions and releases brings a client a cursor beyond the   *)
(* number of messages that were ever accepted.                             *)
THEOREM BusTypeCorrect == BusSpec => []BusTypeOK
<1>1. BusInv => BusTypeOK
  BY DEF BusInv
<1> QED
  BY <1>1, BusInvariant, PTL

(***************************************************************************)
(* What polls reclaim                                                      *)
(***************************************************************************)

(* No agent is pruned.  pruneLocked deletes the inbox of an agent together *)
(* with its base, and an agent that registers again starts at 0, while its *)
(* client may come with a cursor of the old numbering; then the events up  *)
(* to that cursor are reclaimed unseen.                                    *)
NoAgentPruned == [][DOMAIN inboxes \subseteq DOMAIN inboxes']_busVars

(* The inductive invariant: every cursor of a client is covered by what    *)
(* the client has received.  What the caps evicted is not in the inbox and *)
(* need not have been received, and it is never numbered again.            *)
CursorsCovered ==
  \A a \in Agents : \A c \in cursors[a] :
    c # 0 => a \in DOMAIN inboxes /\ Covered(c, inboxes[a], received[a])

\* The inbox of an agent that stays keeps its clients' cursors covered.
LEMMA StaysCovered ==
  ASSUME BusInv, CursorsCovered, [BusNext]_busVars, InboxesStay,
         NEW a \in Agents, NEW c \in cursors[a], c # 0,
         received[a] \subseteq received'[a]
  PROVE  a \in DOMAIN inboxes' /\ Covered(c, inboxes'[a], received'[a])
<1>1. a \in DOMAIN inboxes /\ Covered(c, inboxes[a], received[a])
  BY DEF CursorsCovered
<1>2. a \in DOMAIN inboxes'
  BY <1>1 DEF InboxesStay
<1>3. [Next]_vars
  BY BusStep DEF BusInv
<1>4. TypeOK /\ TypeOK'
  BY <1>3, NextType DEF BusInv, BusTypeOK
<1>5. PICK old : old = inboxes[a]
  OBVIOUS
<1>6. PICK new : new = inboxes'[a]
  OBVIOUS
<1>7. old \in Inbox
  BY <1>1, <1>4, <1>5, BoxTypes
<1>8. new \in Inbox
  BY <1>2, <1>4, <1>6 DEF TypeOK
<1>9. Grows(old, new)
  BY <1>1, <1>2, <1>3, <1>4, <1>5, <1>6, StepGrows
<1>10. c \in Nat
  BY Bounds DEF BusInv, BusTypeOK
<1>11. Covered(c, new, received'[a])
  BY <1>1, <1>5, <1>7, <1>8, <1>9, <1>10, CoveredGrows
<1> QED
  BY <1>2, <1>6, <1>11

\* Every step that prunes no agent preserves the cover.
LEMMA NextCovered ==
  ASSUME BusInv, CursorsCovered, [BusNext]_busVars, InboxesStay
  PROVE  CursorsCovered'
<1>1. /\ cursors \in [Agents -> SUBSET (0..MaxMessages)]
      /\ received \in [Agents -> SUBSET MessageIDs]
  BY DEF BusInv, BusTypeOK
<1>2. CASE UNCHANGED <<cursors, received>>
  <2>1. ASSUME NEW a \in Agents, NEW c \in cursors'[a]
        PROVE  c # 0 => a \in DOMAIN inboxes' /\ Covered(c, inboxes'[a], received'[a])
    <3>1. c \in cursors[a] /\ received'[a] = received[a]
      BY <1>2, <2>1
    <3>2. received[a] \subseteq received'[a]
      BY <3>1
    <3> QED
      BY <3>1, <3>2, StaysCovered
  <2> QED
    BY <2>1 DEF CursorsCovered
<1>3. CASE ClientPolls
  <2> PICK a \in Agents :
        \E cursor \in cursors[a], limit \in Limits, arrives \in BOOLEAN :
          Poll(a, cursor, limit, arrives)
    BY <1>3 DEF ClientPolls
  <2>1. PICK cursor \in cursors[a], limit \in Limits, arrives \in BOOLEAN :
          Poll(a, cursor, limit, arrives)
    OBVIOUS
  <2> DEFINE next == NextCursor(inboxes[a], cursor, limit)
             batch == {PollResult(inboxes[a], cursor, limit)[k].msg :
                         k \in DOMAIN PollResult(inboxes[a], cursor, limit)}
  <2>2. /\ a \in DOMAIN inboxes /\ inboxes[a] \in Inbox
        /\ cursor \in Nat /\ limit \in Nat
        /\ next \in 0..MaxMessages
        /\ cursors' = [cursors EXCEPT ![a] = cursors'[a]]
        /\ received' = [received EXCEPT ![a] = received'[a]]
        /\ received[a] \subseteq received'[a]
        /\ \A c \in cursors'[a] :
             \/ c \in cursors[a]
             \/ c = next /\ received'[a] = received[a] \cup batch
    BY <2>1, PollClient
  <2>3. Covered(cursor, inboxes[a], received[a])
    BY <2>2, ZeroCovered DEF CursorsCovered
  <2>4. Covered(next, inboxes[a], received[a] \cup batch)
    BY <2>2, <2>3, PollCovers
  <2> HIDE DEF batch
  <2>5. a \in DOMAIN inboxes' /\ Grows(inboxes[a], inboxes'[a])
        /\ inboxes'[a] \in Inbox
    <3>1. a \in DOMAIN inboxes'
      BY <2>2 DEF InboxesStay
    <3>2. [Next]_vars /\ TypeOK
      BY BusStep DEF BusInv, BusTypeOK
    <3>3. TypeOK'
      BY <3>2, NextType
    <3> QED
      BY <2>2, <3>1, <3>2, <3>3, StepGrows DEF TypeOK
  <2>6. PICK old \in Inbox : old = inboxes[a]
    BY <2>2
  <2>7. PICK new \in Inbox : new = inboxes'[a]
    BY <2>5
  <2>8. next \in Nat
    BY <2>2, Bounds
  <2> HIDE DEF next
  <2>9. Covered(next, new, received[a] \cup batch)
    BY <2>4, <2>5, <2>6, <2>7, <2>8, CoveredGrows
  <2>10. ASSUME NEW c \in cursors'[a]
         PROVE  c # 0 => a \in DOMAIN inboxes' /\ Covered(c, inboxes'[a], received'[a])
    <3>1. CASE c \in cursors[a] /\ c # 0
      BY <2>2, <3>1, StaysCovered
    <3>2. CASE c = next /\ received'[a] = received[a] \cup batch
      BY <2>5, <2>7, <2>9, <3>2
    <3> QED
      BY <2>2, <2>10, <3>1, <3>2
  <2>11. ASSUME NEW b \in Agents, b # a, NEW c \in cursors'[b]
         PROVE  c # 0 => b \in DOMAIN inboxes' /\ Covered(c, inboxes'[b], received'[b])
    <3>1. c \in cursors[b] /\ received'[b] = received[b]
      BY <1>1, <2>2, <2>11
    <3>2. received[b] \subseteq received'[b]
      BY <3>1
    <3> QED
      BY <3>1, <3>2, StaysCovered
  <2> QED
    BY <2>10, <2>11 DEF CursorsCovered
<1> QED
  BY <1>2, <1>3, BusCases

\* What a step may reclaim from the inbox of agent a.
ReclaimedFrom(a) ==
  inboxes'[a].base > inboxes[a].base
  /\ UNCHANGED <<lastSweepAt, nextMessageID>> =>
    \A k \in 1..inboxes'[a].base - inboxes[a].base :
      inboxes[a].events[k].msg \in received[a]

\* Only a poll reclaims without a sweep or a new message, and only what is covered.
LEMMA StepReclaims ==
  ASSUME BusInv, CursorsCovered, [BusNext]_busVars,
         NEW a \in DOMAIN inboxes \cap DOMAIN inboxes'
  PROVE  ReclaimedFrom(a)
<1> SUFFICES ASSUME inboxes'[a].base > inboxes[a].base,
                    lastSweepAt' = lastSweepAt, nextMessageID' = nextMessageID,
                    NEW k \in 1..inboxes'[a].base - inboxes[a].base
             PROVE  inboxes[a].events[k].msg \in received[a]
  BY DEF ReclaimedFrom
<1>1. inboxes[a] \in Inbox /\ a \in Agents
  BY BoxTypes DEF BusInv, BusTypeOK, TypeOK
<1>2. inboxes'[a] # inboxes[a]
  <2>1. inboxes[a].base \in Nat
    BY <1>1 DEF Inbox
  <2> QED
    BY <2>1
<1>3. PICK b \in Agents :
        \E cursor \in cursors[b], limit \in Limits, arrives \in BOOLEAN :
          Poll(b, cursor, limit, arrives)
  <2>1. CASE ClientPolls
    BY <2>1 DEF ClientPolls
  <2>2. CASE ~ClientPolls
    <3>1. (Tick \/ ReadClock \/ Sweep \/ Call) \/ UNCHANGED vars
      BY <2>2 DEF BusNext, busVars, ClientPolls
    <3>2. CASE Sweep
      BY <3>2, SweepMoves DEF BusInv, BusTypeOK
    <3>3. CASE (Tick \/ ReadClock) \/ UNCHANGED vars
      BY <1>2, <3>3 DEF Tick, ReadClock, vars
    <3>4. CASE Call
      BY <1>2, <3>4, CallReclaimsNothing DEF BusInv, BusTypeOK
    <3> QED
      BY <3>1, <3>2, <3>3, <3>4
  <2> QED
    BY <2>1, <2>2
<1>4. PICK cursor \in cursors[b] : PollInbox(b, cursor)
  BY <1>3 DEF Poll
<1>5. b = a /\ inboxes'[a] = dropInboxPrefix(inboxes[a],
                               Clamp(inboxes[a], cursor) - inboxes[a].base)
  BY <1>2, <1>4 DEF PollInbox
<1>6. cursor \in Nat
  BY Bounds DEF BusInv, BusTypeOK
<1>7. Covered(cursor, inboxes[a], received[a])
  BY <1>1, <1>5, ZeroCovered DEF CursorsCovered
<1>8. inboxes'[a].base - inboxes[a].base = Clamp(inboxes[a], cursor) - inboxes[a].base
  <2>1. /\ inboxes[a].base \in Nat
        /\ Clamp(inboxes[a], cursor) - inboxes[a].base \in Nat
    BY <1>1, <1>6, ClampRange DEF Inbox
  <2>2. inboxes'[a].base =
          inboxes[a].base + (Clamp(inboxes[a], cursor) - inboxes[a].base)
    BY <1>5 DEF dropInboxPrefix
  <2> QED
    BY <2>1, <2>2
<1> QED
  BY <1>1, <1>6, <1>7, <1>8, PollReclaims

(* "A poll at cursor C proves the agent received everything below C"       *)
(* (pollInbox): for every number of agents and messages, caps, limits,     *)
(* lost and repeated responses, what polls reclaim has reached the client. *)
(* The hypothesis is the one condition under which the code means it: no   *)
(* inbox was pruned under a client that still holds its cursors.           *)
THEOREM ReclaimedWereReceivedHolds ==
  BusSpec /\ NoAgentPruned => ReclaimedWereReceived
<1> DEFINE P == \A a \in DOMAIN inboxes \cap DOMAIN inboxes' : ReclaimedFrom(a)
<1>1. BusInit => CursorsCovered
  BY DEF BusInit, CursorsCovered
<1>2. BusInv /\ CursorsCovered /\ [BusNext]_busVars /\ [InboxesStay]_busVars
        => CursorsCovered'
  <2> SUFFICES ASSUME BusInv, CursorsCovered, [BusNext]_busVars,
                      [InboxesStay]_busVars
               PROVE  CursorsCovered'
    OBVIOUS
  <2>1. InboxesStay
    BY DEF InboxesStay, busVars, vars
  <2> QED
    BY <2>1, NextCovered
<1>3. BusInv /\ CursorsCovered /\ [BusNext]_busVars => [P]_busVars
  BY StepReclaims
<1>4. NoAgentPruned <=> [][InboxesStay]_busVars
  BY DEF NoAgentPruned, InboxesStay
<1>5. BusSpec /\ NoAgentPruned => [][P]_busVars
  BY <1>1, <1>2, <1>3, <1>4, BusInvariant, PTL DEF BusSpec
<1> QED
  BY <1>5 DEF ReclaimedWereReceived, ReclaimedFrom

(* With AgentRetention = 0, which switches the pruning of agents off, the  *)
(* hypothesis holds and polls never lose an event.                         *)
THEOREM ReclaimedWithoutRetention ==
  ASSUME AgentRetention = 0
  PROVE  BusSpec => ReclaimedWereReceived
<1>1. BusTypeOK /\ [BusNext]_busVars => [InboxesStay]_busVars
  BY BusStep, StaysWithoutRetention DEF BusTypeOK
<1>2. NoAgentPruned <=> [][InboxesStay]_busVars
  BY DEF NoAgentPruned, InboxesStay
<1>3. BusSpec => NoAgentPruned
  BY <1>1, <1>2, BusTypeCorrect, PTL DEF BusSpec
<1> QED
  BY <1>3, ReclaimedWereReceivedHolds, PTL
=============================================================================
