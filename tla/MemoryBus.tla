----------------------------- MODULE MemoryBus -----------------------------
(***************************************************************************)
(* The in-memory bus together with the clients that poll it.  A client     *)
(* polls with 0 or with any cursor that a response brought it: it may      *)
(* retry, poll concurrently, restart, or lose a response on the way.       *)
(***************************************************************************)
EXTENDS Store

CONSTANT Limits       \* limit of a poll; 0 asks for everything

ASSUME LimitsAssumption == Limits \subseteq Nat

VARIABLES
  cursors,            \* agent -> cursors its client has
  received            \* agent -> messages whose event reached the client

busVars == <<vars, cursors, received>>

BusTypeOK ==
  /\ TypeOK
  /\ cursors \in [Agents -> SUBSET (0..MaxMessages)]
  /\ received \in [Agents -> SUBSET MessageIDs]

BusInit ==
  /\ Init
  /\ cursors = [a \in Agents |-> {0}]
  /\ received = [a \in Agents |-> {}]

\* One poll; the response may be lost after the handler has run.
Poll(a, cursor, limit, arrives) ==
  LET box == inboxes[a]
      out == PollResult(box, cursor, limit)
  IN  /\ PollInbox(a, cursor)
      /\ cursors' = IF ~arrives THEN cursors
                    ELSE [cursors EXCEPT
                            ![a] = @ \cup {NextCursor(box, cursor, limit)}]
      /\ received' = IF ~arrives THEN received
                     ELSE [received EXCEPT
                             ![a] = @ \cup {out[k].msg : k \in DOMAIN out}]

BusNext ==
  \/ (Tick \/ ReadClock \/ Sweep \/ Call) /\ UNCHANGED <<cursors, received>>
  \/ \E a \in Agents : \E cursor \in cursors[a], limit \in Limits,
                          arrives \in BOOLEAN : Poll(a, cursor, limit, arrives)

BusSpec == BusInit /\ [][BusNext]_busVars

(* The clock runs, and the container's health check keeps sweeping. *)
FairBusSpec ==
  /\ BusSpec
  /\ WF_busVars(Tick /\ UNCHANGED <<cursors, received>>)
  /\ WF_busVars(Sweep /\ UNCHANGED <<cursors, received>>)

(* "A poll at cursor C proves the agent received everything below C"       *)
(* (pollInbox): the events that a poll reclaims from an inbox have reached *)
(* the client, whatever responses were lost, repeated or limited, and      *)
(* although the caps may evict events between two polls.                   *)
ReclaimedWereReceived ==
  [][\A a \in DOMAIN inboxes \cap DOMAIN inboxes' :
       inboxes'[a].base > inboxes[a].base
       /\ UNCHANGED <<lastSweepAt, nextMessageID>> =>
         \A k \in 1..inboxes'[a].base - inboxes[a].base :
           inboxes[a].events[k].msg \in received[a]]_busVars
=============================================================================
