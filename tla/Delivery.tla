------------------------------ MODULE Delivery ------------------------------
(***************************************************************************)
(* Durable at-least-once delivery of direct messages, as the durability    *)
(* contract promises it: an accepted message stays deliverable, through    *)
(* any number of crashes, until its recipient has it or its transport      *)
(* deadline has passed.                                                    *)
(***************************************************************************)
CONSTANT MessageIDs

VARIABLES
  transport,    \* message -> none, pending, received, failed or gone
  arrived,      \* messages the recipient has
  expired,      \* messages whose transport deadline has passed
  undirected    \* stored messages without a recipient

TransportStates == {"none", "pending", "received", "failed", "gone"}

Init ==
  /\ transport = [id \in MessageIDs |-> "none"]
  /\ arrived = {}
  /\ expired = {}
  /\ undirected = {}

Accepted(id) == transport[id] = "none" /\ transport'[id] = "pending"

\* A message without a recipient uses up its id and has no delivery.
Undirected(id) ==
  transport[id] = "none" /\ transport'[id] = "gone" /\ id \in undirected'

Received(id) ==
  /\ transport[id] = "pending" /\ transport'[id] = "received"
  /\ id \in arrived' \cup expired

Failed(id) ==
  /\ transport[id] = "pending" /\ transport'[id] = "failed"
  /\ id \in expired

\* A delivery is forgotten only when it is settled or past its deadline.
Forgotten(id) ==
  /\ \/ transport[id] \in {"received", "failed"}
     \/ transport[id] = "pending" /\ id \in expired
  /\ transport'[id] = "gone"

Next ==
  /\ transport' \in [MessageIDs -> TransportStates]
  /\ arrived \subseteq arrived'
  /\ \A id \in expired \ expired' : transport'[id] = "gone"
  /\ \A id \in MessageIDs :
       \/ transport'[id] = transport[id]
       \/ Accepted(id)
       \/ Undirected(id)
       \/ Received(id)
       \/ Failed(id)
       \/ Forgotten(id)

Spec == Init /\ [][Next]_<<transport, arrived, expired, undirected>>
=============================================================================
