-------------------------- MODULE MessageLifecycle --------------------------
(***************************************************************************)
(* What the bus promises about one message, seen from its sender: ids are  *)
(* handed out in order, a message only moves forward, a terminal state is  *)
(* final until the message is forgotten, and it never comes back.          *)
(***************************************************************************)
EXTENDS Naturals

CONSTANT MessageIDs
VARIABLE status

(* "none": never accepted; "gone": accepted and no longer kept. *)
Statuses == {"none", "pending", "waiting_ack", "executing",
             "completed", "rejected", "error", "gone"}

Ended == {"completed", "rejected", "error", "gone"}

Init == status = [id \in MessageIDs |-> "none"]

(* Acceptance: queued for an agent in its grace period (pending), put into  *)
(* the inbox (waiting_ack), or complete at once (not a request).            *)
Accepted(id) ==
  /\ status[id] = "none"
  /\ status'[id] \in {"pending", "waiting_ack", "completed"}
  /\ \A other \in MessageIDs : other < id => status[other] # "none"

\* A request moves towards its end; only a queued one can become waiting_ack.
Advanced(id) ==
  \/ /\ status[id] = "pending"
     /\ status'[id] \in {"waiting_ack", "executing"} \cup Ended
  \/ /\ status[id] = "waiting_ack"
     /\ status'[id] \in {"executing"} \cup Ended
  \/ /\ status[id] = "executing"
     /\ status'[id] \in Ended

Forgotten(id) ==
  /\ status[id] \in Ended \ {"gone"}
  /\ status'[id] = "gone"

\* One sweep may move many messages.
Next ==
  /\ status' \in [MessageIDs -> Statuses]
  /\ \A id \in MessageIDs :
       \/ status'[id] = status[id]
       \/ Accepted(id)
       \/ Advanced(id)
       \/ Forgotten(id)

Spec == Init /\ [][Next]_status
=============================================================================
