---------------------------- MODULE Acceptances ----------------------------
(***************************************************************************)
(* Store with the history of its acceptances.  A message is pruned on its  *)
(* own schedule, by default long before the window of its request id is    *)
(* over, and sendMessage answers the retry from the idempotency table      *)
(* alone (store.go 1342-1348).  What is left of a message that was pruned  *)
(* is here.                                                                *)
(***************************************************************************)
EXTENDS Store

\* History, which no action reads: what sendMessage has accepted, and when.
VARIABLE accepted

acceptancesVars == <<vars, accepted>>

Acceptance == [msg : MessageIDs, key : Key, at : Nat]

\* A message of sendMessage, as the sender's request id knows it.
AcceptanceOf(id, m) ==
  [msg |-> id, key |-> <<m.from, m.to, m.req>>, at |-> m.createdAt]

\* Injections take no part in idempotency.
NewAcceptances ==
  {AcceptanceOf(id, messages'[id]) :
     id \in {new \in DOMAIN messages' \ DOMAIN messages :
               messages'[new].req # Injected}}

Record == accepted' = accepted \cup NewAcceptances

AcceptancesInit == Init /\ accepted = {}

AcceptancesNext == Next /\ Record

AcceptancesSpec ==
  AcceptancesInit /\ [][AcceptancesNext]_acceptancesVars

(***************************************************************************)
(* Properties                                                              *)
(***************************************************************************)

(* sendMessage accepts a request id of one sender and target at most once  *)
(* per IdempotencyWindow, whether or not the message it accepted first is  *)
(* still there: the table is swept on one schedule, messages are pruned on *)
(* another, and a handler that waited for the lock comes with an old time. *)
(* That wait is all the window can lose.                                   *)
OncePerWindow ==
  \A x, y \in accepted :
    x.key = y.key /\ x.msg < y.msg =>
      y.at - x.at > IdempotencyWindow - MaxLag
=============================================================================
