------------------------------ MODULE Backend ------------------------------
(***************************************************************************)
(* What the two durable backends have in common: Store runs in a process   *)
(* that may stop and be started again, and the clients live on with the    *)
(* cursors they have (cmd/pinakes/main.go chooses the backend).            *)
(***************************************************************************)
EXTENDS Store

CONSTANTS
  Limits,            \* limit of a poll; 0 asks for everything
  MaxInFlight,       \* calls between their change and their answer
  MaxCrashes         \* bounds of the model

ASSUME BackendAssumption ==
  /\ Limits \subseteq Nat
  /\ {MaxInFlight, MaxCrashes} \subseteq Nat

VARIABLES
  up,          \* whether the process runs
  crashes,     \* how often it has stopped
  cursors      \* agent -> cursors its client has
=============================================================================
