------------------------------ MODULE MCSqlite ------------------------------
(* Model values and small sets for checking SqliteStore. *)
EXTENDS SqliteStore

CONSTANT a1

OneAgent == {a1}
SelfAccess == {<<a1, a1>>}
SelfOnly == {<<a1, a1>>}
HumanOnly == {<<Human, a1>>}
OneParticipant == {{a1}}

(* A bound of the model: a poll and the creation of a conversation, which  *)
(* write no table in common, do not overlap.                               *)
CreationsAndPollsApart == creations = {} \/ polls = {}
=============================================================================
