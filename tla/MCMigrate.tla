----------------------------- MODULE MCMigrate -----------------------------
(* Small instances of the JSON-file backend and the move to SQLite. *)
EXTENDS Migrate

CONSTANT a1

OneAgent == {a1}
SelfAccess == {<<a1, a1>>}
SelfAndHuman == {<<a1, a1>>, <<Human, a1>>}
OneParticipant == {{a1}}
=============================================================================
