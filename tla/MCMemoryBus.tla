---------------------------- MODULE MCMemoryBus ----------------------------
(* Model values and small sets for checking MemoryBus. *)
EXTENDS MemoryBus

CONSTANT a1

OneAgent == {a1}
SelfAccess == {<<a1, a1>>}
SelfAndHuman == {<<a1, a1>>, <<Human, a1>>}
=============================================================================
