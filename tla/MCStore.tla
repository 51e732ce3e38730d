------------------------------ MODULE MCStore ------------------------------
(* Model values and small sets for checking Store and Acceptances. *)
EXTENDS Acceptances

CONSTANTS a1, a2

TwoAgents == {a1, a2}
Layered == {<<a1, a1>>, <<a1, a2>>, <<a2, a2>>}
OneParticipant == {{a1}}
WithHuman == {<<a1, a2>>, <<Human, Nobody>>}
=============================================================================
