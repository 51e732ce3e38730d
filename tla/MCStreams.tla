----------------------------- MODULE MCStreams -----------------------------
(* Model values and small sets for checking Streams. *)
EXTENDS Streams

CONSTANTS a1, h1, o1

OneAgent == {a1}
TwoNames == {a1, h1}
AgentOnly == o1 :> {a1}
=============================================================================
