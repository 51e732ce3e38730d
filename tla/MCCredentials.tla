--------------------------- MODULE MCCredentials ---------------------------
(* Model values and small sets for checking Credentials. *)
EXTENDS Credentials, TLC

CONSTANTS a1, a2, s1, s2

TwoAgents == {a1, a2}
AgentOneOrAll == {{}, {a1}}
OneRequired == a2 :> s1
(* a1 registers, comes back with another secret, signed with the first and *)
(* with itself; a control-plane agent comes with the wrong secret.           *)
Rotations ==
  {<<a1, s1, NoSecret>>, <<a1, s2, s1>>, <<a1, s2, s2>>,
   <<a2, s2, NoSecret>>}
=============================================================================
