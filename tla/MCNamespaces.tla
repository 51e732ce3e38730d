---------------------------- MODULE MCNamespaces ----------------------------
(* Names and manifests for checking Namespaces. *)
EXTENDS Namespaces

X == <<"x">>
PX == <<"personal", "x">>
UX == <<"ucla", "x">>
UY == <<"ucla", "y">>
C == <<"c">>
H == <<"human:h">>

Row(auth, source, target, disposition, cp) ==
  [authority |-> auth, source |-> source, target |-> target,
   disposition |-> disposition, controlPlane |-> cp]

FourNames == {X, PX, UY, C}
OneHuman == {H}
OneController == {C}
NoGrants == {}
MixedOrBare == {{PX, UY}, {X}}

CommonRows ==
  {Row("jk", UY, UY, "unchanged", FALSE), Row("jk", C, C, "unchanged", TRUE),
   Row("jk", H, <<"personal">> \o H, "migrate", FALSE),
   Row("ucla", C, C, "unchanged", TRUE), Row("ucla", UY, UY, "unchanged", FALSE)}
RowsOfX ==
  {Row("jk", X, PX, "migrate", FALSE), Row("jk", X, PX, "split", FALSE),
   Row("jk", X, PX, "retire", FALSE), Row("jk", X, X, "unchanged", FALSE),
   Row("jk", PX, X, "migrate", FALSE), Row("jk", PX, PX, "unchanged", FALSE),
   Row("ucla", X, UX, "migrate", FALSE), Row("ucla", X, UX, "split", FALSE),
   Row("ucla", PX, PX, "unchanged", FALSE)}
SomeManifests == {CommonRows \cup rows : rows \in SUBSET RowsOfX}
=============================================================================
