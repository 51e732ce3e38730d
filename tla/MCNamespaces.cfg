SPECIFICATION NamespacesSpec
CONSTANTS
  Names <- FourNames
  Humans <- OneHuman
  ControlPlane <- OneController
  SharedGrants <- NoGrants
  Manifests <- SomeManifests
  Creations <- MixedOrBare
  RequestIDs = {"r1"}
  ConversationIDs = {1}
  MaxMessages = 1
INVARIANTS ReferencesAgree ScopesStayApart UndoRestores StrictReady
PROPERTY NoIdentityMerged
