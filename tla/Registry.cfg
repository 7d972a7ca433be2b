\* Corporations and ecosystems that share DIDs, frameworks of up to four versions.
SPECIFICATION Spec
CONSTANTS
  Dids = {d1, d2}
  Languages = {en, fr}
  Contents = {x, y}
  MaxCorporations = 2
  MaxEcosystems = 2
  MaxVersions = 4
  MaxDocuments = 5
SYMMETRY Symmetry
INVARIANTS
  TypeOK
  IndexesAgree
  FrameworksInForce
PROPERTIES
  ActivatedDocumentsFrozen
CHECK_DEADLOCK FALSE
