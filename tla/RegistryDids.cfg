\* Two ecosystems of a corporation share a DID and one of them changes its own.
SPECIFICATION Spec
CONSTANTS
  Dids = {d1, d2}
  Languages = {en}
  Contents = {x}
  MaxCorporations = 2
  MaxEcosystems = 3
  MaxVersions = 5
  MaxDocuments = 5
SYMMETRY Symmetry
INVARIANT DidOfOneCorporation
CHECK_DEADLOCK FALSE
