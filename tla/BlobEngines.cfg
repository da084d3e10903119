SPECIFICATION Spec
CONSTANTS
  a = a
  b = b
  None = None
  Rids <- MCRids
  Versions <- MCVersions
  Contents <- MCContents
  Offered <- MCOffered
  MaxVersions = 2
  SignBit = 8
INVARIANTS
  Retention
  
PROPERTIES
  NewestSurvive
  ImplementsBlobStore
