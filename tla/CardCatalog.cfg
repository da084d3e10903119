SPECIFICATION CatalogSpec
CONSTANTS
  w1 = w1
  w2 = w2
  a = a
  b = b
  None = None
  Nobody = Nobody
  Writers <- MCWriters
  Contents <- MCContents
  Versions <- MCVersions
  MaxVersions = 2
  MaxSeq = 3
  MaxFailures = 2
INVARIANTS
  TypeOK
  RecordHasCard
  AgreeUnlessLate
 
SYMMETRY Symmetric
