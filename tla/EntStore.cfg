SPECIFICATION Spec
CONSTANTS
  u1 = u1
  u2 = u2
  None = None
  Urls <- MCUrls
  Slugs <- MCSlugs
  Fetched <- MCFetched
  Words <- MCWords
  Occurs <- MCOccurs
  Filters <- MCFilters
  Templates <- MCTemplates
  Creators = {"c1", "c2"}
  Nicknames = {"n1", "n2"}
  Titles = {"a"}
  Names = {"x", "y"}
  Texts = {"old", "new"}
  Sources = {"site"}
  Ids = {"p1", "p2", "i1", "i2"}
  Fields = {"description", "scenario"}
  Values = {"cat", "dog"}
  MaxTime = 2
  PerSecond = 2
  MaxRid = 2
  ImportTimes = {1}
  MaxMarked = 1
  Failures = {"creator", "edges"}
INVARIANTS
  ConstraintMeansDuplicate
  
  ImportRestores
  
PROPERTIES
  ImplementsRecordStore
