SPECIFICATION Spec
CONSTANTS
  u1 = u1
  u2 = u2
  None = None
  Urls <- MCUrls
  Slugs <- MCSlugs
  Fetched <- MCFetched
  Creators = {"c1", "c2"}
  Nicknames = {"n1", "n2"}
  Titles = {"a", "b"}
  Names = {"x", "y"}
  Texts = {"old", "new"}
  MaxTime = 3
  PerSecond = 2
INVARIANTS
  TypeOK
  Searchable
  CardHasTagNames
  ChecksConverge
