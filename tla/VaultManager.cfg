SPECIFICATION Spec
CONSTANTS
  g1 = g1
  g2 = g2
  g3 = g3
  v1 = v1
  v2 = v2
  None = None
  Nobody = Nobody
  Goroutines <- MCGoroutines
  Names <- MCNames
  MaxVaults = 2
  MaxCatalogs = 3
  Exclusive = FALSE
INVARIANTS
  UsedIsOpen
  
  ImportsApart
SYMMETRY Symmetric
