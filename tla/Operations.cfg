SPECIFICATION OpSpec
CONSTANTS
  o1 = o1
  client1 = client1
  client2 = client2
  v1 = v1
  c1 = c1
  c2 = c2
  None = None
  Nobody = Nobody
  Goroutines <- MCGoroutines
  Ops <- MCOps
  Names <- MCNames
  Cards <- MCCards
  Workers = 2
  MaxVaults = 2
  MaxCatalogs = 2
  Exclusive = FALSE
INVARIANTS
  OpTypeOK
  AnsweredOnce
  ReportAdds
  EndIsFinal
PROPERTY OperationsEnd
