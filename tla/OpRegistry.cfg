SPECIFICATION FairSpec
CONSTANTS
  o1 = o1
  c1 = c1
  c2 = c2
  Nobody = Nobody
  Ops <- MCOps
  Clients <- MCClients
  MaxMessages = 3
INVARIANTS
  ActiveCount
  NoLostChange
  MessagesDeliveredOnce
  EndReportedOnce
  CancelIsReported
PROPERTIES
  EndIsSeen
