CONSTANTS
  Undefined = Undefined
  p1 = p1
  p2 = p2
  w1 = w1
  w2 = w2
  x2 = x2
  TaskId = {t1, t2}
  BidId = {b1, b2}
  AssignmentId = {a1, a2}
  ReceiptId = {r1, r2, r3, r4}
  DisputeId = {}
  Party = {w1}
  Commitment = {c1}
  Content = {x1}
  SentStatus = {"generated"}
  Execution <- MCExecution
  Offer <- MCOffer
  SeedInitialData = FALSE
  Process = {p2}
  WorkerId <- MCWorkerId
  Catalog <- MCCatalog
  MaxItems = 1
  Oversized = {}
  MaxStray = 1
SPECIFICATION FairRuntimeSpec
PROPERTIES
  ServedIsDelivered
