CONSTANTS
  Undefined = Undefined
  TaskId = {t1}
  BidId = {b1, b2}
  AssignmentId = {a1, a2}
  ReceiptId = {r1, r2}
  DisputeId = {d1, d2}
  Party = {p1, p2}
  Commitment = {c1, c2}
  Content = {x1}
  SentStatus = {"generated"}
  Execution <- MCExecution
  Offer <- MCOffer
  SeedInitialData = FALSE
SPECIFICATION Spec
CHECK_DEADLOCK FALSE
SYMMETRY MCSymmetry
INVARIANTS
  RevealUnfreezesSettlement
