\* Two tasks and what three people and an admin see of them.
CONSTANTS
  Undefined = Undefined
  TaskId = {t1, t2}
  BidId = {b1, b2, b3}
  AssignmentId = {a1, a2}
  ReceiptId = {r1, r2}
  DisputeId = {d1, d2}
  Party = {p1, p2, p3}
  Commitment = {c1}
  Content = {x1}
  SentStatus = {"generated"}
  Execution = {}
  Offer = {}
  SeedInitialData = FALSE
SPECIFICATION Spec
CHECK_DEADLOCK FALSE
SYMMETRY MCSymmetry
INVARIANTS
  TypeOK
  OneAssignmentPerTask
  LifecyclesAgree
  SelectedBidIsAssigned
  DeliveryHasOneReceipt
  DisputeFreezesSettlement
  ProjectionTracksEscrow
  PartiesSeeTheirCase
PROPERTIES
  SettledIsFinal
