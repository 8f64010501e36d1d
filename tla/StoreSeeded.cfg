CONSTANTS
  Undefined = Undefined
  TaskId = {"task-one", "task-two", "task-three"}
  BidId = {"bid-one", "bid-two", "bid-three", "bid-four"}
  AssignmentId = {"assignment-two", "assignment-three", "assignment-new"}
  ReceiptId = {"receipt_beta_003", "receipt-new-1", "receipt-new-2"}
  DisputeId = {"dispute-1", "dispute-2"}
  Party <- MCSeedParty
  Commitment <- SeedCommitments
  Content = {"result"}
  SentStatus = {"generated"}
  Execution <- MCSeedExecution
  Offer <- MCSeedOffer
  SeedInitialData = TRUE
SPECIFICATION Spec
CHECK_DEADLOCK FALSE
INVARIANTS
  LifecyclesAgree
