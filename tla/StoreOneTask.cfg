\* The script's task and one of others, behind the routes in four configurations.
SPECIFICATION SmokeSpec
CONSTANTS
  Undefined = Undefined
  TaskId = {"t1", "t2"}
  BidId = {"b1", "b2"}
  AssignmentId = {"a1", "a2"}
  ReceiptId = {"r1", "r2"}
  DisputeId = {"d1", "d2"}
  Party <- MCParty
  Commitment = {"c1"}
  Content = {"x1"}
  SentStatus = {"generated", "submitted"}
  Execution <- MCExecution
  Offer <- MCOffer
  SeedInitialData = FALSE
  Env <- MCEnv
  Headers <- MCHeaders
  Mine <- MCMine
CHECK_DEADLOCK FALSE
INVARIANTS
  AssignedOfferServesTask
  CommitmentOpensReceipt
  RecordsNameCredentialHolders
PROPERTIES
  ImplementsEscrow
  OnlyPartiesMoveTasks
  SmokeTestPasses
