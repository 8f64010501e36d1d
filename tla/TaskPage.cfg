\* A page and two requests, from the task's creation to its settlement.
SPECIFICATION TaskPageSpec
CONSTANTS
  Undefined = Undefined
  TaskId = {"t1"}
  BidId = {b1, b2}
  AssignmentId = {"a1"}
  ReceiptId = {"r1"}
  DisputeId = {"d1"}
  Party <- MCParty
  Commitment = {"c1"}
  Content = {"x1"}
  SentStatus = {"generated"}
  Execution <- MCExecution
  Offer <- MCOffer
  SeedInitialData = FALSE
  Env <- MCEnv
  Headers = {}
  TheTask = "t1"
  WorkspaceId = {"w1", "public-beta"}
  TheWorkspace = "w1"
  DefaultWorkspaceId = "public-beta"
  Page = {"p1"}
  Slot = {s1, s2}
  BrowserSession <- MCSession
SYMMETRY MCSymmetry
INVARIANTS
  AnnouncedIsRecorded
  RefusedClickWasOvertaken
  NoClickCountsTwice
