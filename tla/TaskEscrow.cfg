\* Two key holders: up to seven calls of the contract or of its simulation.
CONSTANTS
  Party = {alice, bob}
  TaskCommitment = {task1, task2}
  RewardCommitment = {reward1}
  BidCommitment = {bid1, bid2}
  ReceiptCommitment = {receipt1, receipt2}
  MaxSequence = 8
  Key = {alice, bob}
  Task = {task1, task2}
  Reward = {reward1}
  Bid = {bid1}
  Receipt = {receipt1, receipt2}
  MaxCalls = 7
SPECIFICATION MCSpec
CHECK_DEADLOCK FALSE
INVARIANTS
  SelectionFitsPhase
  NoStepSkipped
PROPERTIES
  TermsAreFixed
  ImplementsContract
