------------------------------ MODULE SeedData ------------------------------
(***************************************************************************)
(* The records InMemoryNightShiftStore.seedInitialData loads: a task that  *)
(* collects sealed bids, a task in execution and a settled task.           *)
(* Identifiers are shortened; commitments are named after what they commit *)
(* to; texts, amounts and references are left out.  A definition marked as *)
(* a slip is the definition after it with one plausible bug, to test the   *)
(* properties.                                                             *)
(***************************************************************************)
EXTENDS ExecutionCompatibility

SeedTaskIds       == {"task-one", "task-two", "task-three"}
SeedBidIds        == {"bid-one", "bid-two", "bid-three", "bid-four"}
SeedAssignmentIds == {"assignment-two", "assignment-three"}
SeedReceiptIds    == {"receipt_beta_003"}

SeedEmployers == {"auroralab", "openshell", "nightshiftteam"}
SeedWorkers   == {"lattice_node_12", "nightshift_7", "proof_runner_3", "ui_node_4"}

SeedCommitments ==
  {"task-one-commitment", "task-two-commitment", "task-three-commitment",
   "bid-one-commitment", "bid-two-commitment", "bid-three-commitment",
   "bid-four-commitment"}

SeedReceiptCommitment == <<"0x50a4b6dd">>   \* a literal, not a digest

LlmPolicy(allowed, preferred) ==
  [providerAllowlist |-> allowed, modelAllowlist |-> {},
   requiredCapabilities |-> {"text", "json"},
   preferredProvider |-> preferred, preferredModel |-> Undefined]

SeedExecution ==
  [task \in SeedTaskIds |->
     CASE task = "task-one" ->
            [transport |-> "libp2p",
             llm |-> LlmPolicy({"anthropic", "openai", "ollama", "mock"}, "anthropic")]
       [] task = "task-two" ->
            [transport |-> "http-poller",
             llm |-> LlmPolicy({"openai", "xai", "mock"}, "mock")]
       [] task = "task-three" ->
            [transport |-> "http-poller", llm |-> Undefined]]

OneProvider(provider, model, capabilities) ==
  <<[provider |-> provider, model |-> model, capabilities |-> capabilities]>>

SeedOffer ==
  [bid \in SeedBidIds |->
     CASE bid = "bid-one" ->
            [transports |-> {"libp2p", "relay"},
             providers |-> OneProvider("anthropic", "claude-sonnet-4.6", {"text", "json"})]
       [] bid = "bid-two" ->
            [transports |-> {"http-poller", "libp2p"},
             providers |-> OneProvider("openai", "gpt-5.4-mini", {"text", "json", "tool-calling"})]
       [] bid = "bid-three" ->
            [transports |-> {"http-poller"},
             providers |-> OneProvider("mock", "local-sandbox", {"text", "json", "tool-calling"})]
       [] bid = "bid-four" ->
            [transports |-> {"http-poller"},
             providers |-> OneProvider("mock", "ui-audit-runner", {"text", "json"})]]

SeedTask(employer, commitment, execution, status) ==
  [employerAddress |-> employer, taskCommitment |-> commitment,
   execution |-> execution, status |-> status]

SeedTasks ==
  [task \in SeedTaskIds |->
     CASE task = "task-one" ->
            SeedTask("auroralab", "task-one-commitment", SeedExecution[task], "open")
       [] task = "task-two" ->
            SeedTask("openshell", "task-two-commitment", SeedExecution[task], "assigned")
       [] task = "task-three" ->
            SeedTask("nightshiftteam", "task-three-commitment", SeedExecution[task], "settled")]

SeedBid(task, worker, commitment, offer, status) ==
  [taskId |-> task, workerAddress |-> worker, bidCommitment |-> commitment,
   executionOffer |-> offer, status |-> status]

SeedBids ==
  [bid \in SeedBidIds |->
     CASE bid = "bid-one" ->
            SeedBid("task-one", "lattice_node_12", "bid-one-commitment", SeedOffer[bid], "sealed")
       [] bid = "bid-two" ->
            SeedBid("task-one", "nightshift_7", "bid-two-commitment", SeedOffer[bid], "sealed")
       [] bid = "bid-three" ->
            SeedBid("task-two", "proof_runner_3", "bid-three-commitment", SeedOffer[bid], "selected")
       [] bid = "bid-four" ->
            SeedBid("task-three", "ui_node_4", "bid-four-commitment", SeedOffer[bid], "selected")]

SeedAssignmentsQueued ==        \* slip: one is still marked as queued
  [assignment \in SeedAssignmentIds |->
     CASE assignment = "assignment-two" ->
            [taskId |-> "task-two", bidId |-> "bid-three", workerAddress |-> "proof_runner_3",
             employerAddress |-> "openshell", taskCommitment |-> "task-two-commitment",
             bidCommitment |-> "bid-three-commitment",
             execution |-> SeedTasks["task-two"].execution, status |-> "accepted"]
       [] assignment = "assignment-three" ->
            [taskId |-> "task-three", bidId |-> "bid-four", workerAddress |-> "ui_node_4",
             employerAddress |-> "nightshiftteam", taskCommitment |-> "task-three-commitment",
             bidCommitment |-> "bid-four-commitment",
             execution |-> SeedTasks["task-three"].execution, status |-> "queued"]]

(* The literals repeat their bid's and their task's; only the execution    *)
(* requirements are copied from the task.                                  *)
SeedAssignments ==
  [assignment \in SeedAssignmentIds |->
     CASE assignment = "assignment-two" ->
            [taskId |-> "task-two", bidId |-> "bid-three", workerAddress |-> "proof_runner_3",
             employerAddress |-> "openshell", taskCommitment |-> "task-two-commitment",
             bidCommitment |-> "bid-three-commitment",
             execution |-> SeedTasks["task-two"].execution, status |-> "accepted"]
       [] assignment = "assignment-three" ->
            [taskId |-> "task-three", bidId |-> "bid-four", workerAddress |-> "ui_node_4",
             employerAddress |-> "nightshiftteam", taskCommitment |-> "task-three-commitment",
             bidCommitment |-> "bid-four-commitment",
             execution |-> SeedTasks["task-three"].execution, status |-> "completed"]]

SeedReceipts ==
  [receipt \in SeedReceiptIds |->
     [taskId |-> "task-three", assignmentId |-> "assignment-three",
      workerId |-> "ui_node_4", status |-> "submitted", resultHash |-> Undefined,
      receiptCommitment |-> SeedReceiptCommitment]]

=============================================================================
