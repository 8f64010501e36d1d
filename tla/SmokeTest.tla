------------------------------ MODULE SmokeTest ------------------------------
(***************************************************************************)
(* scripts/smoke-api.mjs against a running API: one task taken from its    *)
(* creation into a dispute with the default credentials, an assertion after*)
(* every answer.  The script sends no workspace header here, so everybody  *)
(* else without one is on the same board, between any two of its requests. *)
(*                                                                         *)
(* An assertion that fails ends the script: the step is not taken.  The    *)
(* oversized submission and the two workspaces at its end are left out.    *)
(* The other requests are the API's own next-state relation.               *)
(***************************************************************************)
EXTENDS NightShiftApi, TaskViews

CONSTANTS
  Mine          \* the identifiers that the API makes for the script

VARIABLE step   \* how many requests of the script have been answered

smokeVars == <<apiVars, step>>

EmployerHeaders ==
  [token |-> "nightshift-employer-beta-token", actorId |-> "0xA11cE", role |-> "employer"]

WorkerHeaders ==
  [token |-> "nightshift-worker-beta-token", actorId |-> "proof_runner_3", role |-> "worker"]

AsWorker == ParseAuthenticatedActor(WorkerHeaders, authConfig)

(* The bid offers neither the preferred provider nor the preferred model.  *)
SmokeExecution ==
  [transport |-> "http-poller",
   llm |-> [LlmPolicy({"mock", "ollama", "openai-compatible"}, "mock")
              EXCEPT !.preferredModel = "local-sandbox"]]

SmokeOffer ==
  [transports |-> {"http-poller"},
   providers |-> OneProvider("openai-compatible", "qwen2.5-14b-instruct", {"text", "json"})]

(* The identifiers are new, and the script's people may appear on record.  *)
ASSUME SmokeAssumption ==
  /\ Mine.task \in TaskId \ SeedTaskIds
  /\ Mine.bid \in BidId \ SeedBidIds
  /\ Mine.assignment \in AssignmentId \ SeedAssignmentIds
  /\ Mine.receipt \in ReceiptId \ SeedReceiptIds
  /\ Mine.dispute \in DisputeId
  /\ {"0xA11cE", "proof_runner_3"} \subseteq Party
  /\ "submitted" \in SentStatus
  /\ SmokeExecution \in Execution
  /\ SmokeOffer \in Offer

SmokeInit == ApiInit /\ step = 0

(* A GET changes nothing.                                                  *)
Assert(n, assertion) ==
  /\ step = n
  /\ assertion
  /\ step' = n + 1
  /\ UNCHANGED apiVars

Request(n, post) ==
  /\ step = n
  /\ post
  /\ step' = n + 1

-----------------------------------------------------------------------------
HidesRecords(view) ==
  view.bids = {} /\ view.assignments = {} /\ view.receipts = {} /\ view.disputes = {}

IsRedacted(task) == "employerAddress" \notin DOMAIN task

(* The list is sorted by age; its first task may be anybody's.  That it is *)
(* not empty takes a seeded board.                                         *)
TasksListed ==
  /\ SeedInitialData => tasks # EmptyMap
  /\ \A t \in DOMAIN tasks : LET view == ProjectTaskDetail(t, NoViewer)
                             IN  IsRedacted(view.task) /\ HidesRecords(view)

ListTasks == Assert(0, TasksListed)

CreateSmokeTask ==
  \E c \in Commitment :
    Request(1, PostTask(EmployerHeaders, Mine.task, "0xA11cE", c, SmokeExecution))

TaskIsPrivate ==
  LET view == ProjectTaskDetail(Mine.task, NoViewer)
  IN  IsRedacted(view.task) /\ view.bids = {}

SeePrivateTask == Assert(2, TaskIsPrivate)

CreateSmokeBid ==
  \E c \in Commitment :
    Request(3, PostBid(WorkerHeaders, Mine.bid, Mine.task, "proof_runner_3", c, SmokeOffer))

OwnBidOnly ==
  LET view == ProjectTaskDetail(Mine.task, AsWorker)
  IN  view.bids = {Mine.bid} /\ IsRedacted(view.task)

SeeOwnBid == Assert(4, OwnBidOnly)

AssignBid == Request(5, PostAssignment(EmployerHeaders, Mine.assignment, Mine.task, Mine.bid))

AssignmentShown ==
  LET view == ProjectTaskDetail(Mine.task, AsWorker)
  IN  ~IsRedacted(view.task) /\ Mine.assignment \in view.assignments

SeeAssignment == Assert(6, AssignmentShown)

Submission(result) ==
  [receiptId |-> Mine.receipt, assignmentId |-> Mine.assignment, taskId |-> Mine.task,
   bidId |-> Mine.bid, workerId |-> "proof_runner_3", status |-> "submitted",
   resultHash |-> HashCanonicalJson(result)]

SubmitResult ==
  \E result \in Content :
    Request(7, PostSubmit(WorkerHeaders, Mine.assignment, "proof_runner_3", Submission(result),
                          result, CommitReceipt(Mine.receipt, Submission(result))))

ReceiptHidden == ProjectTaskDetail(Mine.task, NoViewer).receipts = {}

SeeNoReceipt == Assert(8, ReceiptHidden)

OpenDispute ==
  Request(9, PostDispute(EmployerHeaders, Mine.dispute, Mine.task, Mine.assignment))

(* POST accept is refused: 409, assignment_under_dispute.                  *)
UnderDispute ==
  /\ ActiveDisputes(Mine.task, Mine.assignment) # {}
  /\ ~Settleable(Mine.task, Mine.assignment)

SettleBlocked == Assert(10, UnderDispute)

Reveal == Request(11, PostReveal(WorkerHeaders, Mine.dispute))

DisputeHidden == ProjectTaskDetail(Mine.task, NoViewer).disputes = {}

SeeNoDispute == Assert(12, DisputeHidden)

SmokeStep ==
  \/ ListTasks \/ CreateSmokeTask \/ SeePrivateTask \/ CreateSmokeBid \/ SeeOwnBid
  \/ AssignBid \/ SeeAssignment \/ SubmitResult \/ SeeNoReceipt \/ OpenDispute
  \/ SettleBlocked \/ Reveal \/ SeeNoDispute

-----------------------------------------------------------------------------
MineOnly == {Mine.task, Mine.bid, Mine.assignment, Mine.receipt, Mine.dispute}

NewIds ==
  (DOMAIN tasks' \ DOMAIN tasks) \cup (DOMAIN bids' \ DOMAIN bids)
    \cup (DOMAIN assignments' \ DOMAIN assignments)
    \cup (DOMAIN receipts' \ DOMAIN receipts) \cup (DOMAIN disputes' \ DOMAIN disputes)

(* Everybody else: any request, with an identifier of its own.             *)
StrangerStep ==
  /\ ApiNext
  /\ NewIds \cap MineOnly = {}
  /\ UNCHANGED step

SmokeSpec ==
  /\ SmokeInit
  /\ [][SmokeStep \/ StrangerStep]_smokeVars
  /\ WF_smokeVars(SmokeStep)

(* The API knows the script's two people, and nobody else acts for them.   *)
ForSmokeTest ==
  /\ Closed(authConfig)
  /\ ParseAuthenticatedActor(EmployerHeaders, authConfig) = Actor("0xA11cE", "employer")
  /\ AsWorker = Actor("proof_runner_3", "worker")
  /\ \A headers \in Headers :
       ParseAuthenticatedActor(headers, authConfig).actorId \notin {"0xA11cE", "proof_runner_3"}

(* The step the script has come to would be taken: its assertion holds, or *)
(* its request is one that the routes and the store accept (smoke-api.mjs: *)
(* every assert of the script).                                            *)
NextStepPasses ==
  /\ step = 0 => TasksListed
  /\ step = 1 => /\ Admitted(EmployerHeaders, {"employer"}, "0xA11cE")
                 /\ Mine.task \notin DOMAIN tasks
  /\ step = 2 => TaskIsPrivate
  /\ step = 3 => /\ Admitted(WorkerHeaders, {"worker"}, "proof_runner_3")
                 /\ Biddable(Mine.task, SmokeOffer)
                 /\ Mine.bid \notin DOMAIN bids
  /\ step = 4 => OwnBidOnly
  /\ step = 5 => /\ Admitted(EmployerHeaders, {"employer"}, tasks[Mine.task].employerAddress)
                 /\ Selectable(Mine.task, Mine.bid)
                 /\ Mine.assignment \notin DOMAIN assignments
  /\ step = 6 => AssignmentShown
  /\ step = 7 => /\ Admitted(WorkerHeaders, {"worker"}, "proof_runner_3")
                 /\ Submittable(Mine.assignment)
                 /\ assignments[Mine.assignment].workerAddress = "proof_runner_3"
                 /\ \A result \in Content : ReceiptMatches(Mine.assignment, Submission(result))
  /\ step = 8 => ReceiptHidden
  /\ step = 9 => /\ AdmittedParty(EmployerHeaders, Mine.assignment)
                 /\ Disputable(Mine.task, Mine.assignment)
                 /\ Mine.dispute \notin DOMAIN disputes
  /\ step = 10 => UnderDispute
  /\ step = 11 => /\ Revealable(Mine.dispute)
                  /\ AdmittedParty(WorkerHeaders, disputes[Mine.dispute].assignmentId)
  /\ step = 12 => DisputeHidden

(* At no time is the script's next step in anybody's hands but its own.    *)
ScriptNeverFails == ForSmokeTest => NextStepPasses

(* The script passes on a board that is in use: whatever people with other *)
(* credentials do between its requests - bid on its task, name its records,*)
(* send its identifiers - every assertion holds when it is its turn and    *)
(* every request of it is accepted.                                        *)
SmokeTestPasses == ForSmokeTest => <>(step = 13)

=============================================================================
