--------------------------- MODULE NightShiftStore ---------------------------
(***************************************************************************)
(* InMemoryNightShiftStore (apps/api/src/store.ts): the five Maps of one   *)
(* workspace and every method that changes them.  A method runs to its end *)
(* on one thread, so each is one action; requests interleave between them. *)
(*                                                                         *)
(* A Map is a function whose domain is the set of its keys.  An identifier *)
(* made by randomUUID is any unused member of its pool.  A method that     *)
(* throws changes nothing: its action is not enabled.  Timestamps, texts,  *)
(* amounts and references are left out.  Digests are free constructors:    *)
(* equal digests come from equal data.                                     *)
(*                                                                         *)
(* A definition marked as a slip is not part of the model: it is the       *)
(* definition after it with one plausible bug, and shows that the          *)
(* properties notice it.                                                   *)
(***************************************************************************)
EXTENDS SeedData

CONSTANTS
  TaskId, BidId, AssignmentId, ReceiptId, DisputeId,  \* pools of identifiers
  Party,            \* employer and worker addresses: one space of strings
  Execution,        \* execution requirements a task may carry
  Offer,            \* execution offers a bid may carry
  Commitment,       \* task and bid commitments made by clients
  Content,          \* results a worker may deliver
  SentStatus,       \* bound: the status words clients put in a receipt
  SeedInitialData   \* the constructor's flag

ASSUME SeedAssumption ==
  /\ SeedInitialData \in BOOLEAN
  /\ SeedInitialData =>
       /\ SeedTaskIds \subseteq TaskId
       /\ SeedBidIds \subseteq BidId
       /\ SeedAssignmentIds \subseteq AssignmentId
       /\ SeedReceiptIds \subseteq ReceiptId
       /\ SeedEmployers \cup SeedWorkers \subseteq Party
       /\ SeedCommitments \subseteq Commitment
       /\ \A t \in SeedTaskIds : SeedExecution[t] \in Execution
       /\ \A b \in SeedBidIds : SeedOffer[b] \in Offer

(* An offer is a record that lists its providers; positions count from one.*)
ASSUME OfferAssumption ==
  /\ Undefined \notin Offer
  /\ \A o \in Offer : DOMAIN o.providers \subseteq Nat \ {0}

ReceiptStatus == {"generated", "submitted", "verified", "rejected"}

ASSUME ReceiptAssumption == SentStatus \subseteq ReceiptStatus

VARIABLES tasks, bids, assignments, receipts, disputes

vars == <<tasks, bids, assignments, receipts, disputes>>

-----------------------------------------------------------------------------
TaskStatus       == {"open", "assigned", "submitted", "settled", "disputed", "cancelled"}
BidStatus        == {"sealed", "selected", "rejected", "withdrawn"}
AssignmentStatus == {"queued", "accepted", "in_progress", "submitted", "completed", "cancelled"}
DisputeStatus    == {"open", "revealed", "resolved", "dismissed"}

ActiveAssignment == {"queued", "accepted", "in_progress"}
ActiveDispute    == {"open", "revealed"}

HashCanonicalJson(value) == <<"sha256", value>>

ResultHash == {HashCanonicalJson(c) : c \in Content}

(* The receipt as the worker sends it, and the part its commitment covers. *)
ExecutionReceipt ==
  [receiptId : ReceiptId, assignmentId : AssignmentId, taskId : TaskId,
   bidId : BidId, workerId : Party, status : SentStatus, resultHash : ResultHash]

CommitReceipt(receiptId, receipt) ==
  HashCanonicalJson(
    [receiptId |-> receiptId, assignmentId |-> receipt.assignmentId,
     taskId |-> receipt.taskId, workerId |-> receipt.workerId,
     status |-> receipt.status, resultHash |-> receipt.resultHash])

ReceiptHash ==
  {CommitReceipt(r.receiptId, r) : r \in ExecutionReceipt} \cup {SeedReceiptCommitment}

TaskRecord ==
  [employerAddress : Party, taskCommitment : Commitment,
   execution : Execution \cup {Undefined}, status : TaskStatus]

BidRecord ==
  [taskId : TaskId, workerAddress : Party, bidCommitment : Commitment,
   executionOffer : Offer \cup {Undefined}, status : BidStatus]

AssignmentRecord ==
  [taskId : TaskId, bidId : BidId, workerAddress : Party, employerAddress : Party,
   taskCommitment : Commitment, bidCommitment : Commitment,
   execution : Execution \cup {Undefined}, status : AssignmentStatus]

ReceiptRecord ==
  [taskId : TaskId, assignmentId : AssignmentId, workerId : Party, status : ReceiptStatus,
   resultHash : ResultHash \cup {Undefined}, receiptCommitment : ReceiptHash]

(* revealedBy stands for the reveal bundle: who disclosed last, if anyone. *)
DisputeRecord ==
  [taskId : TaskId, assignmentId : AssignmentId, openedBy : Party,
   status : DisputeStatus, revealedBy : Party \cup {Undefined}]

MapOf(map, Key, Value) ==
  /\ DOMAIN map \subseteq Key
  /\ map \in [DOMAIN map -> Value]

TypeOK ==
  /\ MapOf(tasks, TaskId, TaskRecord)
  /\ MapOf(bids, BidId, BidRecord)
  /\ MapOf(assignments, AssignmentId, AssignmentRecord)
  /\ MapOf(receipts, ReceiptId, ReceiptRecord)
  /\ MapOf(disputes, DisputeId, DisputeRecord)

EmptyMap == [k \in {} |-> k]

Init ==
  /\ tasks = IF SeedInitialData THEN SeedTasks ELSE EmptyMap
  /\ bids = IF SeedInitialData THEN SeedBids ELSE EmptyMap
  /\ assignments = IF SeedInitialData THEN SeedAssignments ELSE EmptyMap
  /\ receipts = IF SeedInitialData THEN SeedReceipts ELSE EmptyMap
  /\ disputes = EmptyMap

(* Map.set *)
MapSet(map, key, value) ==
  [k \in DOMAIN map \cup {key} |-> IF k = key THEN value ELSE map[k]]

-----------------------------------------------------------------------------
CreateTask(t, employer, commitment, execution) ==
  /\ t \notin DOMAIN tasks
  /\ tasks' = MapSet(tasks, t,
       [employerAddress |-> employer, taskCommitment |-> commitment,
        execution |-> execution, status |-> "open"])
  /\ UNCHANGED <<bids, assignments, receipts, disputes>>

Biddable(t, offer) ==
  /\ t \in DOMAIN tasks
  /\ tasks[t].status = "open"
  /\ Compatible(tasks[t].execution, offer)

CreateBid(b, t, worker, commitment, offer) ==
  /\ b \notin DOMAIN bids
  /\ Biddable(t, offer)
  /\ bids' = MapSet(bids, b,
       [taskId |-> t, workerAddress |-> worker, bidCommitment |-> commitment,
        executionOffer |-> offer, status |-> "sealed"])
  /\ UNCHANGED <<tasks, assignments, receipts, disputes>>

SelectableOfAnyTask(t, b) ==   \* slip: the bid may be on another task
  /\ t \in DOMAIN tasks
  /\ b \in DOMAIN bids
  /\ tasks[t].status = "open"
  /\ Compatible(tasks[t].execution, bids[b].executionOffer)

SelectableTwice(t, b) ==       \* slip: the task need not be open
  /\ t \in DOMAIN tasks
  /\ b \in DOMAIN bids
  /\ bids[b].taskId = t
  /\ Compatible(tasks[t].execution, bids[b].executionOffer)

Selectable(t, b) ==
  /\ t \in DOMAIN tasks
  /\ b \in DOMAIN bids
  /\ bids[b].taskId = t
  /\ tasks[t].status = "open"
  /\ Compatible(tasks[t].execution, bids[b].executionOffer)

(* The other bids on the task stay sealed. *)
CreateAssignment(a, t, b, worker, employer) ==
  /\ a \notin DOMAIN assignments
  /\ Selectable(t, b)
  /\ bids[b].workerAddress = worker
  /\ tasks[t].employerAddress = employer
  /\ tasks' = [tasks EXCEPT ![t].status = "assigned"]
  /\ bids' = [bids EXCEPT ![b].status = "selected"]
  /\ assignments' = MapSet(assignments, a,
       [taskId |-> t, bidId |-> b, workerAddress |-> worker, employerAddress |-> employer,
        taskCommitment |-> tasks[t].taskCommitment,
        bidCommitment |-> bids[b].bidCommitment,
        execution |-> tasks[t].execution, status |-> "queued"])
  /\ UNCHANGED <<receipts, disputes>>

AcknowledgeableLate(a) ==       \* slip: a delivered assignment as well
  /\ a \in DOMAIN assignments
  /\ assignments[a].status \notin {"cancelled", "completed"}

Acknowledgeable(a) ==
  /\ a \in DOMAIN assignments
  /\ assignments[a].status \notin {"cancelled", "completed", "submitted"}

AcknowledgeAsAssigned(a) ==      \* slip: a word of the task's status
  /\ Acknowledgeable(a)
  /\ assignments' = [assignments EXCEPT ![a].status = "assigned"]
  /\ UNCHANGED <<tasks, bids, receipts, disputes>>

AcknowledgeAssignment(a) ==
  /\ Acknowledgeable(a)
  /\ assignments' = [assignments EXCEPT ![a].status =
       IF @ = "in_progress" THEN "in_progress" ELSE "accepted"]
  /\ UNCHANGED <<tasks, bids, receipts, disputes>>

SubmittableTwice(a) ==            \* slip: a repeated delivery
  /\ a \in DOMAIN assignments
  /\ assignments[a].status \notin {"completed", "cancelled"}

SubmittableLate(a) ==             \* slip: a delivery after the settlement
  /\ a \in DOMAIN assignments
  /\ assignments[a].status \notin {"submitted", "cancelled"}

Submittable(a) ==
  /\ a \in DOMAIN assignments
  /\ assignments[a].status \notin {"submitted", "completed", "cancelled"}

ReceiptMatches(a, receipt) ==
  /\ receipt.assignmentId = a
  /\ receipt.taskId = assignments[a].taskId
  /\ receipt.bidId = assignments[a].bidId
  /\ receipt.workerId = assignments[a].workerAddress
  /\ receipt.receiptId \notin DOMAIN receipts

ReceiptVerifiesResult(receipt, result, receiptHash) ==   \* slip: commitment unchecked
  receipt.resultHash = HashCanonicalJson(result)

ReceiptVerifies(receipt, result, receiptHash) ==
  /\ receipt.resultHash = HashCanonicalJson(result)
  /\ receiptHash = CommitReceipt(receipt.receiptId, receipt)

(* A submission carries the worker's receipt, its result and the digest it *)
(* commits to.  The status word in the receipt is hashed as it was sent and *)
(* kept as "submitted".  The task's own status is overwritten without being*)
(* read.                                                                   *)
RecordWorkerSubmission(a, worker, receipt, result, receiptHash) ==
  /\ Submittable(a)
  /\ assignments[a].workerAddress = worker
  /\ ReceiptMatches(a, receipt)
  /\ ReceiptVerifies(receipt, result, receiptHash)
  /\ receipts' = MapSet(receipts, receipt.receiptId,
       [taskId |-> receipt.taskId, assignmentId |-> a, workerId |-> worker,
        status |-> "submitted", resultHash |-> receipt.resultHash,
        receiptCommitment |-> receiptHash])
  /\ assignments' = [assignments EXCEPT ![a].status = "submitted"]
  /\ tasks' = IF receipt.taskId \in DOMAIN tasks
              THEN [tasks EXCEPT ![receipt.taskId].status = "submitted"]
              ELSE tasks
  /\ UNCHANGED <<bids, disputes>>

ActiveDisputes(t, a) ==
  {d \in DOMAIN disputes : /\ disputes[d].taskId = t
                           /\ disputes[d].assignmentId = a
                           /\ disputes[d].status \in ActiveDispute}

SettleableDisputed(t, a) ==       \* slip: disputes are not looked up
  /\ a \in DOMAIN assignments
  /\ assignments[a].taskId = t
  /\ assignments[a].status = "submitted"
  /\ t \in DOMAIN tasks
  /\ tasks[t].status \in {"submitted", "disputed"}

Settleable(t, a) ==
  /\ a \in DOMAIN assignments
  /\ assignments[a].taskId = t
  /\ assignments[a].status = "submitted"
  /\ ActiveDisputes(t, a) = {}
  /\ t \in DOMAIN tasks
  /\ tasks[t].status \in {"submitted", "disputed"}

AcceptAssignment(t, a) ==
  /\ Settleable(t, a)
  /\ assignments' = [assignments EXCEPT ![a].status = "completed"]
  /\ tasks' = [tasks EXCEPT ![t].status = "settled"]
  /\ UNCHANGED <<bids, receipts, disputes>>

IsParty(a, actor) ==
  actor \in {assignments[a].employerAddress, assignments[a].workerAddress}

Disputable(t, a) ==
  /\ a \in DOMAIN assignments
  /\ assignments[a].taskId = t
  /\ t \in DOMAIN tasks
  /\ assignments[a].status = "submitted"
  /\ tasks[t].status = "submitted"
  /\ ActiveDisputes(t, a) = {}

CreateDispute(d, t, a, openedBy) ==
  /\ d \notin DOMAIN disputes
  /\ Disputable(t, a)
  /\ IsParty(a, openedBy)
  /\ disputes' = MapSet(disputes, d,
       [taskId |-> t, assignmentId |-> a, openedBy |-> openedBy,
        status |-> "open", revealedBy |-> Undefined])
  /\ tasks' = [tasks EXCEPT ![t].status = "disputed"]
  /\ UNCHANGED <<bids, assignments, receipts>>

Revealable(d) ==
  /\ d \in DOMAIN disputes
  /\ disputes[d].assignmentId \in DOMAIN assignments
  /\ disputes[d].status \in ActiveDispute

(* A later reveal replaces an earlier one, whoever made it; the task stays *)
(* disputed.                                                               *)
SubmitReveal(d, actor) ==
  /\ Revealable(d)
  /\ IsParty(disputes[d].assignmentId, actor)
  /\ disputes' = [disputes EXCEPT ![d].status = "revealed", ![d].revealedBy = actor]
  /\ UNCHANGED <<tasks, bids, assignments, receipts>>

Next ==
  \/ \E t \in TaskId, p \in Party, c \in Commitment, e \in Execution \cup {Undefined} :
       CreateTask(t, p, c, e)
  \/ \E b \in BidId, t \in TaskId, p \in Party, c \in Commitment, o \in Offer \cup {Undefined} :
       CreateBid(b, t, p, c, o)
  \/ \E a \in AssignmentId, t \in TaskId, b \in BidId, w \in Party, e \in Party :
       CreateAssignment(a, t, b, w, e)
  \/ \E a \in AssignmentId : AcknowledgeAssignment(a)
  \/ \E a \in AssignmentId, w \in Party, r \in ExecutionReceipt, c \in Content :
       \E h \in {CommitReceipt(r.receiptId, r), SeedReceiptCommitment} :
         RecordWorkerSubmission(a, w, r, c, h)
  \/ \E t \in TaskId, a \in AssignmentId : AcceptAssignment(t, a)
  \/ \E d \in DisputeId, t \in TaskId, a \in AssignmentId, p \in Party :
       CreateDispute(d, t, a, p)
  \/ \E d \in DisputeId, p \in Party : SubmitReveal(d, p)

Spec == Init /\ [][Next]_vars

-----------------------------------------------------------------------------
(* Every identifier a record holds leads to a record of the same task: no  *)
(* handler stores a dangling or a crossed reference.                       *)
ReferencesResolve ==
  /\ \A b \in DOMAIN bids : bids[b].taskId \in DOMAIN tasks
  /\ \A a \in DOMAIN assignments :
       /\ assignments[a].taskId \in DOMAIN tasks
       /\ assignments[a].bidId \in DOMAIN bids
  /\ \A r \in DOMAIN receipts :
       /\ receipts[r].assignmentId \in DOMAIN assignments
       /\ receipts[r].taskId = assignments[receipts[r].assignmentId].taskId
  /\ \A d \in DOMAIN disputes :
       /\ disputes[d].assignmentId \in DOMAIN assignments
       /\ disputes[d].taskId = assignments[disputes[d].assignmentId].taskId

(* A task is handed out once: two selections racing on the same open task  *)
(* (store.ts:149) never both create an assignment, and a task has left     *)
(* "open" exactly when it has its assignment.                              *)
OneAssignmentPerTask ==
  /\ \A a1, a2 \in DOMAIN assignments :
       assignments[a1].taskId = assignments[a2].taskId => a1 = a2
  /\ \A t \in DOMAIN tasks :
       tasks[t].status = "open" <=> \A a \in DOMAIN assignments : assignments[a].taskId # t

(* The two status fields, written by different handlers, tell one story.   *)
(* recordWorkerSubmission overwrites the task's status without reading it  *)
(* (store.ts:366-373); that never pulls a task back out of "disputed" or   *)
(* "settled".                                                              *)
LifecyclesAgree ==
  \A a \in DOMAIN assignments :
    LET status == tasks[assignments[a].taskId].status
    IN  /\ assignments[a].status \in ActiveAssignment <=> status = "assigned"
        /\ assignments[a].status = "submitted" <=> status \in {"submitted", "disputed"}
        /\ assignments[a].status = "completed" <=> status = "settled"

(* The employer gets the bid it chose: a bid is selected exactly when an   *)
(* assignment was made from it, and that assignment carries the parties    *)
(* and the commitments of this bid and of its task.                        *)
SelectedBidIsAssigned ==
  /\ \A b \in DOMAIN bids :
       bids[b].status = "selected" <=> \E a \in DOMAIN assignments : assignments[a].bidId = b
  /\ \A a \in DOMAIN assignments :
       LET bid  == bids[assignments[a].bidId]
           task == tasks[assignments[a].taskId]
       IN  /\ bid.taskId = assignments[a].taskId
           /\ bid.workerAddress = assignments[a].workerAddress
           /\ bid.bidCommitment = assignments[a].bidCommitment
           /\ task.employerAddress = assignments[a].employerAddress
           /\ task.taskCommitment = assignments[a].taskCommitment
           /\ task.execution = assignments[a].execution

(* The worker in charge offered what the task asks for, under the          *)
(* requirements its assignment carries: neither path to an assignment      *)
(* skips the compatibility check (store.ts:107, 153).                      *)
AssignedOfferServesTask ==
  \A a \in DOMAIN assignments :
    Serviceable(assignments[a].execution, bids[assignments[a].bidId].executionOffer)

(* One delivery, one receipt: a resubmitted or duplicated delivery never   *)
(* adds a second receipt, an acknowledged one is never without, and only   *)
(* the assigned worker's receipt is there.                                 *)
DeliveryHasOneReceipt ==
  /\ \A a \in DOMAIN assignments :
       assignments[a].status \in {"submitted", "completed"}
         <=> \E r \in DOMAIN receipts : receipts[r].assignmentId = a
  /\ \A r1, r2 \in DOMAIN receipts :
       receipts[r1].assignmentId = receipts[r2].assignmentId => r1 = r2
  /\ \A r \in DOMAIN receipts :
       receipts[r].workerId = assignments[receipts[r].assignmentId].workerAddress

(* The commitment kept with a receipt binds what is kept beside it: it is  *)
(* the digest of the stored identifiers and result hash with one of the    *)
(* status words a client sends.  Not with the stored word, which is always *)
(* "submitted": a worker hashes "generated" (executor.ts:124, store.ts:334,*)
(* 348), so whoever opens the commitment has to know, or try, the word that*)
(* was sent.  The seeded receipt's commitment is a literal.                *)
CommitmentOpensReceipt ==
  \A r \in DOMAIN receipts \ SeedReceiptIds : \E status \in SentStatus :
    receipts[r].receiptCommitment = CommitReceipt(r, [receipts[r] EXCEPT !.status = status])

(* A dispute freezes the payout: the task is disputed exactly while a      *)
(* dispute is on record, its delivery stays submitted, and a settled task  *)
(* never had one - whichever of createDispute and acceptAssignment came    *)
(* first shut the other out (store.ts:231, 398).                           *)
DisputeFreezesSettlement ==
  /\ \A t \in DOMAIN tasks :
       tasks[t].status = "disputed" <=> \E d \in DOMAIN disputes : disputes[d].taskId = t
  /\ \A d \in DOMAIN disputes :
       /\ disputes[d].status \in ActiveDispute
       /\ assignments[disputes[d].assignmentId].status = "submitted"
       /\ IsParty(disputes[d].assignmentId, disputes[d].openedBy)
  /\ \A d1, d2 \in DOMAIN disputes :
       disputes[d1].taskId = disputes[d2].taskId => d1 = d2

RecordsOf(t) ==
  << tasks[t],
     [b \in {x \in DOMAIN bids : bids[x].taskId = t} |-> bids[b]],
     [a \in {x \in DOMAIN assignments : assignments[x].taskId = t} |-> assignments[a]],
     [r \in {x \in DOMAIN receipts : receipts[x].taskId = t} |-> receipts[r]],
     [d \in {x \in DOMAIN disputes : disputes[x].taskId = t} |-> disputes[d]] >>

(* Settlement closes the book: once a task is settled no request, however  *)
(* late, adds or changes a bid, an assignment, a receipt or a dispute of it*)
(* (a late bid, a repeated acknowledgement, a retried submission or        *)
(* acceptance, a dispute filed after the payout).                          *)
SettledIsFinal ==
  [][\A t \in DOMAIN tasks : tasks[t].status = "settled" => RecordsOf(t)' = RecordsOf(t)]_vars

(* apps/api/README.md:42 says that disputes freeze settlement until        *)
(* selective reveal or manual resolution.  The code has no resolution, and *)
(* acceptAssignment refuses a revealed dispute as it refuses an open one.  *)
RevealUnfreezesSettlement ==
  \A d \in DOMAIN disputes :
    disputes[d].status = "revealed" => Settleable(disputes[d].taskId, disputes[d].assignmentId)

-----------------------------------------------------------------------------
(* Each task implements the contract's escrow.  The phase is derived from  *)
(* the task's status, the sequence from the phase; keys come from the      *)
(* addresses, the commitments from the task, its assignment and its        *)
(* receipt.  The store keeps the reward in clear beside the commitment to  *)
(* the task, so one commitment stands for both.                            *)
AssignmentsOf(t) == {a \in DOMAIN assignments : assignments[a].taskId = t}
ReceiptsOf(t) == {r \in DOMAIN receipts : receipts[r].taskId = t}

AssignmentOf(t) == assignments[CHOOSE a \in AssignmentsOf(t) : TRUE]
ReceiptOf(t) == receipts[CHOOSE r \in ReceiptsOf(t) : TRUE]

StatusOf(t) == IF t \in DOMAIN tasks THEN tasks[t].status ELSE "absent"

EscrowPhase(t) ==
  [absent |-> "UNINITIALIZED", open |-> "OPEN", assigned |-> "ASSIGNED",
   submitted |-> "SUBMITTED", settled |-> "SETTLED", disputed |-> "DISPUTED",
   cancelled |-> "CANCELLED"][StatusOf(t)]

EscrowSequence(t) ==
  [absent |-> 1, open |-> 2, assigned |-> 3, submitted |-> 4,
   settled |-> 5, disputed |-> 5, cancelled |-> 3][StatusOf(t)]

NoOwner   == <<"nightshift:none:owner">>
NoWorker  == <<"nightshift:none:worker">>
NoReceipt == <<"nightshift:none:receipt">>

EscrowOwner(t) ==
  IF t \in DOMAIN tasks THEN <<"nightshift:owner", tasks[t].employerAddress>> ELSE NoOwner

EscrowWorker(t) ==
  IF AssignmentsOf(t) = {} THEN NoWorker
  ELSE <<"nightshift:worker", AssignmentOf(t).workerAddress>>

EscrowTask(t) ==
  IF t \in DOMAIN tasks THEN tasks[t].taskCommitment ELSE "nightshift:none:task"

EscrowReward(t) ==
  IF t \in DOMAIN tasks THEN tasks[t].taskCommitment ELSE "nightshift:none:reward"

EscrowBid(t) ==
  IF AssignmentsOf(t) = {} THEN "nightshift:none:bid" ELSE AssignmentOf(t).bidCommitment

EscrowReceipt(t) ==
  IF ReceiptsOf(t) = {} THEN NoReceipt ELSE ReceiptOf(t).receiptCommitment

Escrow(t) == INSTANCE TaskEscrow WITH
  TaskCommitment <- Commitment, RewardCommitment <- Commitment,
  BidCommitment <- Commitment, ReceiptCommitment <- ReceiptHash, MaxSequence <- 5,
  phase <- EscrowPhase(t), sequence <- EscrowSequence(t),
  ownerKey <- EscrowOwner(t), workerKey <- EscrowWorker(t),
  taskCommitment <- EscrowTask(t), rewardCommitment <- EscrowReward(t),
  winningBidCommitment <- EscrowBid(t), receiptCommitment <- EscrowReceipt(t)

FreshTaskId == IF SeedInitialData THEN TaskId \ SeedTaskIds ELSE TaskId

(* Every task created through the API goes through the contract's life: the*)
(* store's handlers, which never see the contract, take no step on a task  *)
(* that one of its circuits would not have taken, with the same parties    *)
(* and the same commitments.  This is Escrow(t)!Spec for every such task,   *)
(* written so that TLC can check it: the box is pulled out of the \A.      *)
ImplementsEscrow ==
  /\ \A t \in FreshTaskId : Escrow(t)!Init
  /\ [][\A t \in FreshTaskId : [Escrow(t)!Next]_(Escrow(t)!vars)]_vars

=============================================================================
