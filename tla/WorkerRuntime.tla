---------------------------- MODULE WorkerRuntime ----------------------------
(***************************************************************************)
(* Worker processes (packages/worker/src) that poll the API for their      *)
(* assignments, acknowledge, execute and submit them one after the other,  *)
(* over the store of NightShiftStore.                                      *)
(*                                                                         *)
(* A process awaits one request at a time.  The API handles a request in   *)
(* one step; the step of the answer is that step, since a process that     *)
(* never sees it fails like one that stopped right after it.  A request    *)
(* whose process gave up (lost connection, crash) is stray: the API may    *)
(* still handle it, later than anything the restarted process has sent.    *)
(* Nothing of a run survives its failure.                                  *)
(*                                                                         *)
(* A definition marked as a slip is the definition after it with one       *)
(* plausible bug.                                                          *)
(***************************************************************************)
EXTENDS NightShiftStore, FiniteSets

CONSTANTS
  Process,     \* worker processes
  WorkerId,    \* WORKER_ID of each process; several may share one
  Catalog,     \* transports and model providers each is configured with
  MaxItems,    \* maxConcurrentAssignments, as the poll's schema bounds it
  Oversized,   \* results beyond the JSON budget of the submission's schema
  MaxStray     \* bound: requests under way without their process

ASSUME RuntimeAssumption ==
  /\ WorkerId \in [Process -> Party]
  /\ DOMAIN Catalog = Process
  /\ \A p \in Process : /\ Catalog[p] # Undefined
                        /\ DOMAIN Catalog[p].providers \subseteq Nat \ {0}
  /\ MaxItems \in 1..10
  /\ Oversized \subseteq Content
  /\ "generated" \in SentStatus
  /\ MaxStray \in Nat

Submission ==
  [assignmentId : AssignmentId, workerId : Party, receipt : ExecutionReceipt,
   result : Content, receiptHash : ReceiptHash]

ASSUME SubmissionAssumption == Undefined \notin Submission

VARIABLES
  listing,   \* the assignments as the store lists them, newest first
  tied,      \* how many of the newest share their millisecond
  runs,      \* what each process is doing
  stray      \* requests given up by their process

runtimeVars == <<vars, listing, tied, runs, stray>>

-----------------------------------------------------------------------------
Step == {"idle", "acknowledging", "executing", "submitting"}

(* The actor is the X-NightShift-Actor-Id header. *)
AckRequest    == [actor : Party, ack : AssignmentId]
SubmitRequest == [actor : Party, submission : Submission]

Run ==
  [step : Step, batch : SUBSET AssignmentId, current : AssignmentId \cup {Undefined},
   submission : Submission \cup {Undefined}, reported : SUBSET ReceiptId]

IdleRun ==
  [step |-> "idle", batch |-> {}, current |-> Undefined, submission |-> Undefined,
   reported |-> {}]

RuntimeInit ==
  /\ Init
  /\ listing = IF SeedInitialData THEN <<"assignment-two", "assignment-three">> ELSE <<>>
  /\ tied = IF SeedInitialData THEN 1 ELSE 0
  /\ runs = [p \in Process |-> IdleRun]
  /\ stray = {}

-----------------------------------------------------------------------------
(* The sort by createdAt is stable: within one millisecond the older stays *)
(* first.                                                                  *)
Listed(a) ==
  \/ listing' = <<a>> \o listing /\ tied' = 1
  \/ /\ tied > 0
     /\ listing' = SubSeq(listing, 1, tied) \o <<a>> \o SubSeq(listing, tied + 1, Len(listing))
     /\ tied' = tied + 1

(* The employers and the bidders. *)
Clients ==
  /\ \/ \E t \in TaskId, p \in Party, c \in Commitment, e \in Execution \cup {Undefined} :
          CreateTask(t, p, c, e) /\ UNCHANGED <<listing, tied>>
     \/ \E b \in BidId, t \in TaskId, p \in Party, c \in Commitment,
           o \in Offer \cup {Undefined} :
          CreateBid(b, t, p, c, o) /\ UNCHANGED <<listing, tied>>
     \/ \E a \in AssignmentId, t \in TaskId, b \in BidId, w \in Party, e \in Party :
          CreateAssignment(a, t, b, w, e) /\ Listed(a)
     \/ \E t \in TaskId, a \in AssignmentId :
          AcceptAssignment(t, a) /\ UNCHANGED <<listing, tied>>
     \/ \E d \in DisputeId, t \in TaskId, a \in AssignmentId, p \in Party :
          CreateDispute(d, t, a, p) /\ UNCHANGED <<listing, tied>>
     \/ \E d \in DisputeId, p \in Party :
          SubmitReveal(d, p) /\ UNCHANGED <<listing, tied>>
  /\ UNCHANGED <<runs, stray>>

-----------------------------------------------------------------------------
(* Polling.                                                                *)

Before(a, b) == \E i, j \in DOMAIN listing : i < j /\ listing[i] = a /\ listing[j] = b

ListAssignmentsOfAnyone(worker) ==   \* slip: whose assignment it is is not asked
  {a \in DOMAIN assignments : assignments[a].status \in ActiveAssignment}

ListQueuedForWorker(worker) ==       \* slip: what was acknowledged is not listed
  {a \in DOMAIN assignments : /\ assignments[a].workerAddress = worker
                              /\ assignments[a].status = "queued"}

ListAssignmentsForWorker(worker) ==
  {a \in DOMAIN assignments : /\ assignments[a].workerAddress = worker
                              /\ assignments[a].status \in ActiveAssignment}

Newest(n, listed) ==
  {a \in listed : Cardinality({x \in listed : Before(x, a)}) < n}

BuildPollResponseUnfiltered(worker, maxItems, offer) ==   \* slip: offer not looked at
  Newest(maxItems, ListAssignmentsForWorker(worker))

BuildPollResponseSliced(worker, maxItems, offer) ==   \* slip: sliced before it is filtered
  {a \in Newest(maxItems, ListAssignmentsForWorker(worker)) :
     Compatible(assignments[a].execution, offer)}

(* A batch is a set, worked off in the order of the list. *)
BuildPollResponse(worker, maxItems, offer) ==
  Newest(maxItems,
    {a \in ListAssignmentsForWorker(worker) : Compatible(assignments[a].execution, offer)})

(* runWorkerOnce begins. *)
Poll(p) ==
  LET batch == BuildPollResponse(WorkerId[p], MaxItems, Catalog[p])
  IN  /\ runs[p].step = "idle"
      /\ runs' = [runs EXCEPT ![p] =
           [IdleRun EXCEPT !.step = IF batch = {} THEN "idle" ELSE "acknowledging",
                           !.batch = batch]]
      /\ UNCHANGED <<vars, listing, tied, stray>>

(* The loop comes to a: the first of what is left of the batch. *)
Reached(p, a) ==
  /\ a \in runs[p].batch
  /\ \A x \in runs[p].batch \ {a} : Before(a, x)

-----------------------------------------------------------------------------
(* The API's side of a request: what it checks before it calls the store,  *)
(* and what the store checks.                                              *)
AckAccepted(r) ==
  /\ Acknowledgeable(r.ack)
  /\ assignments[r.ack].workerAddress = r.actor

SubmissionAccepted(r) ==
  LET s == r.submission
  IN  /\ s.result \notin Oversized
      /\ s.receipt.assignmentId = s.assignmentId
      /\ s.assignmentId \in DOMAIN assignments
      /\ assignments[s.assignmentId].workerAddress = r.actor
      /\ s.workerId = r.actor
      /\ Submittable(s.assignmentId)
      /\ ReceiptMatches(s.assignmentId, s.receipt)
      /\ ReceiptVerifies(s.receipt, s.result, s.receiptHash)

HandleAck(r) == AckAccepted(r) /\ AcknowledgeAssignment(r.ack)

HandleSubmission(r) ==
  LET s == r.submission
  IN  /\ SubmissionAccepted(r)
      /\ RecordWorkerSubmission(s.assignmentId, s.workerId, s.receipt, s.result, s.receiptHash)

-----------------------------------------------------------------------------
(* One run, assignment by assignment.                                      *)

AckOf(p, a) == [actor |-> WorkerId[p], ack |-> a]
SubmissionOf(p) == [actor |-> WorkerId[p], submission |-> runs[p].submission]

AcknowledgedUnawaited(p, a) ==   \* slip: the acknowledgement is not awaited
  /\ runs[p].step = "acknowledging"
  /\ Reached(p, a)
  /\ runs' = [runs EXCEPT ![p].step = "executing", ![p].current = a]
  /\ stray' = stray \cup {AckOf(p, a)}
  /\ UNCHANGED <<vars, listing, tied>>

Acknowledged(p, a) ==
  /\ runs[p].step = "acknowledging"
  /\ Reached(p, a)
  /\ HandleAck(AckOf(p, a))
  /\ runs' = [runs EXCEPT ![p].step = "executing", ![p].current = a]
  /\ UNCHANGED <<listing, tied, stray>>

(* randomUUID: nobody else has the identifier. *)
Unused(receiptId) ==
  /\ receiptId \notin DOMAIN receipts
  /\ \A p \in Process : runs[p].step = "submitting" =>
       runs[p].submission.receipt.receiptId # receiptId
  /\ \A r \in stray : "submission" \in DOMAIN r =>
       r.submission.receipt.receiptId # receiptId

CreateReceipt(a, receiptId, result) ==
  [receiptId |-> receiptId, assignmentId |-> a,
   taskId |-> assignments[a].taskId, bidId |-> assignments[a].bidId,
   workerId |-> assignments[a].workerAddress, status |-> "generated",
   resultHash |-> HashCanonicalJson(result)]

BuildAssignmentSubmission(a, receiptId, result) ==
  LET receipt == CreateReceipt(a, receiptId, result)
  IN  [assignmentId |-> a, workerId |-> assignments[a].workerAddress,
       receipt |-> receipt, result |-> result,
       receiptHash |-> CommitReceipt(receiptId, receipt)]

ExecutedAndReported(p, receiptId, result) ==   \* slip: reported before it is sent
  /\ runs[p].step = "executing"
  /\ Unused(receiptId)
  /\ runs' = [runs EXCEPT ![p].step = "submitting",
                          ![p].submission = BuildAssignmentSubmission(runs[p].current, receiptId, result),
                          ![p].reported = @ \cup {receiptId}]
  /\ UNCHANGED <<vars, listing, tied, stray>>

(* The executor succeeds.  The records of a polled assignment that the     *)
(* receipt copies never change, so they are read where they are.           *)
Executed(p, receiptId, result) ==
  /\ runs[p].step = "executing"
  /\ Unused(receiptId)
  /\ runs' = [runs EXCEPT ![p].step = "submitting",
                          ![p].submission = BuildAssignmentSubmission(runs[p].current, receiptId, result)]
  /\ UNCHANGED <<vars, listing, tied, stray>>

Finished(p, rest, step) ==
  runs' = [runs EXCEPT ![p] =
    [step |-> step, batch |-> rest, current |-> Undefined, submission |-> Undefined,
     reported |-> @.reported \cup {@.submission.receipt.receiptId}]]

Submitted(p) ==
  LET rest == runs[p].batch \ {runs[p].current}
  IN  /\ runs[p].step = "submitting"
      /\ HandleSubmission(SubmissionOf(p))
      /\ Finished(p, rest, IF rest = {} THEN "idle" ELSE "acknowledging")
      /\ UNCHANGED <<listing, tied, stray>>

-----------------------------------------------------------------------------
(* The ways a run ends early.  Every one of them is an exception that      *)
(* leaves the loop over the batch; the rest of it is abandoned.            *)

RefusedRequest(p) ==
  \/ /\ runs[p].step = "acknowledging"
     /\ \E a \in runs[p].batch : Reached(p, a) /\ ~AckAccepted(AckOf(p, a))
  \/ /\ runs[p].step = "submitting"
     /\ ~SubmissionAccepted(SubmissionOf(p))

Refused(p) ==
  /\ RefusedRequest(p)
  /\ runs' = [runs EXCEPT ![p] = IdleRun]
  /\ UNCHANGED <<vars, listing, tied, stray>>

PendingRequest(p) ==
  CASE runs[p].step = "acknowledging" -> {AckOf(p, a) : a \in {x \in runs[p].batch : Reached(p, x)}}
    [] runs[p].step = "submitting" -> {SubmissionOf(p)}
    [] OTHER -> {}

(* The model server or the connection fails, or the process is restarted. *)
Failed(p) ==
  /\ runs[p].step # "idle"
  /\ runs' = [runs EXCEPT ![p] = IdleRun]
  /\ \/ stray' = stray
     \/ stray' = stray \cup PendingRequest(p) /\ Cardinality(stray') <= MaxStray
  /\ UNCHANGED <<vars, listing, tied>>

(* A stray request is handled, or lost, or refused as if it were lost. *)
StrayArrives(r) ==
  /\ \/ "ack" \in DOMAIN r /\ HandleAck(r)
     \/ "submission" \in DOMAIN r /\ HandleSubmission(r)
     \/ UNCHANGED vars
  /\ stray' = stray \ {r}
  /\ UNCHANGED <<listing, tied, runs>>

RuntimeNext ==
  \/ Clients
  \/ \E p \in Process :
       \/ Poll(p)
       \/ \E a \in AssignmentId : Acknowledged(p, a)
       \/ \E id \in ReceiptId, c \in Content : Executed(p, id, c)
       \/ Submitted(p)
       \/ Refused(p)
       \/ Failed(p)
  \/ \E r \in stray : StrayArrives(r)

RuntimeSpec == RuntimeInit /\ [][RuntimeNext]_runtimeVars

(* The endless loop (WORKER_LOOP=1) catches every failure and polls again, *)
(* and a refused request always throws.  That requests are answered and    *)
(* the model server returns a result within the budget again and again is  *)
(* the assumption on the surroundings.                                     *)
Fairness ==
  \A p \in Process :
    /\ WF_runtimeVars(Poll(p))
    /\ WF_runtimeVars(Refused(p))
    /\ SF_runtimeVars(\E a \in AssignmentId : Acknowledged(p, a))
    /\ SF_runtimeVars(\E id \in ReceiptId, c \in Content \ Oversized : Executed(p, id, c))
    /\ SF_runtimeVars(Submitted(p))

FairRuntimeSpec == RuntimeSpec /\ Fairness

-----------------------------------------------------------------------------
(* A run is idle exactly when its batch is worked off; what it executes or *)
(* submits is of its batch, and it submits what it executed.               *)
RuntimeTypeOK ==
  /\ TypeOK
  /\ listing \in Seq(AssignmentId)
  /\ tied \in 0..Len(listing)
  /\ runs \in [Process -> Run]
  /\ \A p \in Process :
       /\ runs[p].step = "idle" <=> runs[p].batch = {}
       /\ runs[p].step = "submitting" <=> runs[p].submission # Undefined
       /\ runs[p].step \in {"executing", "submitting"} => runs[p].current \in runs[p].batch
       /\ runs[p].step = "submitting" => runs[p].submission.assignmentId = runs[p].current
  /\ stray \subseteq AckRequest \cup SubmitRequest

(* A worker never runs a model task without a model: whatever it bid with, *)
(* the catalog it polls with has an allowed and able provider for every    *)
(* assignment of its batch, and its registry selects one                   *)
(* (store.ts:484-486, executor.ts:78-79).                                  *)
ExecutesWithCapableModel ==
  \A p \in Process : \A a \in runs[p].batch :
    LET execution == assignments[a].execution
    IN  execution # Undefined /\ execution.llm # Undefined =>
          SelectAdapter(execution.llm, Catalog[p].providers)
            \in Capable(execution.llm, Catalog[p].providers)

(* A request is refused only for a reason of its own time: as long as the  *)
(* assignment has not been delivered, the API accepts every acknowledgement*)
(* and every submission within the budget that a worker has under way,     *)
(* also one that was sent by a run long given up, by another process of    *)
(* the same worker, or after a repeated execution.                         *)
RefusedOnlyIfDelivered ==
  \A r \in stray \cup UNION {PendingRequest(p) : p \in Process} :
    \/ /\ "ack" \in DOMAIN r
       /\ AckAccepted(r) \/ assignments[r.ack].status \notin ActiveAssignment
    \/ /\ "submission" \in DOMAIN r
       /\ \/ SubmissionAccepted(r)
          \/ r.submission.result \in Oversized
          \/ assignments[r.submission.assignmentId].status \notin ActiveAssignment

(* What a run reports as submitted is on record, as this worker's work:    *)
(* results.push follows the awaited answer (runtime.ts:64-68).             *)
ReportedIsRecorded ==
  \A p \in Process : \A id \in runs[p].reported :
    /\ id \in DOMAIN receipts
    /\ receipts[id].workerId = WorkerId[p]

(* A worker process delivers nothing that was not acknowledged, whatever   *)
(* was lost, given up or handled late.  It holds of processes only: the    *)
(* store takes a queued assignment's delivery, and a browser page may send *)
(* one (task-detail-actions.tsx:487).                                      *)
DeliveredAfterAcknowledgement ==
  [][\A a \in DOMAIN assignments :
       assignments[a].status = "queued" =>
         assignments'[a].status \in {"queued", "accepted", "in_progress"}]_runtimeVars

(* The only recovery is the next poll, and it suffices: an assignment that *)
(* a worker's catalog serves is delivered in the end, whatever failed      *)
(* between, although newer assignments are preferred and a failure         *)
(* abandons the batch.                                                     *)
ServedByProcess(a) ==
  /\ a \in DOMAIN assignments
  /\ assignments[a].status \in ActiveAssignment
  /\ \E p \in Process : /\ assignments[a].workerAddress = WorkerId[p]
                        /\ Serviceable(assignments[a].execution, Catalog[p])

Delivered(a) ==
  a \in DOMAIN assignments /\ assignments[a].status \notin ActiveAssignment

ServedIsDelivered ==
  \A a \in AssignmentId : ServedByProcess(a) ~> Delivered(a)

=============================================================================
