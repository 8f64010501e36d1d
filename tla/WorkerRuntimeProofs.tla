------------------------ MODULE WorkerRuntimeProofs ------------------------
(***************************************************************************)
(* The safety of WorkerRuntime for every number of processes, every        *)
(* catalog and any number of stray requests.                               *)
(*                                                                         *)
(* Whatever the processes do, the store takes only its own steps           *)
(* (StoreStep), so all its invariants hold under retries and restarts.     *)
(* RInv adds what is known of the work under way: each part speaks of the  *)
(* processes and of the stray requests alike, since a failure turns the    *)
(* one into the other.                                                     *)
(***************************************************************************)
EXTENDS WorkerRuntime, NightShiftStoreProofs, SequenceTheorems

(* A submission as a run has built it from an acknowledged assignment. *)
IsWork(s, worker) ==
  \E a \in DOMAIN assignments, id \in ReceiptId, c \in Content :
    /\ s = BuildAssignmentSubmission(a, id, c)
    /\ assignments[a].workerAddress = worker
    /\ assignments[a].status # "queued"

IsAckRequest(r) ==
  \E a \in DOMAIN assignments :
    r = [actor |-> assignments[a].workerAddress, ack |-> a]

IsSubmitRequest(r) ==
  \E worker \in Party : \E s \in Submission :
    r = [actor |-> worker, submission |-> s] /\ IsWork(s, worker)

RunsTyped == runs \in [Process -> Run]

RunShapes ==
  \A p \in Process :
    /\ runs[p].step = "idle" <=> runs[p].batch = {}
    /\ runs[p].step = "submitting" <=> runs[p].submission # Undefined
    /\ runs[p].step \in {"executing", "submitting"} => runs[p].current \in runs[p].batch
    /\ runs[p].step = "submitting" => runs[p].submission.assignmentId = runs[p].current

BatchesServed ==
  \A p \in Process : \A a \in runs[p].batch :
    /\ a \in DOMAIN assignments
    /\ assignments[a].workerAddress = WorkerId[p]
    /\ Compatible(assignments[a].execution, Catalog[p])

ExecutingAcknowledged ==
  \A p \in Process :
    runs[p].step = "executing" => assignments[runs[p].current].status # "queued"

WorkUnderWay ==
  /\ \A p \in Process :
       runs[p].step = "submitting" => IsWork(runs[p].submission, WorkerId[p])
  /\ \A r \in stray : IsAckRequest(r) \/ IsSubmitRequest(r)

IdOf(p) == runs[p].submission.receipt.receiptId

(* Every submission under way has a receipt identifier of its own. *)
IdentifiersDiffer ==
  /\ \A p \in Process : runs[p].step = "submitting" =>
       /\ IdOf(p) \notin DOMAIN receipts
       /\ \A q \in Process : runs[q].step = "submitting" /\ IdOf(q) = IdOf(p) => q = p
       /\ \A r \in stray : "submission" \in DOMAIN r =>
            r.submission.receipt.receiptId # IdOf(p)
  /\ \A r1 \in stray : "submission" \in DOMAIN r1 =>
       /\ r1.submission.receipt.receiptId \notin DOMAIN receipts
       /\ \A r2 \in stray :
            /\ "submission" \in DOMAIN r2
            /\ r2.submission.receipt.receiptId = r1.submission.receipt.receiptId
            => r2 = r1

RInv ==
  /\ IInv
  /\ RunsTyped
  /\ RunShapes
  /\ BatchesServed
  /\ ExecutingAcknowledged
  /\ WorkUnderWay
  /\ IdentifiersDiffer
  /\ ReportedIsRecorded

-----------------------------------------------------------------------------
(* What a store step does to the records a run relies on: the terms of an  *)
(* assignment stay, an acknowledgement is never undone, and a receipt is   *)
(* never changed.                                                          *)
RecordsStay ==
  /\ \A a \in DOMAIN assignments :
       /\ a \in DOMAIN assignments'
       /\ assignments'[a].taskId = assignments[a].taskId
       /\ assignments'[a].bidId = assignments[a].bidId
       /\ assignments'[a].workerAddress = assignments[a].workerAddress
       /\ assignments'[a].execution = assignments[a].execution
       /\ assignments[a].status # "queued" => assignments'[a].status # "queued"
  /\ \A id \in DOMAIN receipts : id \in DOMAIN receipts' /\ receipts'[id] = receipts[id]

LEMMA StoreKeepsRecords ==
  ASSUME IInv, [Next]_vars
  PROVE  RecordsStay
<1>1. /\ assignments \in [DOMAIN assignments -> AssignmentRecord]
      /\ receipts \in [DOMAIN receipts -> ReceiptRecord]
  BY DEF IInv, TypeOK, MapOf
<1>2. CASE UNCHANGED <<assignments, receipts>>
  BY <1>2 DEF RecordsStay
<1>3. ASSUME NEW a \in AssignmentId, NEW t \in TaskId, NEW b \in BidId,
             NEW w \in Party, NEW e \in Party, CreateAssignment(a, t, b, w, e)
      PROVE  RecordsStay
  BY <1>3 DEF CreateAssignment, MapSet, RecordsStay
<1>4. ASSUME UNCHANGED receipts, NEW a \in DOMAIN assignments, NEW status, status # "queued",
             assignments' = [assignments EXCEPT ![a].status = status]
      PROVE  RecordsStay
  BY <1>1, <1>4 DEF AssignmentRecord, RecordsStay
<1>5. ASSUME NEW a \in AssignmentId, AcknowledgeAssignment(a)
      PROVE  RecordsStay
  <2> DEFINE status == IF assignments[a].status = "in_progress" THEN "in_progress" ELSE "accepted"
  <2>1. /\ a \in DOMAIN assignments
        /\ UNCHANGED receipts
        /\ assignments' = [assignments EXCEPT ![a].status = status]
    BY <1>1, <1>5 DEF AcknowledgeAssignment, Acknowledgeable, AssignmentRecord
  <2>2. status # "queued"
    OBVIOUS
  <2> HIDE DEF status
  <2>3. QED
    BY <2>1, <2>2, <1>4
<1>6. ASSUME NEW a \in AssignmentId, NEW w \in Party, NEW r \in ExecutionReceipt,
             NEW c \in Content, NEW h, RecordWorkerSubmission(a, w, r, c, h)
      PROVE  RecordsStay
  <2>1. /\ a \in DOMAIN assignments
        /\ r.receiptId \notin DOMAIN receipts
        /\ assignments' = [assignments EXCEPT ![a].status = "submitted"]
    BY <1>6 DEF RecordWorkerSubmission, Submittable, ReceiptMatches
  <2>2. \A id \in DOMAIN receipts : id \in DOMAIN receipts' /\ receipts'[id] = receipts[id]
    BY <1>6, <2>1 DEF RecordWorkerSubmission, MapSet
  <2>3. QED
    BY <1>1, <2>1, <2>2 DEF AssignmentRecord, RecordsStay
<1>7. ASSUME NEW t \in TaskId, NEW a \in AssignmentId, AcceptAssignment(t, a)
      PROVE  RecordsStay
  BY <1>7, <1>4 DEF AcceptAssignment, Settleable
<1>8. ASSUME NEW t \in TaskId, NEW p \in Party, NEW c \in Commitment,
             NEW e \in Execution \cup {Undefined}, CreateTask(t, p, c, e)
      PROVE  UNCHANGED <<assignments, receipts>>
  BY <1>8 DEF CreateTask
<1>9. ASSUME NEW b \in BidId, NEW t \in TaskId, NEW p \in Party, NEW c \in Commitment,
             NEW o \in Offer \cup {Undefined}, CreateBid(b, t, p, c, o)
      PROVE  UNCHANGED <<assignments, receipts>>
  BY <1>9 DEF CreateBid
<1>10. ASSUME NEW d \in DisputeId, NEW t \in TaskId, NEW a \in AssignmentId, NEW p \in Party,
              CreateDispute(d, t, a, p)
       PROVE  UNCHANGED <<assignments, receipts>>
  BY <1>10 DEF CreateDispute
<1>11. ASSUME NEW d \in DisputeId, NEW p \in Party, SubmitReveal(d, p)
       PROVE  UNCHANGED <<assignments, receipts>>
  BY <1>11 DEF SubmitReveal
<1>12. QED
  BY <1>2, <1>3, <1>5, <1>6, <1>7, <1>8, <1>9, <1>10, <1>11 DEF Next, vars

-----------------------------------------------------------------------------
(* The store under the processes takes its own steps.                      *)

LEMMA SubmissionIsStoreStep ==
  ASSUME IInv, NEW r, r.submission \in Submission, HandleSubmission(r)
  PROVE  Next
<1> DEFINE s == r.submission
<1>1. /\ s.assignmentId \in AssignmentId
      /\ s.workerId \in Party
      /\ s.receipt \in ExecutionReceipt
      /\ s.result \in Content
  BY DEF Submission
<1>2. /\ RecordWorkerSubmission(s.assignmentId, s.workerId, s.receipt, s.result, s.receiptHash)
      /\ s.receiptHash = CommitReceipt(s.receipt.receiptId, s.receipt)
  BY DEF HandleSubmission, SubmissionAccepted, ReceiptVerifies
<1> HIDE DEF s
<1>3. QED
  BY <1>1, <1>2 DEF Next

LEMMA AckIsStoreStep ==
  ASSUME IInv, NEW r, HandleAck(r)
  PROVE  Next
<1>1. r.ack \in AssignmentId /\ AcknowledgeAssignment(r.ack)
  BY DEF HandleAck, AckAccepted, Acknowledgeable, IInv, TypeOK, MapOf
<1>2. QED
  BY <1>1 DEF Next

LEMMA ClientsAreStoreSteps == Clients => Next
BY DEF Clients, Next

(* Whatever is under way in a process or astray has the type it was built  *)
(* with.                                                                   *)
LEMMA SubmissionsTyped ==
  ASSUME RInv
  PROVE  /\ \A p \in Process :
              runs[p].step = "submitting" => SubmissionOf(p).submission \in Submission
         /\ \A r \in stray : "submission" \in DOMAIN r => r.submission \in Submission
<1>1. ASSUME NEW p \in Process, runs[p].step = "submitting"
      PROVE  SubmissionOf(p).submission \in Submission
  BY <1>1 DEF RInv, RunsTyped, RunShapes, Run, SubmissionOf
<1>2. ASSUME NEW r \in stray, "submission" \in DOMAIN r
      PROVE  r.submission \in Submission
  BY <1>2 DEF RInv, WorkUnderWay, IsAckRequest, IsSubmitRequest
<1>3. QED
  BY <1>1, <1>2

LEMMA StoreStep ==
  ASSUME RInv, [RuntimeNext]_runtimeVars
  PROVE  [Next]_vars
<1>0. IInv
  BY DEF RInv
<1>1. ASSUME NEW p \in Process, NEW a \in AssignmentId, Acknowledged(p, a)
      PROVE  Next
  BY <1>0, <1>1, AckIsStoreStep DEF Acknowledged
<1>2. ASSUME NEW p \in Process, Submitted(p)
      PROVE  Next
  BY <1>0, <1>2, SubmissionIsStoreStep, SubmissionsTyped DEF Submitted
<1>3. ASSUME NEW r \in stray, StrayArrives(r)
      PROVE  Next \/ UNCHANGED vars
  BY <1>0, <1>3, SubmissionIsStoreStep, AckIsStoreStep, SubmissionsTyped DEF StrayArrives
<1>4. ASSUME NEW p \in Process,
             Poll(p) \/ Refused(p) \/ Failed(p)
               \/ \E id \in ReceiptId, c \in Content : Executed(p, id, c)
      PROVE  UNCHANGED vars
  BY <1>4 DEF Poll, Refused, Failed, Executed
<1>5. CASE UNCHANGED runtimeVars
  BY <1>5 DEF runtimeVars
<1>6. QED
  BY <1>1, <1>2, <1>3, <1>4, <1>5, ClientsAreStoreSteps DEF RuntimeNext

-----------------------------------------------------------------------------
(* What is known of the work under way outlives a store step.              *)
LEMMA WorkStays ==
  ASSUME RecordsStay
  PROVE  /\ \A s, worker : IsWork(s, worker) => IsWork(s, worker)'
         /\ \A r : IsAckRequest(r) => IsAckRequest(r)'
         /\ \A r : IsSubmitRequest(r) => IsSubmitRequest(r)'
<1>1. ASSUME NEW a \in DOMAIN assignments, NEW id, NEW c
      PROVE  BuildAssignmentSubmission(a, id, c)' = BuildAssignmentSubmission(a, id, c)
  BY DEF RecordsStay, BuildAssignmentSubmission, CreateReceipt
<1>2. ASSUME NEW s, NEW worker, IsWork(s, worker)
      PROVE  IsWork(s, worker)'
  <2>1. PICK a \in DOMAIN assignments, id \in ReceiptId, c \in Content :
          /\ s = BuildAssignmentSubmission(a, id, c)
          /\ assignments[a].workerAddress = worker
          /\ assignments[a].status # "queued"
    BY <1>2 DEF IsWork
  <2>2. /\ a \in DOMAIN assignments'
        /\ assignments'[a].workerAddress = worker
        /\ assignments'[a].status # "queued"
        /\ s = BuildAssignmentSubmission(a, id, c)'
    BY <1>1, <2>1 DEF RecordsStay
  <2>3. QED
    BY <2>2 DEF IsWork
<1>3. ASSUME NEW r, IsAckRequest(r)
      PROVE  IsAckRequest(r)'
  BY <1>3 DEF IsAckRequest, RecordsStay
<1>4. ASSUME NEW r, IsSubmitRequest(r)
      PROVE  IsSubmitRequest(r)'
  BY <1>2, <1>4 DEF IsSubmitRequest
<1>5. QED
  BY <1>2, <1>3, <1>4

LEMMA RunsStay ==
  ASSUME RInv, RecordsStay, NEW q \in Process
  PROVE  /\ \A a \in runs[q].batch :
              /\ a \in DOMAIN assignments'
              /\ assignments'[a].workerAddress = WorkerId[q]
              /\ Compatible(assignments'[a].execution, Catalog[q])
         /\ runs[q].step = "executing" => assignments'[runs[q].current].status # "queued"
         /\ \A id \in runs[q].reported :
              id \in DOMAIN receipts' /\ receipts'[id].workerId = WorkerId[q]
<1>1. \A a \in runs[q].batch :
        /\ a \in DOMAIN assignments'
        /\ assignments'[a].workerAddress = WorkerId[q]
        /\ Compatible(assignments'[a].execution, Catalog[q])
  BY DEF RInv, BatchesServed, RecordsStay
<1>2. runs[q].step = "executing" => assignments'[runs[q].current].status # "queued"
  BY DEF RInv, RunShapes, BatchesServed, ExecutingAcknowledged, RecordsStay
<1>3. \A id \in runs[q].reported :
        id \in DOMAIN receipts' /\ receipts'[id].workerId = WorkerId[q]
  BY DEF RInv, ReportedIsRecorded, RecordsStay
<1>4. QED
  BY <1>1, <1>2, <1>3

(* A step that leaves the processes and the receipts alone. *)
LEMMA StoreStepPreserves ==
  ASSUME RInv, IInv', RecordsStay, UNCHANGED <<receipts, runs, stray>>
  PROVE  RInv'
<1>1. RunsTyped' /\ RunShapes'
  BY DEF RInv, RunsTyped, RunShapes
<1>2. BatchesServed' /\ ExecutingAcknowledged' /\ ReportedIsRecorded'
  BY RunsStay DEF BatchesServed, ExecutingAcknowledged, ReportedIsRecorded
<1>3. WorkUnderWay'
  BY WorkStays DEF RInv, WorkUnderWay
<1>4. IdentifiersDiffer'
  BY DEF RInv, IdentifiersDiffer, IdOf
<1>5. QED
  BY <1>1, <1>2, <1>3, <1>4 DEF RInv

(* A process that changes its run and leaves the store alone, or only has  *)
(* an assignment acknowledged.  What must be shown of it is what concerns  *)
(* its own new run.                                                        *)
OwnRun(p, run) ==
  /\ run \in Run
  /\ run.step = "idle" <=> run.batch = {}
  /\ run.step = "submitting" <=> run.submission # Undefined
  /\ run.step \in {"executing", "submitting"} => run.current \in run.batch
  /\ run.step = "submitting" => run.submission.assignmentId = run.current
  /\ \A a \in run.batch :
       /\ a \in DOMAIN assignments
       /\ assignments[a].workerAddress = WorkerId[p]
       /\ Compatible(assignments[a].execution, Catalog[p])
  /\ run.step = "executing" => assignments[run.current].status # "queued"
  /\ run.step = "submitting" => IsWork(run.submission, WorkerId[p])
  /\ \A id \in run.reported :
       id \in DOMAIN receipts /\ receipts[id].workerId = WorkerId[p]

LEMMA OwnRunStep ==
  ASSUME RInv, IInv', RecordsStay, UNCHANGED stray, NEW p \in Process, NEW run,
         runs' = [runs EXCEPT ![p] = run], OwnRun(p, run)'
  PROVE  /\ RunsTyped' /\ RunShapes' /\ BatchesServed'
         /\ ExecutingAcknowledged' /\ WorkUnderWay' /\ ReportedIsRecorded'
<1>1. /\ runs \in [Process -> Run]
      /\ runs'[p] = run
      /\ \A q \in Process : q # p => runs'[q] = runs[q]
  BY DEF RInv, RunsTyped
<1>2. RunsTyped'
  BY <1>1 DEF RunsTyped, OwnRun
<1>3. RunShapes'
  BY <1>1 DEF RInv, RunShapes, OwnRun
<1>4. BatchesServed'
  BY <1>1, RunsStay DEF BatchesServed, OwnRun
<1>5. ExecutingAcknowledged'
  BY <1>1, RunsStay DEF ExecutingAcknowledged, OwnRun
<1>6. WorkUnderWay'
  BY <1>1, WorkStays DEF RInv, WorkUnderWay, OwnRun
<1>7. ReportedIsRecorded'
  BY <1>1, RunsStay DEF ReportedIsRecorded, OwnRun
<1>8. QED
  BY <1>2, <1>3, <1>4, <1>5, <1>6, <1>7

LEMMA IdleRunIsOwn ==
  ASSUME NEW p \in Process
  PROVE  OwnRun(p, IdleRun)
BY DEF OwnRun, IdleRun, Run, Step

LEMMA PollPreserves ==
  ASSUME RInv, IInv', RecordsStay, NEW p \in Process, Poll(p)
  PROVE  RInv'
<1>0. PICK batch : batch = BuildPollResponse(WorkerId[p], MaxItems, Catalog[p])
  OBVIOUS
<1> DEFINE run == [IdleRun EXCEPT !.step = IF batch = {} THEN "idle" ELSE "acknowledging",
                                  !.batch = batch]
<1>1. /\ runs' = [runs EXCEPT ![p] = run]
      /\ UNCHANGED <<tasks, bids, assignments, receipts, disputes, stray>>
  BY <1>0 DEF Poll, vars
<1>2. \A a \in batch :
        /\ a \in DOMAIN assignments
        /\ assignments[a].workerAddress = WorkerId[p]
        /\ Compatible(assignments[a].execution, Catalog[p])
  BY <1>0 DEF BuildPollResponse, Newest, ListAssignmentsForWorker
<1>3. batch \in SUBSET AssignmentId
  BY <1>2 DEF RInv, IInv, TypeOK, MapOf
<1>4. /\ run.step = IF batch = {} THEN "idle" ELSE "acknowledging"
      /\ run.batch = batch /\ run.current = Undefined
      /\ run.submission = Undefined /\ run.reported = {}
      /\ run \in Run
  BY <1>3 DEF IdleRun, Run, Step
<1> HIDE DEF run
<1>5. OwnRun(p, run)'
  BY <1>1, <1>2, <1>4 DEF OwnRun
<1>6. runs'[p] = run /\ \A q \in Process : q # p => runs'[q] = runs[q]
  BY <1>1 DEF RInv, RunsTyped
<1>7. IdentifiersDiffer'
  BY <1>1, <1>4, <1>6 DEF RInv, IdentifiersDiffer, IdOf
<1>8. QED
  BY <1>1, <1>5, <1>7, OwnRunStep DEF RInv

LEMMA AcknowledgedPreserves ==
  ASSUME RInv, IInv', RecordsStay, NEW p \in Process, NEW a \in AssignmentId,
         Acknowledged(p, a)
  PROVE  RInv'
<1>0. runs[p] \in Run
  BY DEF RInv, RunsTyped
<1>r. PICK run : run = [runs[p] EXCEPT !.step = "executing", !.current = a]
  OBVIOUS
<1>1. /\ runs[p].step = "acknowledging"
      /\ a \in runs[p].batch
      /\ runs' = [runs EXCEPT ![p] = run]
      /\ AcknowledgeAssignment(a)
      /\ UNCHANGED <<receipts, stray>>
  BY <1>0, <1>r DEF RInv, RunsTyped, Acknowledged, Reached, HandleAck, AckOf,
                    AcknowledgeAssignment
<1>2. assignments'[a].status # "queued"
  <2>1. assignments \in [DOMAIN assignments -> AssignmentRecord] /\ a \in DOMAIN assignments
    BY <1>1 DEF RInv, IInv, TypeOK, MapOf, BatchesServed
  <2>2. QED
    BY <1>1, <2>1 DEF AcknowledgeAssignment, AssignmentRecord
<1>3. /\ run.step = "executing" /\ run.current = a
      /\ run.batch = runs[p].batch /\ run.submission = runs[p].submission
      /\ run.reported = runs[p].reported
      /\ run \in Run
  BY <1>0, <1>r DEF Run, Step
<1>4. runs[p].submission = Undefined
  BY <1>1 DEF RInv, RunShapes
<1>5. OwnRun(p, run)'
  BY <1>1, <1>2, <1>3, <1>4, RunsStay DEF OwnRun
<1>6. runs'[p] = run /\ \A q \in Process : q # p => runs'[q] = runs[q]
  BY <1>1 DEF RInv, RunsTyped
<1>7. IdentifiersDiffer'
  BY <1>1, <1>3, <1>6 DEF RInv, IdentifiersDiffer, IdOf
<1>8. QED
  BY <1>1, <1>5, <1>7, OwnRunStep DEF RInv

LEMMA ExecutedPreserves ==
  ASSUME RInv, IInv', RecordsStay, NEW p \in Process, NEW id \in ReceiptId,
         NEW c \in Content, Executed(p, id, c)
  PROVE  RInv'
<1>0. runs[p] \in Run
  BY DEF RInv, RunsTyped
<1>1. PICK a : a = runs[p].current
  OBVIOUS
<1>2. PICK s : s = BuildAssignmentSubmission(a, id, c)
  OBVIOUS
<1>3. PICK run : run = [runs[p] EXCEPT !.step = "submitting", !.submission = s]
  OBVIOUS
<1>4. /\ runs[p].step = "executing"
      /\ Unused(id)
      /\ runs' = [runs EXCEPT ![p] = run]
      /\ UNCHANGED <<tasks, bids, assignments, receipts, disputes, stray>>
  BY <1>0, <1>1, <1>2, <1>3 DEF RInv, RunsTyped, Executed, vars
<1>5. /\ a \in runs[p].batch
      /\ a \in DOMAIN assignments
      /\ assignments[a].workerAddress = WorkerId[p]
      /\ assignments[a].status # "queued"
  BY <1>1, <1>4 DEF RInv, RunShapes, BatchesServed, ExecutingAcknowledged
<1>6. IsWork(s, WorkerId[p])
  BY <1>2, <1>5 DEF IsWork
<1>7. s \in Submission /\ s.assignmentId = a /\ s.receipt.receiptId = id
  <2>1. a \in AssignmentId /\ assignments[a] \in AssignmentRecord
    BY <1>5 DEF RInv, IInv, TypeOK, MapOf
  <2>2. CreateReceipt(a, id, c) \in ExecutionReceipt
    BY <2>1, RuntimeAssumption DEF CreateReceipt, ExecutionReceipt, ResultHash, AssignmentRecord
  <2>3. CommitReceipt(id, CreateReceipt(a, id, c)) \in ReceiptHash
    <3>1. CreateReceipt(a, id, c).receiptId = id
      BY DEF CreateReceipt
    <3>2. QED
      BY <2>2, <3>1 DEF ReceiptHash
  <2>4. QED
    BY <1>2, <2>1, <2>2, <2>3
       DEF BuildAssignmentSubmission, Submission, AssignmentRecord, CreateReceipt
<1>8. s # Undefined
  BY <1>7, SubmissionAssumption
<1>9. /\ run.step = "submitting" /\ run.submission = s
      /\ run.batch = runs[p].batch /\ run.current = a
      /\ run.reported = runs[p].reported
      /\ run \in Run
  BY <1>0, <1>1, <1>3, <1>7 DEF Run, Step
<1>10. IsWork(s, WorkerId[p])'
  BY <1>6, WorkStays
<1>11. OwnRun(p, run)'
  BY <1>5, <1>7, <1>8, <1>9, <1>10, RunsStay DEF OwnRun
<1>12. runs'[p] = run /\ \A q \in Process : q # p => runs'[q] = runs[q]
  BY <1>4 DEF RInv, RunsTyped
<1>13. /\ id \notin DOMAIN receipts
       /\ \A q \in Process : runs[q].step = "submitting" => IdOf(q) # id
       /\ \A r \in stray : "submission" \in DOMAIN r => r.submission.receipt.receiptId # id
  BY <1>4 DEF Unused, IdOf
<1>14. IdentifiersDiffer'
  BY <1>4, <1>7, <1>9, <1>12, <1>13 DEF RInv, IdentifiersDiffer, IdOf
<1>15. QED
  BY <1>4, <1>11, <1>14, OwnRunStep DEF RInv

(* A failing process may leave the request it was waiting for astray. *)
LEMMA FailedPreserves ==
  ASSUME RInv, IInv', RecordsStay, NEW p \in Process, Refused(p) \/ Failed(p)
  PROVE  RInv'
<1>1. /\ runs' = [runs EXCEPT ![p] = IdleRun]
      /\ UNCHANGED <<tasks, bids, assignments, receipts, disputes>>
      /\ stray' = stray \/ stray' = stray \cup PendingRequest(p)
  BY DEF Refused, Failed, vars
<1>2. /\ runs \in [Process -> Run]
      /\ runs'[p] = IdleRun
      /\ \A q \in Process : q # p => runs'[q] = runs[q]
  BY <1>1 DEF RInv, RunsTyped
<1>3. /\ IdleRun \in Run /\ IdleRun.step = "idle" /\ IdleRun.batch = {}
      /\ IdleRun.submission = Undefined /\ IdleRun.reported = {}
  BY DEF IdleRun, Run, Step
<1>4. RunsTyped' /\ RunShapes'
  <2>1. RunsTyped'
    BY <1>1, <1>2, <1>3 DEF RunsTyped
  <2>2. RunShapes'
    BY <1>2, <1>3 DEF RInv, RunShapes
  <2>3. QED
    BY <2>1, <2>2
<1>5. BatchesServed' /\ ExecutingAcknowledged' /\ ReportedIsRecorded'
  BY <1>2, <1>3, RunsStay DEF BatchesServed, ExecutingAcknowledged, ReportedIsRecorded
<1>6. ASSUME NEW r \in PendingRequest(p)
      PROVE  \/ IsAckRequest(r) /\ "submission" \notin DOMAIN r
             \/ /\ runs[p].step = "submitting" /\ r = SubmissionOf(p)
                /\ IsSubmitRequest(r)
  <2>1. CASE runs[p].step = "acknowledging"
    <3>1. PICK a \in runs[p].batch : r = AckOf(p, a)
      BY <1>6, <2>1 DEF PendingRequest
    <3>2. a \in DOMAIN assignments /\ assignments[a].workerAddress = WorkerId[p]
      BY <3>1 DEF RInv, BatchesServed
    <3>3. QED
      BY <3>1, <3>2 DEF AckOf, IsAckRequest
  <2>2. CASE runs[p].step = "submitting"
    <3>1. r = SubmissionOf(p)
      BY <1>6, <2>2 DEF PendingRequest
    <3>2. /\ runs[p].submission \in Submission
          /\ IsWork(runs[p].submission, WorkerId[p])
          /\ WorkerId[p] \in Party
      BY <2>2, <1>2, RuntimeAssumption DEF RInv, RunShapes, WorkUnderWay, Run
    <3>3. QED
      BY <2>2, <3>1, <3>2 DEF SubmissionOf, IsSubmitRequest
  <2>3. CASE runs[p].step \notin {"acknowledging", "submitting"}
    BY <1>6, <2>3 DEF PendingRequest
  <2>4. QED
    BY <2>1, <2>2, <2>3
<1>7. WorkUnderWay'
  <2>1. \A r \in stray' : IsAckRequest(r) \/ IsSubmitRequest(r)
    BY <1>1, <1>6 DEF RInv, WorkUnderWay
  <2>2. \A r \in stray' : IsAckRequest(r)' \/ IsSubmitRequest(r)'
    BY <2>1, WorkStays
  <2>3. \A q \in Process : runs'[q].step = "submitting" =>
          IsWork(runs[q].submission, WorkerId[q])'
    BY <1>2, <1>3, WorkStays DEF RInv, WorkUnderWay
  <2>4. QED
    BY <2>2, <2>3 DEF WorkUnderWay
<1>8. IdentifiersDiffer'
  <2>1. ASSUME NEW r \in stray', "submission" \in DOMAIN r
        PROVE  r \in stray \/ (runs[p].step = "submitting" /\ r = SubmissionOf(p))
    BY <1>1, <1>6, <2>1
  <2>2. runs[p].step = "submitting" =>
          SubmissionOf(p).submission.receipt.receiptId = IdOf(p)
    BY DEF SubmissionOf, IdOf
  <2>3. ASSUME NEW q \in Process, runs'[q].step = "submitting"
        PROVE  q # p /\ runs[q].step = "submitting" /\ runs'[q] = runs[q]
    BY <1>2, <1>3, <2>3
  <2>4. QED
    BY <1>1, <2>1, <2>2, <2>3 DEF RInv, IdentifiersDiffer, IdOf
<1>9. QED
  BY <1>4, <1>5, <1>7, <1>8 DEF RInv

(* What the store does with a submission it accepts. *)
LEMMA AcceptedSubmission ==
  ASSUME RInv, NEW r, HandleSubmission(r)
  PROVE  LET id == r.submission.receipt.receiptId
         IN  /\ DOMAIN receipts' = DOMAIN receipts \cup {id}
             /\ receipts'[id].workerId = r.actor
             /\ r.submission.assignmentId \in DOMAIN assignments
BY DEF HandleSubmission, SubmissionAccepted, RecordWorkerSubmission, MapSet

LEMMA SubmittedPreserves ==
  ASSUME RInv, IInv', RecordsStay, NEW p \in Process, Submitted(p)
  PROVE  RInv'
<1>0. runs[p] \in Run
  BY DEF RInv, RunsTyped
<1>1. PICK rest : rest = runs[p].batch \ {runs[p].current}
  OBVIOUS
<1>2. PICK id : id = IdOf(p)
  OBVIOUS
<1>3. PICK run : run =
        [step |-> IF rest = {} THEN "idle" ELSE "acknowledging", batch |-> rest,
         current |-> Undefined, submission |-> Undefined,
         reported |-> runs[p].reported \cup {id}]
  OBVIOUS
<1>4. /\ runs[p].step = "submitting"
      /\ HandleSubmission(SubmissionOf(p))
      /\ runs' = [runs EXCEPT ![p] = run]
      /\ UNCHANGED stray
  BY <1>1, <1>2, <1>3 DEF RInv, RunsTyped, Submitted, Finished, IdOf
<1>5. /\ DOMAIN receipts' = DOMAIN receipts \cup {id}
      /\ receipts'[id].workerId = WorkerId[p]
  <2>1. PICK r : r = SubmissionOf(p)
    OBVIOUS
  <2>2. r.submission.receipt.receiptId = id /\ r.actor = WorkerId[p]
    BY <1>2, <2>1 DEF SubmissionOf, IdOf
  <2>3. QED
    BY <1>4, <2>1, <2>2, AcceptedSubmission
<1>6. id \in ReceiptId
  BY <1>2, <1>4 DEF RInv, RunsTyped, RunShapes, Run, Submission, ExecutionReceipt, IdOf
<1>7. /\ run.step = IF rest = {} THEN "idle" ELSE "acknowledging"
      /\ run.batch = rest /\ run.submission = Undefined
      /\ run.reported = runs[p].reported \cup {id}
      /\ run \in Run
  BY <1>0, <1>1, <1>3, <1>6 DEF Run, Step
<1>8. OwnRun(p, run)'
  BY <1>1, <1>5, <1>7, RunsStay DEF OwnRun
<1>9. runs'[p] = run /\ \A q \in Process : q # p => runs'[q] = runs[q]
  BY <1>4 DEF RInv, RunsTyped
<1>10. IdentifiersDiffer'
  <2>1. ASSUME NEW q \in Process, runs'[q].step = "submitting"
        PROVE  q # p /\ runs[q].step = "submitting" /\ runs'[q] = runs[q]
    BY <1>7, <1>9, <2>1
  <2>2. /\ \A q \in Process : runs[q].step = "submitting" /\ q # p => IdOf(q) # id
        /\ \A r \in stray : "submission" \in DOMAIN r => r.submission.receipt.receiptId # id
    BY <1>2, <1>4 DEF RInv, IdentifiersDiffer
  <2>3. QED
    BY <1>4, <1>5, <2>1, <2>2 DEF RInv, IdentifiersDiffer, IdOf
<1>11. QED
  BY <1>4, <1>8, <1>10, OwnRunStep DEF RInv

LEMMA StrayPreserves ==
  ASSUME RInv, IInv', RecordsStay, NEW r \in stray, StrayArrives(r)
  PROVE  RInv'
<1>1. UNCHANGED runs /\ stray' = stray \ {r}
  BY DEF StrayArrives
<1>2. RunsTyped' /\ RunShapes'
  BY <1>1 DEF RInv, RunsTyped, RunShapes
<1>3. BatchesServed' /\ ExecutingAcknowledged' /\ ReportedIsRecorded'
  BY <1>1, RunsStay DEF BatchesServed, ExecutingAcknowledged, ReportedIsRecorded
<1>4. WorkUnderWay'
  BY <1>1, WorkStays DEF RInv, WorkUnderWay
<1>5. \/ receipts' = receipts
      \/ /\ "submission" \in DOMAIN r
         /\ DOMAIN receipts' = DOMAIN receipts \cup {r.submission.receipt.receiptId}
  BY AcceptedSubmission DEF StrayArrives, HandleAck, AcknowledgeAssignment, vars
<1>6. IdentifiersDiffer'
  BY <1>1, <1>5 DEF RInv, IdentifiersDiffer, IdOf
<1>7. QED
  BY <1>2, <1>3, <1>4, <1>6 DEF RInv

LEMMA ClientsPreserve ==
  ASSUME RInv, IInv', RecordsStay, Clients
  PROVE  RInv'
<1>1. UNCHANGED <<receipts, runs, stray>>
  BY ZenonT(40) DEF Clients, CreateTask, CreateBid, CreateAssignment, AcceptAssignment,
     CreateDispute, SubmitReveal
<1>2. QED
  BY <1>1, StoreStepPreserves

LEMMA RuntimeNextPreserves == RInv /\ [RuntimeNext]_runtimeVars => RInv'
<1> SUFFICES ASSUME RInv, [RuntimeNext]_runtimeVars PROVE RInv'
  OBVIOUS
<1>1. [Next]_vars
  BY StoreStep
<1>2. IInv' /\ RecordsStay
  BY <1>1, NextPreserves, StoreKeepsRecords DEF RInv
<1>3. CASE UNCHANGED runtimeVars
  BY <1>2, <1>3, StoreStepPreserves DEF runtimeVars, vars
<1>4. QED
  BY <1>2, <1>3, ClientsPreserve, PollPreserves, AcknowledgedPreserves, ExecutedPreserves,
     SubmittedPreserves, FailedPreserves, StrayPreserves DEF RuntimeNext

LEMMA RuntimeInitHolds == RuntimeInit => RInv
<1> SUFFICES ASSUME RuntimeInit PROVE RInv
  OBVIOUS
<1>1. IInv
  BY InitHolds DEF RuntimeInit
<1>2. \A p \in Process : runs[p] = IdleRun
  BY DEF RuntimeInit
<1>3. /\ IdleRun \in Run /\ IdleRun.step = "idle" /\ IdleRun.batch = {}
      /\ IdleRun.submission = Undefined /\ IdleRun.reported = {}
  BY DEF IdleRun, Run, Step
<1>4. RunsTyped
  BY <1>3 DEF RuntimeInit, RunsTyped
<1>5. QED
  BY <1>1, <1>2, <1>3, <1>4
     DEF RInv, RunShapes, BatchesServed, ExecutingAcknowledged, WorkUnderWay,
         IdentifiersDiffer, ReportedIsRecorded, RuntimeInit

LEMMA RuntimeInductive == RuntimeSpec => []RInv
BY RuntimeInitHolds, RuntimeNextPreserves, PTL DEF RuntimeSpec

-----------------------------------------------------------------------------
(* The processes, whatever they repeat, abandon or deliver late, drive the *)
(* store through its own behaviours only.                                  *)
LEMMA RuntimeImplementsStore == RuntimeSpec => Spec
<1>1. RuntimeInit => Init
  BY DEF RuntimeInit
<1>2. QED
  BY <1>1, StoreStep, RuntimeInductive, PTL DEF RuntimeSpec, Spec

(* So no task leaves the contract's path for a retry, a restart or an      *)
(* answer that came too late.                                              *)
THEOREM RuntimeImplementsEscrow == RuntimeSpec => ImplementsEscrow
BY RuntimeImplementsStore, StoreImplementsEscrow

(* At most once, under every retry: an assignment that was executed again, *)
(* by a restarted run or by a second process, still gets one receipt.      *)
THEOREM DeliveredOnceUnderRetries == RuntimeSpec => []DeliveryHasOneReceipt
BY RuntimeInductive, PTL DEF RInv, IInv

(* A run never reports work the API has not recorded for its worker.       *)
THEOREM ReportsAreTrue == RuntimeSpec => []ReportedIsRecorded
BY RuntimeInductive, PTL DEF RInv

(* The poll's compatibility filter, with the catalog the process has now,  *)
(* is what the registry needs to find a capable adapter.                   *)
THEOREM ModelsAreCapable == RuntimeSpec => []ExecutesWithCapableModel
<1>1. RInv => ExecutesWithCapableModel
  <2> SUFFICES ASSUME RInv, NEW p \in Process, NEW a \in runs[p].batch,
                      assignments[a].execution # Undefined,
                      assignments[a].execution.llm # Undefined
               PROVE  SelectAdapter(assignments[a].execution.llm, Catalog[p].providers)
                        \in Capable(assignments[a].execution.llm, Catalog[p].providers)
    BY DEF ExecutesWithCapableModel
  <2> DEFINE execution == assignments[a].execution
  <2>1. Compatible(execution, Catalog[p])
    BY DEF RInv, BatchesServed
  <2>2. Catalog[p] # Undefined /\ IsCatalog(Catalog[p].providers)
    BY RuntimeAssumption DEF IsCatalog
  <2>3. Serviceable(execution, Catalog[p])
    BY <2>1, <2>2, CompatibilityIsServiceability
  <2>4. Capable(execution.llm, Catalog[p].providers) # {}
    BY <2>3 DEF Serviceable
  <2>5. QED
    BY <2>2, <2>4, SelectAdapterIsCapable
<1>2. QED
  BY <1>1, RuntimeInductive, PTL

(* Work under way is only ever refused because it was delivered meanwhile: *)
(* by the identifiers it carries, its digests and its fresh receipt, the   *)
(* API has no other reason.                                                *)
LEMMA WorkIsAccepted ==
  ASSUME RInv, NEW s, NEW worker, IsWork(s, worker),
         s.receipt.receiptId \notin DOMAIN receipts, s.result \notin Oversized,
         assignments[s.assignmentId].status \in ActiveAssignment,
         NEW r, r.actor = worker, r.submission = s
  PROVE  SubmissionAccepted(r)
<1>1. PICK a \in DOMAIN assignments, id \in ReceiptId, c \in Content :
        /\ s = BuildAssignmentSubmission(a, id, c)
        /\ assignments[a].workerAddress = worker
  BY DEF IsWork
<1>2. PICK receipt : receipt = CreateReceipt(a, id, c)
  OBVIOUS
<1>3. /\ s.assignmentId = a /\ s.workerId = worker /\ s.receipt = receipt /\ s.result = c
      /\ s.receiptHash = CommitReceipt(id, receipt)
  BY <1>1, <1>2 DEF BuildAssignmentSubmission
<1>4. /\ receipt.receiptId = id /\ receipt.assignmentId = a
      /\ receipt.taskId = assignments[a].taskId
      /\ receipt.bidId = assignments[a].bidId
      /\ receipt.workerId = assignments[a].workerAddress
      /\ receipt.resultHash = HashCanonicalJson(c)
  BY <1>2 DEF CreateReceipt
<1>5. Submittable(a)
  BY <1>3 DEF Submittable, ActiveAssignment
<1>6. ReceiptMatches(a, receipt) /\ ReceiptVerifies(receipt, c, s.receiptHash)
  BY <1>3, <1>4 DEF ReceiptMatches, ReceiptVerifies
<1>7. QED
  BY <1>1, <1>3, <1>4, <1>5, <1>6 DEF SubmissionAccepted

THEOREM RefusalsAreDeliveries == RuntimeSpec => []RefusedOnlyIfDelivered
<1>1. RInv => RefusedOnlyIfDelivered
  <2> SUFFICES ASSUME RInv, NEW r \in stray \cup UNION {PendingRequest(p) : p \in Process}
               PROVE  \/ /\ "ack" \in DOMAIN r
                         /\ \/ AckAccepted(r)
                            \/ assignments[r.ack].status \notin ActiveAssignment
                      \/ /\ "submission" \in DOMAIN r
                         /\ \/ SubmissionAccepted(r)
                            \/ r.submission.result \in Oversized
                            \/ assignments[r.submission.assignmentId].status
                                 \notin ActiveAssignment
    BY DEF RefusedOnlyIfDelivered
  <2>1. ASSUME NEW a \in DOMAIN assignments, NEW worker,
               assignments[a].workerAddress = worker, r = [actor |-> worker, ack |-> a]
        PROVE  /\ "ack" \in DOMAIN r
               /\ AckAccepted(r) \/ assignments[r.ack].status \notin ActiveAssignment
    BY <2>1 DEF AckAccepted, Acknowledgeable, ActiveAssignment
  <2>2. ASSUME NEW s, NEW worker, IsWork(s, worker), s.receipt.receiptId \notin DOMAIN receipts,
               r = [actor |-> worker, submission |-> s]
        PROVE  /\ "submission" \in DOMAIN r
               /\ \/ SubmissionAccepted(r)
                  \/ r.submission.result \in Oversized
                  \/ assignments[r.submission.assignmentId].status \notin ActiveAssignment
    BY <2>2, WorkIsAccepted
  <2>3. CASE r \in stray /\ IsAckRequest(r)
    BY <2>1, <2>3 DEF IsAckRequest
  <2>4. CASE r \in stray /\ IsSubmitRequest(r)
    <3>1. "submission" \in DOMAIN r /\ r.submission.receipt.receiptId \notin DOMAIN receipts
      BY <2>4 DEF RInv, IdentifiersDiffer, IsSubmitRequest
    <3>2. QED
      BY <2>2, <2>4, <3>1 DEF IsSubmitRequest
  <2>5. ASSUME NEW p \in Process, r \in PendingRequest(p), runs[p].step = "acknowledging"
        PROVE  /\ "ack" \in DOMAIN r
               /\ AckAccepted(r) \/ assignments[r.ack].status \notin ActiveAssignment
    <3>1. PICK a \in runs[p].batch : r = AckOf(p, a)
      BY <2>5 DEF PendingRequest
    <3>2. QED
      BY <3>1, <2>1 DEF AckOf, RInv, BatchesServed
  <2>6. ASSUME NEW p \in Process, r \in PendingRequest(p), runs[p].step = "submitting"
        PROVE  /\ "submission" \in DOMAIN r
               /\ \/ SubmissionAccepted(r)
                  \/ r.submission.result \in Oversized
                  \/ assignments[r.submission.assignmentId].status \notin ActiveAssignment
    <3>1. r = SubmissionOf(p)
      BY <2>6 DEF PendingRequest
    <3>2. /\ IsWork(runs[p].submission, WorkerId[p])
          /\ runs[p].submission.receipt.receiptId \notin DOMAIN receipts
      BY <2>6 DEF RInv, WorkUnderWay, IdentifiersDiffer, IdOf
    <3>3. QED
      BY <3>1, <3>2, <2>2 DEF SubmissionOf
  <2>7. ASSUME NEW p \in Process, r \in PendingRequest(p)
        PROVE  runs[p].step \in {"acknowledging", "submitting"}
    BY <2>7 DEF PendingRequest
  <2>8. QED
    BY <2>3, <2>4, <2>5, <2>6, <2>7 DEF RInv, WorkUnderWay
<1>2. QED
  BY <1>1, RuntimeInductive, PTL

-----------------------------------------------------------------------------
(* A queued assignment is not touched by any store step but its            *)
(* acknowledgement and its delivery, and every delivery a process has sent *)
(* is of an assignment that was acknowledged before.                       *)
LEMMA HandledSubmissionWasAcknowledged ==
  ASSUME RInv, NEW r, IsWork(r.submission, r.actor), HandleSubmission(r)
  PROVE  \A a \in DOMAIN assignments :
           assignments[a].status = "queued" => assignments'[a].status = "queued"
<1>1. PICK b \in DOMAIN assignments :
        r.submission.assignmentId = b /\ assignments[b].status # "queued"
  BY DEF IsWork, BuildAssignmentSubmission
<1>2. assignments' = [assignments EXCEPT ![b].status = "submitted"]
  BY <1>1 DEF HandleSubmission, RecordWorkerSubmission
<1>3. assignments \in [DOMAIN assignments -> AssignmentRecord]
  BY DEF RInv, IInv, TypeOK, MapOf
<1>4. QED
  BY <1>1, <1>2, <1>3

LEMMA HandledAckAcknowledges ==
  ASSUME RInv, NEW r, HandleAck(r)
  PROVE  \A a \in DOMAIN assignments :
           assignments[a].status = "queued" => assignments'[a].status \in {"queued", "accepted"}
<1>1. assignments \in [DOMAIN assignments -> AssignmentRecord]
  BY DEF RInv, IInv, TypeOK, MapOf
<1>2. QED
  BY <1>1 DEF HandleAck, AcknowledgeAssignment, AssignmentRecord

LEMMA ClientsLeaveQueued ==
  ASSUME RInv, Clients
  PROVE  \A a \in DOMAIN assignments :
           assignments[a].status = "queued" => assignments'[a].status = "queued"
<1>1. assignments \in [DOMAIN assignments -> AssignmentRecord]
  BY DEF RInv, IInv, TypeOK, MapOf
<1>2. ASSUME NEW a \in AssignmentId, NEW t \in TaskId, NEW b \in BidId,
             NEW w \in Party, NEW e \in Party, CreateAssignment(a, t, b, w, e)
      PROVE  \A x \in DOMAIN assignments : assignments'[x] = assignments[x]
  BY <1>2 DEF CreateAssignment, MapSet
<1>3. ASSUME NEW t \in TaskId, NEW a \in AssignmentId, AcceptAssignment(t, a)
      PROVE  \A x \in DOMAIN assignments :
               assignments[x].status = "queued" => assignments'[x].status = "queued"
  BY <1>1, <1>3 DEF AcceptAssignment, Settleable
<1>4. \/ UNCHANGED assignments
      \/ \E a \in AssignmentId, t \in TaskId, b \in BidId, w \in Party, e \in Party :
           CreateAssignment(a, t, b, w, e)
      \/ \E t \in TaskId, a \in AssignmentId : AcceptAssignment(t, a)
  BY DEF Clients, CreateTask, CreateBid, CreateDispute, SubmitReveal
<1>5. QED
  BY <1>2, <1>3, <1>4

(* While deliveries come from worker processes, none is unacknowledged, by *)
(* no interleaving of failures, restarts and late requests.                *)
THEOREM AcknowledgedBeforeDelivery == RuntimeSpec => DeliveredAfterAcknowledgement
<1> DEFINE StaysActive == \A a \in DOMAIN assignments :
                     assignments[a].status = "queued" =>
                       assignments'[a].status \in {"queued", "accepted", "in_progress"}
<1>1. RInv /\ [RuntimeNext]_runtimeVars => [StaysActive]_runtimeVars
  <2> SUFFICES ASSUME RInv, RuntimeNext PROVE StaysActive
    OBVIOUS
  <2>1. CASE Clients
    BY <2>1, ClientsLeaveQueued
  <2>2. CASE UNCHANGED assignments
    BY <2>2
  <2>3. ASSUME NEW p \in Process, NEW a \in AssignmentId, Acknowledged(p, a)
        PROVE  StaysActive
    <3>1. PICK r : r = AckOf(p, a)
      OBVIOUS
    <3>2. QED
      BY <2>3, <3>1, HandledAckAcknowledges DEF Acknowledged
  <2>4. ASSUME NEW p \in Process, Submitted(p)
        PROVE  StaysActive
    <3>1. PICK r : r = SubmissionOf(p)
      OBVIOUS
    <3>2. IsWork(r.submission, r.actor) /\ HandleSubmission(r)
      BY <2>4, <3>1 DEF Submitted, SubmissionOf, RInv, WorkUnderWay
    <3>3. QED
      BY <3>2, HandledSubmissionWasAcknowledged
  <2>5. ASSUME NEW r \in stray, StrayArrives(r)
        PROVE  StaysActive
    <3>1. CASE "ack" \in DOMAIN r /\ HandleAck(r)
      BY <3>1, HandledAckAcknowledges
    <3>2. CASE "submission" \in DOMAIN r /\ HandleSubmission(r)
      <4>1. IsWork(r.submission, r.actor)
        BY <2>5, <3>2 DEF RInv, WorkUnderWay, IsAckRequest, IsSubmitRequest
      <4>2. QED
        BY <3>2, <4>1, HandledSubmissionWasAcknowledged
    <3>3. QED
      BY <2>2, <2>5, <3>1, <3>2 DEF StrayArrives, vars
  <2>6. ASSUME NEW p \in Process,
               Poll(p) \/ Refused(p) \/ Failed(p)
                 \/ \E id \in ReceiptId, c \in Content : Executed(p, id, c)
        PROVE  UNCHANGED assignments
    BY <2>6 DEF Poll, Refused, Failed, Executed, vars
  <2>7. QED
    BY <2>1, <2>2, <2>3, <2>4, <2>5, <2>6 DEF RuntimeNext
<1>2. QED
  BY <1>1, RuntimeInductive, PTL DEF RuntimeSpec, DeliveredAfterAcknowledgement

-----------------------------------------------------------------------------
(* The list of assignments only ever gets longer. *)
ListingTyped == listing \in Seq(AssignmentId) /\ tied \in 0..Len(listing)

LEMMA ListedTyped ==
  ASSUME ListingTyped, NEW a \in AssignmentId, Listed(a)
  PROVE  ListingTyped'
<1>0. listing \in Seq(AssignmentId) /\ tied \in 0..Len(listing) /\ Len(listing) \in Nat
  BY DEF ListingTyped
<1>1. CASE listing' = <<a>> \o listing /\ tied' = 1
  <2>1. listing' \in Seq(AssignmentId) /\ Len(listing') = 1 + Len(listing)
    BY <1>0, <1>1
  <2>2. QED
    BY <1>0, <1>1, <2>1 DEF ListingTyped
<1>2. CASE /\ tied > 0
           /\ listing' = SubSeq(listing, 1, tied) \o <<a>>
                            \o SubSeq(listing, tied + 1, Len(listing))
           /\ tied' = tied + 1
  <2>0. \A i \in 1..Len(listing) : listing[i] \in AssignmentId
    BY <1>0, ElementOfSeq
  <2>1. SubSeq(listing, 1, tied) \in Seq(AssignmentId) /\ Len(SubSeq(listing, 1, tied)) = tied
    <3>1. tied \in Int /\ 1 <= tied /\ \A i \in 1..tied : listing[i] \in AssignmentId
      BY <1>0, <1>2, <2>0
    <3>2. QED
      BY <3>1, SubSeqProperties
  <2>2. /\ SubSeq(listing, tied + 1, Len(listing)) \in Seq(AssignmentId)
        /\ Len(SubSeq(listing, tied + 1, Len(listing))) = Len(listing) - tied
    <3>1. /\ tied + 1 \in Int /\ Len(listing) \in Int /\ tied <= Len(listing)
          /\ \A i \in (tied + 1)..Len(listing) : listing[i] \in AssignmentId
      BY <1>0, <1>2, <2>0
    <3> DEFINE m == tied + 1
               n == Len(listing)
               s == SubSeq(listing, m, n)
    <3>2. s \in Seq(AssignmentId) /\ Len(s) = IF m <= n THEN n - m + 1 ELSE 0
      <4>1. m \in Int /\ n \in Int /\ \A i \in m..n : listing[i] \in AssignmentId
        BY <3>1
      <4> HIDE DEF m, n
      <4>2. QED
        BY <4>1, SubSeqProperties
    <3>3. (IF m <= n THEN n - m + 1 ELSE 0) = Len(listing) - tied
      BY <1>0, <3>1
    <3>4. QED
      BY <3>2, <3>3
  <2>3. listing' \in Seq(AssignmentId) /\ Len(listing') = 1 + Len(listing)
    <3>1. ASSUME NEW u \in Seq(AssignmentId), NEW v \in Seq(AssignmentId)
          PROVE  /\ u \o <<a>> \o v \in Seq(AssignmentId)
                 /\ Len(u \o <<a>> \o v) = Len(u) + 1 + Len(v)
      OBVIOUS
    <3>2. Len(listing') = tied + 1 + (Len(listing) - tied)
      BY <1>2, <2>1, <2>2, <3>1
    <3>3. listing' \in Seq(AssignmentId)
      BY <1>2, <2>1, <2>2, <3>1
    <3>4. QED
      BY <1>0, <3>2, <3>3
  <2>4. tied' = tied + 1 /\ tied \in Nat /\ tied <= Len(listing)
    BY <1>0, <1>2
  <2>5. tied' \in 0..Len(listing')
    BY <1>0, <2>3, <2>4
  <2>6. QED
    BY <2>3, <2>5 DEF ListingTyped
<1>3. QED
  BY <1>1, <1>2 DEF Listed

(* Every run, its batch, its submission and every stray request are whole. *)
THEOREM RuntimeTypeCorrect == RuntimeSpec => []RuntimeTypeOK
<1>1. RuntimeInit => ListingTyped
  <2> SUFFICES ASSUME RuntimeInit PROVE ListingTyped
    OBVIOUS
  <2>1. CASE SeedInitialData
    <3>1. "assignment-two" \in AssignmentId /\ "assignment-three" \in AssignmentId
      BY <2>1, SeedAssumption DEF SeedAssignmentIds
    <3>2. QED
      BY <2>1, <3>1 DEF RuntimeInit, ListingTyped
  <2>2. CASE ~SeedInitialData
    BY <2>2 DEF RuntimeInit, ListingTyped
  <2>3. QED
    BY <2>1, <2>2
<1>2. ListingTyped /\ [RuntimeNext]_runtimeVars => ListingTyped'
  <2> SUFFICES ASSUME ListingTyped, [RuntimeNext]_runtimeVars PROVE ListingTyped'
    OBVIOUS
  <2>1. UNCHANGED <<listing, tied>> \/ \E a \in AssignmentId : Listed(a)
    BY DEF RuntimeNext, Clients, Poll, Acknowledged, Executed, Submitted, Refused, Failed,
           StrayArrives, runtimeVars
  <2>2. QED
    BY <2>1, ListedTyped DEF ListingTyped
<1>3. RInv /\ ListingTyped => RuntimeTypeOK
  <2> SUFFICES ASSUME RInv, ListingTyped PROVE RuntimeTypeOK
    OBVIOUS
  <2>1. ASSUME NEW r \in stray PROVE r \in AckRequest \cup SubmitRequest
    <3>1. ASSUME IsAckRequest(r) PROVE r \in AckRequest
      <4>1. PICK a \in DOMAIN assignments :
              r = [actor |-> assignments[a].workerAddress, ack |-> a]
        BY <3>1 DEF IsAckRequest
      <4>2. a \in AssignmentId /\ assignments[a].workerAddress \in Party
        BY DEF RInv, IInv, TypeOK, MapOf, AssignmentRecord
      <4>3. QED
        BY <4>1, <4>2 DEF AckRequest
    <3>2. ASSUME IsSubmitRequest(r) PROVE r \in SubmitRequest
      BY <3>2 DEF IsSubmitRequest, SubmitRequest
    <3>3. QED
      BY <3>1, <3>2 DEF RInv, WorkUnderWay
  <2>2. QED
    BY <2>1 DEF RInv, IInv, RunsTyped, RunShapes, ListingTyped, RuntimeTypeOK
<1>4. QED
  BY <1>1, <1>2, <1>3, RuntimeInductive, PTL DEF RuntimeSpec

=============================================================================
