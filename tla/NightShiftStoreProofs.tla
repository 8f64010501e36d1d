----------------------- MODULE NightShiftStoreProofs -----------------------
(***************************************************************************)
(* The invariants of NightShiftStore for every set of identifiers, parties,*)
(* policies and offers, with and without the seeded records.               *)
(*                                                                         *)
(* IInv is the conjunction of the type invariant and of the six relations  *)
(* between the Maps: none of them is inductive without the others.  One    *)
(* lemma per method of the store shows that it preserves IInv.             *)
(*                                                                         *)
(* The second part: every task of the store implements the contract's      *)
(* escrow.  The third: what the views of a task show (TaskViews).          *)
(***************************************************************************)
EXTENDS NightShiftStore, TaskViews, ExecutionCompatibilityProofs

IInv ==
  /\ TypeOK
  /\ ReferencesResolve
  /\ OneAssignmentPerTask
  /\ LifecyclesAgree
  /\ SelectedBidIsAssigned
  /\ DeliveryHasOneReceipt
  /\ DisputeFreezesSettlement

-----------------------------------------------------------------------------
(* Map.set keeps a Map of its type.                                        *)
LEMMA MapSetTyped ==
  ASSUME NEW Key, NEW Value, NEW map, MapOf(map, Key, Value),
         NEW key \in Key, NEW value \in Value
  PROVE  MapOf(MapSet(map, key, value), Key, Value)
BY DEF MapSet, MapOf

-----------------------------------------------------------------------------
LEMMA CreateTaskPreserves ==
  ASSUME IInv, NEW t \in TaskId, NEW p \in Party, NEW c \in Commitment,
         NEW e \in Execution \cup {Undefined}, CreateTask(t, p, c, e)
  PROVE  IInv'
<1> DEFINE task == [employerAddress |-> p, taskCommitment |-> c,
                    execution |-> e, status |-> "open"]
<1>1. task \in TaskRecord
  BY DEF TaskRecord, TaskStatus
<1>2. /\ t \notin DOMAIN tasks
      /\ tasks' = MapSet(tasks, t, task)
      /\ UNCHANGED <<bids, assignments, receipts, disputes>>
  BY DEF CreateTask
<1>3. /\ DOMAIN tasks' = DOMAIN tasks \cup {t}
      /\ tasks'[t] = task
      /\ \A x \in DOMAIN tasks : x # t => tasks'[x] = tasks[x]
  BY <1>2 DEF MapSet
<1> HIDE DEF task
<1>4. tasks'[t].status = "open"
  BY <1>3 DEF task
<1>5. TypeOK'
  BY <1>1, <1>2, MapSetTyped DEF IInv, TypeOK
<1>6. \A a \in DOMAIN assignments : assignments[a].taskId # t
  BY <1>2 DEF IInv, ReferencesResolve
<1>7. \A d \in DOMAIN disputes : disputes[d].taskId # t
  BY <1>6 DEF IInv, ReferencesResolve
<1>8. ReferencesResolve'
  BY <1>2, <1>3 DEF IInv, ReferencesResolve
<1>9. OneAssignmentPerTask'
  BY <1>2, <1>3, <1>4, <1>6 DEF IInv, OneAssignmentPerTask
<1>10. LifecyclesAgree'
  BY <1>2, <1>3, <1>6 DEF IInv, LifecyclesAgree, ReferencesResolve
<1>11. SelectedBidIsAssigned'
  BY <1>2, <1>3, <1>6 DEF IInv, SelectedBidIsAssigned, ReferencesResolve
<1>12. DeliveryHasOneReceipt'
  BY <1>2 DEF IInv, DeliveryHasOneReceipt
<1>13. DisputeFreezesSettlement'
  BY <1>2, <1>3, <1>4, <1>7 DEF IInv, DisputeFreezesSettlement, IsParty
<1>14. QED
  BY <1>5, <1>8, <1>9, <1>10, <1>11, <1>12, <1>13 DEF IInv

LEMMA CreateBidPreserves ==
  ASSUME IInv, NEW b \in BidId, NEW t \in TaskId, NEW p \in Party, NEW c \in Commitment,
         NEW o \in Offer \cup {Undefined}, CreateBid(b, t, p, c, o)
  PROVE  IInv'
<1> DEFINE bid == [taskId |-> t, workerAddress |-> p, bidCommitment |-> c,
                   executionOffer |-> o, status |-> "sealed"]
<1>1. bid \in BidRecord
  BY DEF BidRecord, BidStatus
<1>2. /\ b \notin DOMAIN bids
      /\ t \in DOMAIN tasks
      /\ bids' = MapSet(bids, b, bid)
      /\ UNCHANGED <<tasks, assignments, receipts, disputes>>
  BY DEF CreateBid, Biddable
<1>3. /\ DOMAIN bids' = DOMAIN bids \cup {b}
      /\ bids'[b] = bid
      /\ \A x \in DOMAIN bids : x # b => bids'[x] = bids[x]
  BY <1>2 DEF MapSet
<1>4. bid.status = "sealed" /\ bid.taskId = t
  OBVIOUS
<1> HIDE DEF bid
<1>5. TypeOK'
  BY <1>1, <1>2, MapSetTyped DEF IInv, TypeOK
<1>6. \A a \in DOMAIN assignments : assignments[a].bidId # b
  BY <1>2 DEF IInv, ReferencesResolve
<1>7. ReferencesResolve'
  BY <1>2, <1>3, <1>4 DEF IInv, ReferencesResolve
<1>8. OneAssignmentPerTask'
  BY <1>2 DEF IInv, OneAssignmentPerTask
<1>9. LifecyclesAgree'
  BY <1>2 DEF IInv, LifecyclesAgree
<1>10. SelectedBidIsAssigned'
  BY <1>2, <1>3, <1>4, <1>6 DEF IInv, SelectedBidIsAssigned, ReferencesResolve
<1>11. DeliveryHasOneReceipt'
  BY <1>2 DEF IInv, DeliveryHasOneReceipt
<1>12. DisputeFreezesSettlement'
  BY <1>2 DEF IInv, DisputeFreezesSettlement, IsParty
<1>13. QED
  BY <1>5, <1>7, <1>8, <1>9, <1>10, <1>11, <1>12 DEF IInv

LEMMA CreateAssignmentPreserves ==
  ASSUME IInv, NEW a \in AssignmentId, NEW t \in TaskId, NEW b \in BidId,
         NEW w \in Party, NEW e \in Party, CreateAssignment(a, t, b, w, e)
  PROVE  IInv'
<1> DEFINE assignment ==
             [taskId |-> t, bidId |-> b, workerAddress |-> w, employerAddress |-> e,
              taskCommitment |-> tasks[t].taskCommitment,
              bidCommitment |-> bids[b].bidCommitment,
              execution |-> tasks[t].execution, status |-> "queued"]
<1>1. /\ a \notin DOMAIN assignments
      /\ t \in DOMAIN tasks /\ tasks[t].status = "open" /\ tasks[t].employerAddress = e
      /\ b \in DOMAIN bids /\ bids[b].taskId = t /\ bids[b].workerAddress = w
      /\ tasks' = [tasks EXCEPT ![t].status = "assigned"]
      /\ bids' = [bids EXCEPT ![b].status = "selected"]
      /\ assignments' = MapSet(assignments, a, assignment)
      /\ UNCHANGED <<receipts, disputes>>
  BY DEF CreateAssignment, Selectable
<1>2. /\ tasks \in [DOMAIN tasks -> TaskRecord]
      /\ bids \in [DOMAIN bids -> BidRecord]
  BY DEF IInv, TypeOK, MapOf
<1>3. /\ DOMAIN tasks' = DOMAIN tasks
      /\ tasks'[t] = [tasks[t] EXCEPT !.status = "assigned"]
      /\ \A x \in DOMAIN tasks : x # t => tasks'[x] = tasks[x]
  BY <1>1
<1>4. /\ tasks'[t].status = "assigned"
      /\ tasks'[t].employerAddress = e
      /\ tasks'[t].taskCommitment = tasks[t].taskCommitment
      /\ tasks'[t].execution = tasks[t].execution
      /\ tasks'[t] \in TaskRecord
  BY <1>1, <1>2, <1>3 DEF TaskRecord, TaskStatus
<1>5. /\ DOMAIN bids' = DOMAIN bids
      /\ bids'[b] = [bids[b] EXCEPT !.status = "selected"]
      /\ \A x \in DOMAIN bids : x # b => bids'[x] = bids[x]
  BY <1>1
<1>6. /\ bids'[b].status = "selected"
      /\ bids'[b].taskId = t
      /\ bids'[b].workerAddress = w
      /\ bids'[b].bidCommitment = bids[b].bidCommitment
      /\ bids'[b] \in BidRecord
  BY <1>1, <1>2, <1>5 DEF BidRecord, BidStatus
<1>7. /\ DOMAIN assignments' = DOMAIN assignments \cup {a}
      /\ assignments'[a] = assignment
      /\ \A x \in DOMAIN assignments : x # a => assignments'[x] = assignments[x]
  BY <1>1 DEF MapSet
<1>8. /\ assignment \in AssignmentRecord
      /\ assignment.taskId = t /\ assignment.bidId = b
      /\ assignment.workerAddress = w /\ assignment.employerAddress = e
      /\ assignment.taskCommitment = tasks[t].taskCommitment
      /\ assignment.bidCommitment = bids[b].bidCommitment
      /\ assignment.execution = tasks[t].execution
      /\ assignment.status = "queued"
  BY <1>1, <1>2 DEF AssignmentRecord, AssignmentStatus, TaskRecord, BidRecord
<1> HIDE DEF assignment
<1>9. TypeOK'
  <2>1. MapOf(tasks, TaskId, TaskRecord)' /\ MapOf(bids, BidId, BidRecord)'
    BY <1>1, <1>2, <1>3, <1>4, <1>5, <1>6 DEF IInv, TypeOK, MapOf
  <2>2. MapOf(assignments, AssignmentId, AssignmentRecord)'
    BY <1>1, <1>8, MapSetTyped DEF IInv, TypeOK
  <2>3. QED
    BY <1>1, <2>1, <2>2 DEF IInv, TypeOK
<1>10. \A x \in DOMAIN assignments : assignments[x].taskId # t
  BY <1>1 DEF IInv, OneAssignmentPerTask
<1>11. \A x \in DOMAIN assignments : assignments[x].bidId # b
  BY <1>1, <1>10 DEF IInv, SelectedBidIsAssigned
<1>12. \A r \in DOMAIN receipts : receipts[r].assignmentId # a
  BY <1>1 DEF IInv, ReferencesResolve
<1>13. \A d \in DOMAIN disputes : disputes[d].assignmentId # a /\ disputes[d].taskId # t
  BY <1>1, <1>10 DEF IInv, ReferencesResolve
<1>14. ReferencesResolve'
  BY <1>1, <1>3, <1>5, <1>6, <1>7, <1>8, <1>12, <1>13 DEF IInv, ReferencesResolve
<1>15. OneAssignmentPerTask'
  BY <1>1, <1>3, <1>4, <1>7, <1>8, <1>10 DEF IInv, OneAssignmentPerTask
<1>16. LifecyclesAgree'
  BY <1>1, <1>3, <1>4, <1>7, <1>8, <1>10
     DEF IInv, LifecyclesAgree, ReferencesResolve, ActiveAssignment
<1>17. SelectedBidIsAssigned'
  <2>1. \A x \in DOMAIN bids' :
          bids'[x].status = "selected" <=> \E y \in DOMAIN assignments' : assignments'[y].bidId = x
    BY <1>1, <1>5, <1>6, <1>7, <1>8, <1>11 DEF IInv, SelectedBidIsAssigned
  <2>2. \A x \in DOMAIN bids :
          /\ bids'[x].taskId = bids[x].taskId
          /\ bids'[x].workerAddress = bids[x].workerAddress
          /\ bids'[x].bidCommitment = bids[x].bidCommitment
    BY <1>1, <1>5, <1>6
  <2>3. \A x \in DOMAIN tasks :
          /\ tasks'[x].employerAddress = tasks[x].employerAddress
          /\ tasks'[x].taskCommitment = tasks[x].taskCommitment
          /\ tasks'[x].execution = tasks[x].execution
    BY <1>1, <1>3, <1>4
  <2>4. QED
    BY <1>1, <1>7, <1>8, <2>1, <2>2, <2>3
       DEF IInv, SelectedBidIsAssigned, ReferencesResolve
<1>18. DeliveryHasOneReceipt'
  BY <1>1, <1>7, <1>8, <1>12 DEF IInv, DeliveryHasOneReceipt, ReferencesResolve
<1>19. DisputeFreezesSettlement'
  BY <1>1, <1>3, <1>4, <1>7, <1>13
     DEF IInv, DisputeFreezesSettlement, ReferencesResolve, IsParty
<1>20. QED
  BY <1>9, <1>14, <1>15, <1>16, <1>17, <1>18, <1>19 DEF IInv

LEMMA AcknowledgeAssignmentPreserves ==
  ASSUME IInv, NEW a \in AssignmentId, AcknowledgeAssignment(a)
  PROVE  IInv'
<1>1. /\ a \in DOMAIN assignments
      /\ assignments[a].status \notin {"cancelled", "completed", "submitted"}
      /\ UNCHANGED <<tasks, bids, receipts, disputes>>
  BY DEF AcknowledgeAssignment, Acknowledgeable
<1>2. assignments \in [DOMAIN assignments -> AssignmentRecord]
  BY DEF IInv, TypeOK, MapOf
<1>3. assignments[a].status \in ActiveAssignment
  BY <1>1, <1>2 DEF AssignmentRecord, AssignmentStatus, ActiveAssignment
<1>4. /\ DOMAIN assignments' = DOMAIN assignments
      /\ \A x \in DOMAIN assignments : x # a => assignments'[x] = assignments[x]
  BY <1>1, <1>2 DEF AcknowledgeAssignment
<1>5. /\ assignments'[a] \in AssignmentRecord
      /\ assignments'[a].status \in ActiveAssignment
      /\ assignments'[a].taskId = assignments[a].taskId
      /\ assignments'[a].bidId = assignments[a].bidId
      /\ assignments'[a].workerAddress = assignments[a].workerAddress
      /\ assignments'[a].employerAddress = assignments[a].employerAddress
      /\ assignments'[a].taskCommitment = assignments[a].taskCommitment
      /\ assignments'[a].bidCommitment = assignments[a].bidCommitment
      /\ assignments'[a].execution = assignments[a].execution
  <2>1. PICK status \in {"in_progress", "accepted"} :
             assignments'[a] = [assignments[a] EXCEPT !.status = status]
    BY <1>1, <1>2 DEF AcknowledgeAssignment
  <2>2. QED
    BY <1>1, <1>2, <2>1 DEF AssignmentRecord, AssignmentStatus, ActiveAssignment
<1>6. TypeOK'
  <2>1. assignments' = [x \in DOMAIN assignments |-> assignments'[x]]
    BY <1>2, <1>4 DEF AcknowledgeAssignment
  <2>2. MapOf(assignments, AssignmentId, AssignmentRecord)'
    BY <1>1, <1>2, <1>4, <1>5, <2>1 DEF IInv, TypeOK, MapOf
  <2>3. QED
    BY <1>1, <2>2 DEF IInv, TypeOK
<1>7. ReferencesResolve'
  BY <1>1, <1>4, <1>5 DEF IInv, ReferencesResolve
<1>8. OneAssignmentPerTask'
  BY <1>1, <1>4, <1>5 DEF IInv, OneAssignmentPerTask
<1>9. LifecyclesAgree'
  BY <1>1, <1>3, <1>4, <1>5 DEF IInv, LifecyclesAgree, ActiveAssignment
<1>10. SelectedBidIsAssigned'
  BY <1>1, <1>4, <1>5 DEF IInv, SelectedBidIsAssigned
<1>11. DeliveryHasOneReceipt'
  BY <1>1, <1>3, <1>4, <1>5 DEF IInv, DeliveryHasOneReceipt, ReferencesResolve, ActiveAssignment
<1>12. DisputeFreezesSettlement'
  BY <1>1, <1>3, <1>4, <1>5
     DEF IInv, DisputeFreezesSettlement, ReferencesResolve, IsParty, ActiveAssignment
<1>13. QED
  BY <1>6, <1>7, <1>8, <1>9, <1>10, <1>11, <1>12 DEF IInv

(* The assignment a submission is recorded against is still in work, so its*)
(* task is "assigned": overwriting the task's status loses no dispute and  *)
(* no settlement.                                                          *)
LEMMA SubmissionComesFromAssigned ==
  ASSUME IInv, NEW a \in DOMAIN assignments,
         assignments[a].status \notin {"submitted", "completed", "cancelled"}
  PROVE  /\ assignments[a].status \in ActiveAssignment
         /\ assignments[a].taskId \in DOMAIN tasks
         /\ tasks[assignments[a].taskId].status = "assigned"
         /\ \A r \in DOMAIN receipts : receipts[r].assignmentId # a
         /\ \A d \in DOMAIN disputes :
              disputes[d].assignmentId # a /\ disputes[d].taskId # assignments[a].taskId
<1>1. assignments[a] \in AssignmentRecord
  BY DEF IInv, TypeOK, MapOf
<1>2. assignments[a].status \in ActiveAssignment
  BY <1>1 DEF AssignmentRecord, AssignmentStatus, ActiveAssignment
<1>3. /\ assignments[a].taskId \in DOMAIN tasks
      /\ tasks[assignments[a].taskId].status = "assigned"
  BY <1>2 DEF IInv, ReferencesResolve, LifecyclesAgree
<1>4. \A r \in DOMAIN receipts : receipts[r].assignmentId # a
  BY <1>2 DEF IInv, DeliveryHasOneReceipt, ReferencesResolve, ActiveAssignment
<1>5. \A d \in DOMAIN disputes :
        disputes[d].assignmentId # a /\ disputes[d].taskId # assignments[a].taskId
  BY <1>2, <1>3 DEF IInv, DisputeFreezesSettlement, ActiveAssignment
<1>6. QED
  BY <1>2, <1>3, <1>4, <1>5

LEMMA RecordWorkerSubmissionPreserves ==
  ASSUME IInv, NEW a \in AssignmentId, NEW w \in Party, NEW receipt \in ExecutionReceipt,
         NEW c \in Content, NEW h, RecordWorkerSubmission(a, w, receipt, c, h)
  PROVE  IInv'
<1> DEFINE t == assignments[a].taskId
<1> DEFINE id == receipt.receiptId
<1> DEFINE record == [taskId |-> t, assignmentId |-> a, workerId |-> w,
                      status |-> "submitted", resultHash |-> receipt.resultHash,
                      receiptCommitment |-> h]
<1>1. /\ a \in DOMAIN assignments
      /\ assignments[a].status \notin {"submitted", "completed", "cancelled"}
      /\ assignments[a].workerAddress = w
      /\ receipt.taskId = t
      /\ id \notin DOMAIN receipts
      /\ h = CommitReceipt(id, receipt)
      /\ receipts' = MapSet(receipts, id, record)
      /\ assignments' = [assignments EXCEPT ![a].status = "submitted"]
      /\ UNCHANGED <<bids, disputes>>
  BY DEF RecordWorkerSubmission, Submittable, ReceiptMatches, ReceiptVerifies
<1>2. /\ assignments[a].status \in ActiveAssignment
      /\ t \in DOMAIN tasks
      /\ tasks[t].status = "assigned"
      /\ \A r \in DOMAIN receipts : receipts[r].assignmentId # a
      /\ \A d \in DOMAIN disputes : disputes[d].assignmentId # a /\ disputes[d].taskId # t
  BY <1>1, SubmissionComesFromAssigned
<1>3. tasks' = [tasks EXCEPT ![t].status = "submitted"]
  BY <1>1, <1>2 DEF RecordWorkerSubmission
<1>4. /\ tasks \in [DOMAIN tasks -> TaskRecord]
      /\ assignments \in [DOMAIN assignments -> AssignmentRecord]
  BY DEF IInv, TypeOK, MapOf
<1>5. /\ DOMAIN tasks' = DOMAIN tasks
      /\ tasks'[t] = [tasks[t] EXCEPT !.status = "submitted"]
      /\ \A x \in DOMAIN tasks : x # t => tasks'[x] = tasks[x]
  BY <1>3, <1>2
<1>6. /\ tasks'[t].status = "submitted"
      /\ tasks'[t].employerAddress = tasks[t].employerAddress
      /\ tasks'[t].taskCommitment = tasks[t].taskCommitment
      /\ tasks'[t].execution = tasks[t].execution
      /\ tasks'[t] \in TaskRecord
  BY <1>2, <1>4, <1>5 DEF TaskRecord, TaskStatus
<1>7. /\ DOMAIN assignments' = DOMAIN assignments
      /\ assignments'[a] = [assignments[a] EXCEPT !.status = "submitted"]
      /\ \A x \in DOMAIN assignments : x # a => assignments'[x] = assignments[x]
  BY <1>1
<1>8. /\ assignments'[a].status = "submitted"
      /\ assignments'[a].taskId = t
      /\ assignments'[a].bidId = assignments[a].bidId
      /\ assignments'[a].workerAddress = w
      /\ assignments'[a].employerAddress = assignments[a].employerAddress
      /\ assignments'[a].taskCommitment = assignments[a].taskCommitment
      /\ assignments'[a].bidCommitment = assignments[a].bidCommitment
      /\ assignments'[a].execution = assignments[a].execution
      /\ assignments'[a] \in AssignmentRecord
  BY <1>1, <1>4, <1>7 DEF AssignmentRecord, AssignmentStatus
<1>9. /\ DOMAIN receipts' = DOMAIN receipts \cup {id}
      /\ receipts'[id] = record
      /\ \A x \in DOMAIN receipts : x # id => receipts'[x] = receipts[x]
  BY <1>1 DEF MapSet
<1>10. /\ record \in ReceiptRecord
       /\ record.taskId = t /\ record.assignmentId = a /\ record.workerId = w
       /\ id \in ReceiptId
  <2>1. h \in ReceiptHash
    BY <1>1 DEF ReceiptHash
  <2>2. t \in TaskId
    BY <1>1, <1>4 DEF AssignmentRecord
  <2>3. receipt.resultHash \in ResultHash /\ id \in ReceiptId
    BY DEF ExecutionReceipt
  <2>4. QED
    BY <2>1, <2>2, <2>3 DEF ReceiptRecord, ReceiptStatus
<1> HIDE DEF record, id, t
<1>11. TypeOK'
  <2>1. MapOf(tasks, TaskId, TaskRecord)'
    BY <1>3, <1>4, <1>5, <1>6 DEF IInv, TypeOK, MapOf
  <2>2. MapOf(assignments, AssignmentId, AssignmentRecord)'
    BY <1>1, <1>4, <1>7, <1>8 DEF IInv, TypeOK, MapOf
  <2>3. MapOf(receipts, ReceiptId, ReceiptRecord)'
    BY <1>1, <1>10, MapSetTyped DEF IInv, TypeOK
  <2>4. QED
    BY <1>1, <2>1, <2>2, <2>3 DEF IInv, TypeOK
<1>12. ReferencesResolve'
  BY <1>1, <1>5, <1>7, <1>8, <1>9, <1>10 DEF IInv, ReferencesResolve, t
<1>13. OneAssignmentPerTask'
  <2>1. \A x \in DOMAIN assignments : assignments'[x].taskId = assignments[x].taskId
    BY <1>7, <1>8 DEF t
  <2>2. \A x \in DOMAIN tasks : tasks'[x].status = "open" <=> tasks[x].status = "open"
    BY <1>2, <1>5, <1>6
  <2>3. QED
    BY <1>5, <1>7, <2>1, <2>2 DEF IInv, OneAssignmentPerTask
<1>14. LifecyclesAgree'
  <2>1. \A x \in DOMAIN assignments : x # a =>
          /\ assignments[x].taskId \in DOMAIN tasks
          /\ assignments[x].taskId # t
    BY <1>1 DEF IInv, OneAssignmentPerTask, ReferencesResolve, t
  <2>2. \A x \in DOMAIN assignments : x # a =>
          /\ assignments'[x] = assignments[x]
          /\ tasks'[assignments[x].taskId] = tasks[assignments[x].taskId]
    BY <1>5, <1>7, <2>1
  <2>3. tasks'[assignments'[a].taskId].status = "submitted"
    BY <1>6, <1>8
  <2>4. LifecyclesAgree
    BY DEF IInv
  <2>5. ASSUME NEW x \in DOMAIN assignments
        PROVE  LET status == tasks'[assignments'[x].taskId].status
               IN  /\ assignments'[x].status \in ActiveAssignment <=> status = "assigned"
                   /\ assignments'[x].status = "submitted" <=> status \in {"submitted", "disputed"}
                   /\ assignments'[x].status = "completed" <=> status = "settled"
    <3>1. CASE x = a
      BY <3>1, <1>8, <2>3 DEF ActiveAssignment
    <3>2. CASE x # a
      BY <3>2, <2>2, <2>4 DEF LifecyclesAgree
    <3>3. QED
      BY <3>1, <3>2
  <2>6. QED
    BY <1>7, <2>5 DEF LifecyclesAgree
<1>15. SelectedBidIsAssigned'
  <2>1. \A x \in DOMAIN tasks :
          /\ tasks'[x].employerAddress = tasks[x].employerAddress
          /\ tasks'[x].taskCommitment = tasks[x].taskCommitment
          /\ tasks'[x].execution = tasks[x].execution
    BY <1>5, <1>6
  <2>2. QED
    BY <1>1, <1>7, <1>8, <2>1 DEF IInv, SelectedBidIsAssigned, ReferencesResolve, t
<1>16. DeliveryHasOneReceipt'
  BY <1>1, <1>2, <1>7, <1>8, <1>9, <1>10 DEF IInv, DeliveryHasOneReceipt, ReferencesResolve
<1>17. DisputeFreezesSettlement'
  <2>1. \A x \in DOMAIN tasks : tasks'[x].status = "disputed" <=> tasks[x].status = "disputed"
    BY <1>2, <1>5, <1>6
  <2>2. \A d \in DOMAIN disputes : /\ disputes[d].assignmentId \in DOMAIN assignments
                                    /\ assignments'[disputes[d].assignmentId]
                                         = assignments[disputes[d].assignmentId]
    BY <1>2, <1>7 DEF IInv, ReferencesResolve
  <2>3. QED
    BY <1>1, <1>5, <2>1, <2>2 DEF IInv, DisputeFreezesSettlement, IsParty
<1>18. QED
  BY <1>11, <1>12, <1>13, <1>14, <1>15, <1>16, <1>17 DEF IInv

LEMMA AcceptAssignmentPreserves ==
  ASSUME IInv, NEW t \in TaskId, NEW a \in AssignmentId, AcceptAssignment(t, a)
  PROVE  IInv'
<1>1. /\ a \in DOMAIN assignments
      /\ assignments[a].taskId = t
      /\ assignments[a].status = "submitted"
      /\ t \in DOMAIN tasks
      /\ tasks[t].status \in {"submitted", "disputed"}
      /\ assignments' = [assignments EXCEPT ![a].status = "completed"]
      /\ tasks' = [tasks EXCEPT ![t].status = "settled"]
      /\ UNCHANGED <<bids, receipts, disputes>>
  BY DEF AcceptAssignment, Settleable
(* A dispute on record would be an active one of this assignment.          *)
<1>2. \A d \in DOMAIN disputes : disputes[d].taskId # t /\ disputes[d].assignmentId # a
  <2> SUFFICES ASSUME NEW d \in DOMAIN disputes,
                      disputes[d].taskId = t \/ disputes[d].assignmentId = a
               PROVE  FALSE
    OBVIOUS
  <2>1. disputes[d].taskId = t /\ disputes[d].assignmentId = a
    BY <1>1 DEF IInv, ReferencesResolve, OneAssignmentPerTask
  <2>2. d \in ActiveDisputes(t, a)
    BY <2>1 DEF ActiveDisputes, IInv, DisputeFreezesSettlement
  <2>3. QED
    BY <2>2 DEF AcceptAssignment, Settleable
<1>3. /\ tasks \in [DOMAIN tasks -> TaskRecord]
      /\ assignments \in [DOMAIN assignments -> AssignmentRecord]
  BY DEF IInv, TypeOK, MapOf
<1>4. /\ DOMAIN tasks' = DOMAIN tasks
      /\ tasks'[t] = [tasks[t] EXCEPT !.status = "settled"]
      /\ \A x \in DOMAIN tasks : x # t => tasks'[x] = tasks[x]
  BY <1>1
<1>5. /\ tasks'[t].status = "settled"
      /\ tasks'[t].employerAddress = tasks[t].employerAddress
      /\ tasks'[t].taskCommitment = tasks[t].taskCommitment
      /\ tasks'[t].execution = tasks[t].execution
      /\ tasks'[t] \in TaskRecord
  BY <1>1, <1>3, <1>4 DEF TaskRecord, TaskStatus
<1>6. /\ DOMAIN assignments' = DOMAIN assignments
      /\ assignments'[a] = [assignments[a] EXCEPT !.status = "completed"]
      /\ \A x \in DOMAIN assignments : x # a => assignments'[x] = assignments[x]
  BY <1>1
<1>7. /\ assignments'[a].status = "completed"
      /\ assignments'[a].taskId = t
      /\ assignments'[a].bidId = assignments[a].bidId
      /\ assignments'[a].workerAddress = assignments[a].workerAddress
      /\ assignments'[a].employerAddress = assignments[a].employerAddress
      /\ assignments'[a].taskCommitment = assignments[a].taskCommitment
      /\ assignments'[a].bidCommitment = assignments[a].bidCommitment
      /\ assignments'[a].execution = assignments[a].execution
      /\ assignments'[a] \in AssignmentRecord
  BY <1>1, <1>3, <1>6 DEF AssignmentRecord, AssignmentStatus
<1>8. TypeOK'
  <2>1. MapOf(tasks, TaskId, TaskRecord)'
    BY <1>1, <1>3, <1>4, <1>5 DEF IInv, TypeOK, MapOf
  <2>2. MapOf(assignments, AssignmentId, AssignmentRecord)'
    BY <1>1, <1>3, <1>6, <1>7 DEF IInv, TypeOK, MapOf
  <2>3. QED
    BY <1>1, <2>1, <2>2 DEF IInv, TypeOK
<1>9. ReferencesResolve'
  BY <1>1, <1>4, <1>6, <1>7 DEF IInv, ReferencesResolve
<1>10. OneAssignmentPerTask'
  <2>1. \A x \in DOMAIN assignments : assignments'[x].taskId = assignments[x].taskId
    BY <1>1, <1>6, <1>7
  <2>2. \A x \in DOMAIN tasks : tasks'[x].status = "open" <=> tasks[x].status = "open"
    BY <1>1, <1>4, <1>5
  <2>3. QED
    BY <1>4, <1>6, <2>1, <2>2 DEF IInv, OneAssignmentPerTask
<1>11. LifecyclesAgree'
  <2>1. \A x \in DOMAIN assignments : x # a =>
          assignments[x].taskId \in DOMAIN tasks /\ assignments[x].taskId # t
    BY <1>1 DEF IInv, OneAssignmentPerTask, ReferencesResolve
  <2>2. QED
    BY <1>1, <1>4, <1>5, <1>6, <1>7, <2>1 DEF IInv, LifecyclesAgree, ActiveAssignment
<1>12. SelectedBidIsAssigned'
  <2>1. \A x \in DOMAIN tasks :
          /\ tasks'[x].employerAddress = tasks[x].employerAddress
          /\ tasks'[x].taskCommitment = tasks[x].taskCommitment
          /\ tasks'[x].execution = tasks[x].execution
    BY <1>4, <1>5
  <2>2. QED
    BY <1>1, <1>6, <1>7, <2>1 DEF IInv, SelectedBidIsAssigned, ReferencesResolve
<1>13. DeliveryHasOneReceipt'
  BY <1>1, <1>6, <1>7 DEF IInv, DeliveryHasOneReceipt, ReferencesResolve
<1>14. DisputeFreezesSettlement'
  <2>1. \A x \in DOMAIN tasks : x # t =>
          (tasks'[x].status = "disputed" <=> tasks[x].status = "disputed")
    BY <1>4
  <2>2. \A d \in DOMAIN disputes : /\ disputes[d].assignmentId \in DOMAIN assignments
                                   /\ assignments'[disputes[d].assignmentId]
                                        = assignments[disputes[d].assignmentId]
    BY <1>2, <1>6 DEF IInv, ReferencesResolve
  <2>3. QED
    BY <1>1, <1>2, <1>4, <1>5, <2>1, <2>2 DEF IInv, DisputeFreezesSettlement, IsParty
<1>15. QED
  BY <1>8, <1>9, <1>10, <1>11, <1>12, <1>13, <1>14 DEF IInv

LEMMA CreateDisputePreserves ==
  ASSUME IInv, NEW d \in DisputeId, NEW t \in TaskId, NEW a \in AssignmentId,
         NEW p \in Party, CreateDispute(d, t, a, p)
  PROVE  IInv'
<1> DEFINE dispute == [taskId |-> t, assignmentId |-> a, openedBy |-> p,
                       status |-> "open", revealedBy |-> Undefined]
<1>1. /\ d \notin DOMAIN disputes
      /\ a \in DOMAIN assignments
      /\ assignments[a].taskId = t
      /\ assignments[a].status = "submitted"
      /\ t \in DOMAIN tasks
      /\ tasks[t].status = "submitted"
      /\ IsParty(a, p)
      /\ disputes' = MapSet(disputes, d, dispute)
      /\ tasks' = [tasks EXCEPT ![t].status = "disputed"]
      /\ UNCHANGED <<bids, assignments, receipts>>
  BY DEF CreateDispute, Disputable
<1>2. /\ dispute \in DisputeRecord
      /\ dispute.taskId = t /\ dispute.assignmentId = a
      /\ dispute.openedBy = p /\ dispute.status = "open"
  BY DEF DisputeRecord, DisputeStatus
<1> HIDE DEF dispute
<1>3. /\ DOMAIN disputes' = DOMAIN disputes \cup {d}
      /\ disputes'[d] = dispute
      /\ \A x \in DOMAIN disputes : x # d => disputes'[x] = disputes[x]
  BY <1>1 DEF MapSet
<1>4. tasks \in [DOMAIN tasks -> TaskRecord]
  BY DEF IInv, TypeOK, MapOf
<1>5. /\ DOMAIN tasks' = DOMAIN tasks
      /\ tasks'[t] = [tasks[t] EXCEPT !.status = "disputed"]
      /\ \A x \in DOMAIN tasks : x # t => tasks'[x] = tasks[x]
  BY <1>1
<1>6. /\ tasks'[t].status = "disputed"
      /\ tasks'[t].employerAddress = tasks[t].employerAddress
      /\ tasks'[t].taskCommitment = tasks[t].taskCommitment
      /\ tasks'[t].execution = tasks[t].execution
      /\ tasks'[t] \in TaskRecord
  BY <1>1, <1>4, <1>5 DEF TaskRecord, TaskStatus
<1>7. \A x \in DOMAIN disputes : disputes[x].taskId # t
  BY <1>1 DEF IInv, DisputeFreezesSettlement
<1>8. TypeOK'
  <2>1. MapOf(tasks, TaskId, TaskRecord)'
    BY <1>1, <1>4, <1>5, <1>6 DEF IInv, TypeOK, MapOf
  <2>2. MapOf(disputes, DisputeId, DisputeRecord)'
    BY <1>1, <1>2, MapSetTyped DEF IInv, TypeOK
  <2>3. QED
    BY <1>1, <2>1, <2>2 DEF IInv, TypeOK
<1>9. ReferencesResolve'
  BY <1>1, <1>2, <1>3, <1>5 DEF IInv, ReferencesResolve
<1>10. OneAssignmentPerTask'
  BY <1>1, <1>5, <1>6 DEF IInv, OneAssignmentPerTask
<1>11. LifecyclesAgree'
  <2>1. \A x \in DOMAIN assignments : x # a =>
          assignments[x].taskId \in DOMAIN tasks /\ assignments[x].taskId # t
    BY <1>1 DEF IInv, OneAssignmentPerTask, ReferencesResolve
  <2>2. QED
    BY <1>1, <1>5, <1>6, <2>1 DEF IInv, LifecyclesAgree, ActiveAssignment
<1>12. SelectedBidIsAssigned'
  <2>1. \A x \in DOMAIN tasks :
          /\ tasks'[x].employerAddress = tasks[x].employerAddress
          /\ tasks'[x].taskCommitment = tasks[x].taskCommitment
          /\ tasks'[x].execution = tasks[x].execution
    BY <1>5, <1>6
  <2>2. QED
    BY <1>1, <2>1 DEF IInv, SelectedBidIsAssigned, ReferencesResolve
<1>13. DeliveryHasOneReceipt'
  BY <1>1 DEF IInv, DeliveryHasOneReceipt
<1>14. DisputeFreezesSettlement'
  <2>1. \A x \in DOMAIN tasks :
          tasks'[x].status = "disputed" <=> \E y \in DOMAIN disputes' : disputes'[y].taskId = x
    BY <1>1, <1>2, <1>3, <1>5, <1>6 DEF IInv, DisputeFreezesSettlement
  <2>2. \A y \in DOMAIN disputes' :
          /\ disputes'[y].status \in ActiveDispute
          /\ assignments[disputes'[y].assignmentId].status = "submitted"
          /\ IsParty(disputes'[y].assignmentId, disputes'[y].openedBy)
    BY <1>1, <1>2, <1>3 DEF IInv, DisputeFreezesSettlement, ActiveDispute
  <2>3. \A y, z \in DOMAIN disputes' : disputes'[y].taskId = disputes'[z].taskId => y = z
    BY <1>2, <1>3, <1>7 DEF IInv, DisputeFreezesSettlement
  <2>4. QED
    BY <1>1, <1>5, <2>1, <2>2, <2>3 DEF DisputeFreezesSettlement, IsParty
<1>15. QED
  BY <1>8, <1>9, <1>10, <1>11, <1>12, <1>13, <1>14 DEF IInv

LEMMA SubmitRevealPreserves ==
  ASSUME IInv, NEW d \in DisputeId, NEW p \in Party, SubmitReveal(d, p)
  PROVE  IInv'
<1>1. /\ d \in DOMAIN disputes
      /\ disputes' = [disputes EXCEPT ![d].status = "revealed", ![d].revealedBy = p]
      /\ UNCHANGED <<tasks, bids, assignments, receipts>>
  BY DEF SubmitReveal, Revealable
<1>2. disputes \in [DOMAIN disputes -> DisputeRecord]
  BY DEF IInv, TypeOK, MapOf
<1>3. /\ DOMAIN disputes' = DOMAIN disputes
      /\ \A x \in DOMAIN disputes : x # d => disputes'[x] = disputes[x]
      /\ disputes'[d] = [disputes[d] EXCEPT !.status = "revealed", !.revealedBy = p]
  BY <1>1, <1>2
<1>4. /\ disputes'[d] \in DisputeRecord
      /\ disputes'[d].status = "revealed"
      /\ disputes'[d].taskId = disputes[d].taskId
      /\ disputes'[d].assignmentId = disputes[d].assignmentId
      /\ disputes'[d].openedBy = disputes[d].openedBy
  BY <1>1, <1>2, <1>3 DEF DisputeRecord, DisputeStatus
<1>5. TypeOK'
  <2>1. MapOf(disputes, DisputeId, DisputeRecord)'
    BY <1>1, <1>2, <1>3, <1>4 DEF IInv, TypeOK, MapOf
  <2>2. QED
    BY <1>1, <2>1 DEF IInv, TypeOK
<1>6. ReferencesResolve'
  BY <1>1, <1>3, <1>4 DEF IInv, ReferencesResolve
<1>7. OneAssignmentPerTask' /\ LifecyclesAgree'
  BY <1>1 DEF IInv, OneAssignmentPerTask, LifecyclesAgree
<1>8. SelectedBidIsAssigned' /\ DeliveryHasOneReceipt'
  BY <1>1 DEF IInv, SelectedBidIsAssigned, DeliveryHasOneReceipt
<1>9. DisputeFreezesSettlement'
  BY <1>1, <1>3, <1>4 DEF IInv, DisputeFreezesSettlement, IsParty, ActiveDispute
<1>10. QED
  BY <1>5, <1>6, <1>7, <1>8, <1>9 DEF IInv

-----------------------------------------------------------------------------
LEMMA NextPreserves == IInv /\ [Next]_vars => IInv'
<1> SUFFICES ASSUME IInv, [Next]_vars PROVE IInv'
  OBVIOUS
<1>1. ASSUME NEW t \in TaskId, NEW p \in Party, NEW c \in Commitment,
             NEW e \in Execution \cup {Undefined}, CreateTask(t, p, c, e)
      PROVE  IInv'
  BY <1>1, CreateTaskPreserves
<1>2. ASSUME NEW b \in BidId, NEW t \in TaskId, NEW p \in Party, NEW c \in Commitment,
             NEW o \in Offer \cup {Undefined}, CreateBid(b, t, p, c, o)
      PROVE  IInv'
  BY <1>2, CreateBidPreserves
<1>3. ASSUME NEW a \in AssignmentId, NEW t \in TaskId, NEW b \in BidId,
             NEW w \in Party, NEW e \in Party, CreateAssignment(a, t, b, w, e)
      PROVE  IInv'
  BY <1>3, CreateAssignmentPreserves
<1>4. ASSUME NEW a \in AssignmentId, AcknowledgeAssignment(a) PROVE IInv'
  BY <1>4, AcknowledgeAssignmentPreserves
<1>5. ASSUME NEW a \in AssignmentId, NEW w \in Party, NEW r \in ExecutionReceipt,
             NEW c \in Content, NEW h, RecordWorkerSubmission(a, w, r, c, h)
      PROVE  IInv'
  BY <1>5, RecordWorkerSubmissionPreserves
<1>6. ASSUME NEW t \in TaskId, NEW a \in AssignmentId, AcceptAssignment(t, a) PROVE IInv'
  BY <1>6, AcceptAssignmentPreserves
<1>7. ASSUME NEW d \in DisputeId, NEW t \in TaskId, NEW a \in AssignmentId,
             NEW p \in Party, CreateDispute(d, t, a, p)
      PROVE  IInv'
  BY <1>7, CreateDisputePreserves
<1>8. ASSUME NEW d \in DisputeId, NEW p \in Party, SubmitReveal(d, p) PROVE IInv'
  BY <1>8, SubmitRevealPreserves
<1>9. CASE UNCHANGED vars
  BY <1>9 DEF vars, IInv, TypeOK, MapOf, ReferencesResolve, OneAssignmentPerTask,
              LifecyclesAgree, SelectedBidIsAssigned, DeliveryHasOneReceipt,
              DisputeFreezesSettlement, IsParty
<1>10. QED
  BY <1>1, <1>2, <1>3, <1>4, <1>5, <1>6, <1>7, <1>8, <1>9 DEF Next

(* The constructor starts from five empty Maps or from the seeded records. *)
LEMMA InitHolds == Init => IInv
<1> SUFFICES ASSUME Init PROVE IInv
  OBVIOUS
<1>1. CASE ~SeedInitialData
  <2>1. /\ DOMAIN tasks = {} /\ DOMAIN bids = {} /\ DOMAIN assignments = {}
        /\ DOMAIN receipts = {} /\ DOMAIN disputes = {}
        /\ tasks = [x \in {} |-> x] /\ bids = [x \in {} |-> x]
        /\ assignments = [x \in {} |-> x] /\ receipts = [x \in {} |-> x]
        /\ disputes = [x \in {} |-> x]
    BY <1>1 DEF Init, EmptyMap
  <2>2. TypeOK
    BY <2>1 DEF TypeOK, MapOf
  <2>3. QED
    BY <2>1, <2>2 DEF IInv, ReferencesResolve, OneAssignmentPerTask, LifecyclesAgree,
                      SelectedBidIsAssigned, DeliveryHasOneReceipt, DisputeFreezesSettlement
<1>2. CASE SeedInitialData
  <2>1. /\ tasks = SeedTasks /\ bids = SeedBids /\ assignments = SeedAssignments
        /\ receipts = SeedReceipts /\ disputes = EmptyMap
    BY <1>2 DEF Init
  <2>2. /\ DOMAIN tasks = SeedTaskIds /\ DOMAIN bids = SeedBidIds
        /\ DOMAIN assignments = SeedAssignmentIds /\ DOMAIN receipts = SeedReceiptIds
        /\ DOMAIN disputes = {}
    BY <2>1 DEF SeedTasks, SeedBids, SeedAssignments, SeedReceipts, EmptyMap
  <2>3. /\ tasks["task-one"].status = "open"
        /\ tasks["task-two"].status = "assigned"
        /\ tasks["task-three"].status = "settled"
        /\ \A t \in SeedTaskIds : tasks[t].execution = SeedExecution[t]
    BY <2>1 DEF SeedTasks, SeedTask, SeedTaskIds
  <2>4. /\ bids["bid-one"].status = "sealed" /\ bids["bid-one"].taskId = "task-one"
        /\ bids["bid-two"].status = "sealed" /\ bids["bid-two"].taskId = "task-one"
        /\ bids["bid-three"].status = "selected" /\ bids["bid-three"].taskId = "task-two"
        /\ bids["bid-four"].status = "selected" /\ bids["bid-four"].taskId = "task-three"
    BY <2>1 DEF SeedBids, SeedBid, SeedBidIds
  <2>5. /\ assignments["assignment-two"] =
             [taskId |-> "task-two", bidId |-> "bid-three", workerAddress |-> "proof_runner_3",
              employerAddress |-> "openshell", taskCommitment |-> "task-two-commitment",
              bidCommitment |-> "bid-three-commitment",
              execution |-> SeedTasks["task-two"].execution, status |-> "accepted"]
        /\ assignments["assignment-three"] =
             [taskId |-> "task-three", bidId |-> "bid-four", workerAddress |-> "ui_node_4",
              employerAddress |-> "nightshiftteam", taskCommitment |-> "task-three-commitment",
              bidCommitment |-> "bid-four-commitment",
              execution |-> SeedTasks["task-three"].execution, status |-> "completed"]
    BY <2>1 DEF SeedAssignments, SeedAssignmentIds
  <2>6. /\ assignments["assignment-two"].taskId = "task-two"
        /\ assignments["assignment-two"].bidId = "bid-three"
        /\ assignments["assignment-two"].status = "accepted"
        /\ assignments["assignment-three"].taskId = "task-three"
        /\ assignments["assignment-three"].bidId = "bid-four"
        /\ assignments["assignment-three"].status = "completed"
        /\ assignments["assignment-three"].workerAddress = "ui_node_4"
    BY <2>5
  <2>7. receipts["receipt_beta_003"] =
          [taskId |-> "task-three", assignmentId |-> "assignment-three",
           workerId |-> "ui_node_4", status |-> "submitted", resultHash |-> Undefined,
           receiptCommitment |-> SeedReceiptCommitment]
    BY <2>1 DEF SeedReceipts, SeedReceiptIds
  <2>8. ReferencesResolve
    BY <2>2, <2>4, <2>6, <2>7
       DEF ReferencesResolve, SeedTaskIds, SeedBidIds, SeedAssignmentIds, SeedReceiptIds
  <2>9. OneAssignmentPerTask
    BY <2>2, <2>3, <2>6 DEF OneAssignmentPerTask, SeedTaskIds, SeedAssignmentIds
  <2>10. LifecyclesAgree
    BY <2>2, <2>3, <2>6 DEF LifecyclesAgree, SeedAssignmentIds, ActiveAssignment
  <2>11. DeliveryHasOneReceipt
    BY <2>2, <2>6, <2>7 DEF DeliveryHasOneReceipt, SeedAssignmentIds, SeedReceiptIds
  <2>12. DisputeFreezesSettlement
    BY <2>2, <2>3 DEF DisputeFreezesSettlement, SeedTaskIds
  <2>13. SelectedBidIsAssigned
    <3>1. \A b \in DOMAIN bids :
            bids[b].status = "selected" <=> \E a \in DOMAIN assignments : assignments[a].bidId = b
      BY <2>2, <2>4, <2>6 DEF SeedBidIds, SeedAssignmentIds
    <3>2. \A a \in DOMAIN assignments :
            /\ assignments[a].bidId \in SeedBidIds
            /\ assignments[a].taskId \in SeedTaskIds
            /\ bids[assignments[a].bidId].taskId = assignments[a].taskId
      BY <2>2, <2>4, <2>6 DEF SeedAssignmentIds, SeedBidIds, SeedTaskIds
    <3>3. \A a \in DOMAIN assignments :
            /\ bids[assignments[a].bidId].workerAddress = assignments[a].workerAddress
            /\ bids[assignments[a].bidId].bidCommitment = assignments[a].bidCommitment
            /\ tasks[assignments[a].taskId].employerAddress = assignments[a].employerAddress
            /\ tasks[assignments[a].taskId].taskCommitment = assignments[a].taskCommitment
            /\ assignments[a].execution = SeedExecution[assignments[a].taskId]
      <4>1. /\ bids["bid-three"].workerAddress = "proof_runner_3"
            /\ bids["bid-three"].bidCommitment = "bid-three-commitment"
            /\ bids["bid-four"].workerAddress = "ui_node_4"
            /\ bids["bid-four"].bidCommitment = "bid-four-commitment"
        BY <2>1 DEF SeedBids, SeedBid, SeedBidIds
      <4>2. /\ tasks["task-two"].employerAddress = "openshell"
            /\ tasks["task-two"].taskCommitment = "task-two-commitment"
            /\ tasks["task-three"].employerAddress = "nightshiftteam"
            /\ tasks["task-three"].taskCommitment = "task-three-commitment"
        BY <2>1 DEF SeedTasks, SeedTask, SeedTaskIds
      <4>3. /\ SeedTasks["task-two"].execution = SeedExecution["task-two"]
            /\ SeedTasks["task-three"].execution = SeedExecution["task-three"]
        BY <2>1, <2>3 DEF SeedTaskIds
      <4>4. ASSUME NEW a \in DOMAIN assignments
            PROVE  /\ bids[assignments[a].bidId].workerAddress = assignments[a].workerAddress
                   /\ bids[assignments[a].bidId].bidCommitment = assignments[a].bidCommitment
                   /\ tasks[assignments[a].taskId].employerAddress = assignments[a].employerAddress
                   /\ tasks[assignments[a].taskId].taskCommitment = assignments[a].taskCommitment
                   /\ assignments[a].execution = SeedExecution[assignments[a].taskId]
        BY <2>2, <2>5, <4>1, <4>2, <4>3 DEF SeedAssignmentIds
      <4>5. QED
        BY <4>4
    <3>4. QED
      BY <2>3, <3>1, <3>2, <3>3 DEF SelectedBidIsAssigned
  <2>14. TypeOK
    <3>1. MapOf(tasks, TaskId, TaskRecord)
      BY <1>2, <2>1, <2>2, SeedAssumption
         DEF MapOf, TaskRecord, TaskStatus, SeedTasks, SeedTask, SeedTaskIds,
             SeedEmployers, SeedCommitments
    <3>2. MapOf(bids, BidId, BidRecord)
      BY <1>2, <2>1, <2>2, SeedAssumption
         DEF MapOf, BidRecord, BidStatus, SeedBids, SeedBid, SeedBidIds, SeedTaskIds,
             SeedWorkers, SeedCommitments
    <3>3. MapOf(assignments, AssignmentId, AssignmentRecord)
      <4>1. /\ tasks["task-two"] \in TaskRecord /\ tasks["task-three"] \in TaskRecord
        BY <2>2, <3>1 DEF MapOf, SeedTaskIds
      <4>2. /\ "task-two" \in TaskId /\ "task-three" \in TaskId
            /\ "bid-three" \in BidId /\ "bid-four" \in BidId
            /\ "assignment-two" \in AssignmentId /\ "assignment-three" \in AssignmentId
        BY <1>2, SeedAssumption DEF SeedTaskIds, SeedBidIds, SeedAssignmentIds
      <4>3. /\ {"proof_runner_3", "ui_node_4", "openshell", "nightshiftteam"} \subseteq Party
            /\ {"task-two-commitment", "task-three-commitment", "bid-three-commitment",
                "bid-four-commitment"} \subseteq Commitment
            /\ SeedTasks["task-two"].execution \in Execution \cup {Undefined}
            /\ SeedTasks["task-three"].execution \in Execution \cup {Undefined}
        BY <1>2, <2>1, <4>1, SeedAssumption
           DEF SeedWorkers, SeedEmployers, SeedCommitments, TaskRecord
      <4>4. /\ assignments["assignment-two"] \in AssignmentRecord
            /\ assignments["assignment-three"] \in AssignmentRecord
        BY <2>5, <4>2, <4>3 DEF AssignmentRecord, AssignmentStatus
      <4>5. QED
        BY <2>1, <2>2, <4>2, <4>4 DEF MapOf, SeedAssignments, SeedAssignmentIds
    <3>4. MapOf(receipts, ReceiptId, ReceiptRecord)
      <4>1. SeedReceiptCommitment \in ReceiptHash
        BY DEF ReceiptHash
      <4>2. /\ "task-three" \in TaskId /\ "assignment-three" \in AssignmentId
            /\ "ui_node_4" \in Party /\ "receipt_beta_003" \in ReceiptId
        BY <1>2, SeedAssumption DEF SeedTaskIds, SeedAssignmentIds, SeedReceiptIds, SeedWorkers
      <4>3. receipts["receipt_beta_003"] \in ReceiptRecord
        BY <2>7, <4>1, <4>2 DEF ReceiptRecord, ReceiptStatus
      <4>4. QED
        BY <2>1, <2>2, <4>2, <4>3 DEF MapOf, SeedReceipts, SeedReceiptIds
    <3>5. MapOf(disputes, DisputeId, DisputeRecord)
      BY <2>1 DEF MapOf, EmptyMap
    <3>6. QED
      BY <3>1, <3>2, <3>3, <3>4, <3>5 DEF TypeOK
  <2>15. QED
    BY <2>8, <2>9, <2>10, <2>11, <2>12, <2>13, <2>14 DEF IInv
<1>3. QED
  BY <1>1, <1>2

LEMMA Inductive == Spec => []IInv
BY InitHolds, NextPreserves, PTL DEF Spec

(* Every Map only ever holds complete records of its type.                 *)
THEOREM TypeCorrect == Spec => []TypeOK
BY Inductive, PTL DEF IInv

(* No handler stores a dangling or crossed reference.                      *)
THEOREM ReferencesCorrect == Spec => []ReferencesResolve
BY Inductive, PTL DEF IInv

(* However many selections race on an open task, it is handed out once.    *)
THEOREM HandedOutOnce == Spec => []OneAssignmentPerTask
BY Inductive, PTL DEF IInv

(* recordWorkerSubmission's unguarded write of the task's status never     *)
(* takes a task out of a dispute or a settlement (store.ts:366).           *)
THEOREM LifecyclesNeverDiverge == Spec => []LifecyclesAgree
BY Inductive, PTL DEF IInv

(* A bid is selected exactly when an assignment was made from it, and the  *)
(* assignment copies the terms of its bid and its task.                    *)
THEOREM SelectionCorrect == Spec => []SelectedBidIsAssigned
BY Inductive, PTL DEF IInv

(* A delivered assignment has exactly one receipt, its own worker's.       *)
THEOREM OneReceiptPerDelivery == Spec => []DeliveryHasOneReceipt
BY Inductive, PTL DEF IInv

(* No settled task ever has a dispute, and no disputed task is settled.    *)
THEOREM DisputesFreeze == Spec => []DisputeFreezesSettlement
BY Inductive, PTL DEF IInv

-----------------------------------------------------------------------------
(* The stored commitment is the digest of what is stored beside it with the*)
(* status word that was sent: only recordWorkerSubmission writes receipts, *)
(* and it has recomputed the digest before it rewrites that word.          *)
THEOREM CommitmentsOpen == Spec => []CommitmentOpensReceipt
<1>1. Init => CommitmentOpensReceipt
  BY DEF Init, EmptyMap, SeedReceipts, CommitmentOpensReceipt
<1>2. CommitmentOpensReceipt /\ [Next]_vars => CommitmentOpensReceipt'
  <2> SUFFICES ASSUME CommitmentOpensReceipt, [Next]_vars PROVE CommitmentOpensReceipt'
    OBVIOUS
  <2>1. ASSUME NEW a \in AssignmentId, NEW w \in Party, NEW r \in ExecutionReceipt,
               NEW c \in Content, NEW h, RecordWorkerSubmission(a, w, r, c, h)
        PROVE  CommitmentOpensReceipt'
    <3> DEFINE record == [taskId |-> r.taskId, assignmentId |-> a, workerId |-> w,
                          status |-> "submitted", resultHash |-> r.resultHash,
                          receiptCommitment |-> h]
    <3>1. /\ receipts' = MapSet(receipts, r.receiptId, record)
          /\ h = CommitReceipt(r.receiptId, r)
          /\ r.assignmentId = a
          /\ r.workerId = w
      BY <2>1 DEF RecordWorkerSubmission, ReceiptMatches, ReceiptVerifies
    <3>2. record.receiptCommitment =
            CommitReceipt(r.receiptId, [record EXCEPT !.status = r.status])
      BY <3>1 DEF CommitReceipt
    <3> HIDE DEF record
    <3>3. /\ DOMAIN receipts' = DOMAIN receipts \cup {r.receiptId}
          /\ receipts'[r.receiptId] = record
          /\ \A x \in DOMAIN receipts : x # r.receiptId => receipts'[x] = receipts[x]
      BY <3>1 DEF MapSet
    <3>4. r.status \in SentStatus
      BY DEF ExecutionReceipt
    <3>5. QED
      BY <3>2, <3>3, <3>4 DEF CommitmentOpensReceipt
  <2>2. CASE UNCHANGED receipts
    BY <2>2 DEF CommitmentOpensReceipt
  <2>3. QED
    BY <2>1, <2>2 DEF Next, vars, CreateTask, CreateBid, CreateAssignment,
       AcknowledgeAssignment, AcceptAssignment, CreateDispute, SubmitReveal
<1>3. QED
  BY <1>1, <1>2, PTL DEF Spec

-----------------------------------------------------------------------------
(* Of a record only its status moves, and of a dispute who revealed last:  *)
(* what it is about, who is behind it and on which terms stays as recorded.*)
OnlyStatusMoves ==
  /\ \A t \in DOMAIN tasks :
       /\ t \in DOMAIN tasks'
       /\ tasks'[t].employerAddress = tasks[t].employerAddress
       /\ tasks'[t].taskCommitment = tasks[t].taskCommitment
       /\ tasks'[t].execution = tasks[t].execution
  /\ \A b \in DOMAIN bids :
       /\ b \in DOMAIN bids'
       /\ bids'[b].taskId = bids[b].taskId
       /\ bids'[b].workerAddress = bids[b].workerAddress
       /\ bids'[b].bidCommitment = bids[b].bidCommitment
       /\ bids'[b].executionOffer = bids[b].executionOffer
  /\ \A a \in DOMAIN assignments :
       /\ a \in DOMAIN assignments'
       /\ assignments'[a].taskId = assignments[a].taskId
       /\ assignments'[a].bidId = assignments[a].bidId
       /\ assignments'[a].workerAddress = assignments[a].workerAddress
       /\ assignments'[a].employerAddress = assignments[a].employerAddress
       /\ assignments'[a].taskCommitment = assignments[a].taskCommitment
       /\ assignments'[a].bidCommitment = assignments[a].bidCommitment
       /\ assignments'[a].execution = assignments[a].execution
  /\ \A r \in DOMAIN receipts : r \in DOMAIN receipts' /\ receipts'[r] = receipts[r]
  /\ \A d \in DOMAIN disputes :
       /\ d \in DOMAIN disputes'
       /\ disputes'[d].taskId = disputes[d].taskId
       /\ disputes'[d].assignmentId = disputes[d].assignmentId
       /\ disputes'[d].openedBy = disputes[d].openedBy

LEMMA TermsAreKept == ASSUME TypeOK, [Next]_vars PROVE OnlyStatusMoves
<1> USE DEF OnlyStatusMoves
<1>0. /\ tasks \in [DOMAIN tasks -> TaskRecord]
      /\ bids \in [DOMAIN bids -> BidRecord]
      /\ assignments \in [DOMAIN assignments -> AssignmentRecord]
      /\ disputes \in [DOMAIN disputes -> DisputeRecord]
  BY DEF TypeOK, MapOf
<1>1. ASSUME NEW t, NEW p, NEW c, NEW e, CreateTask(t, p, c, e) PROVE OnlyStatusMoves
  BY <1>1 DEF CreateTask, MapSet
<1>2. ASSUME NEW b, NEW t, NEW p, NEW c, NEW o, CreateBid(b, t, p, c, o) PROVE OnlyStatusMoves
  BY <1>2 DEF CreateBid, MapSet
<1>3. ASSUME NEW a, NEW t, NEW b, NEW w, NEW e, CreateAssignment(a, t, b, w, e)
      PROVE  OnlyStatusMoves
  BY <1>0, <1>3 DEF CreateAssignment, MapSet, TaskRecord, BidRecord
<1>4. ASSUME NEW a, AcknowledgeAssignment(a) PROVE OnlyStatusMoves
  BY <1>0, <1>4 DEF AcknowledgeAssignment, AssignmentRecord
<1>5. ASSUME NEW a, NEW w, NEW r, NEW c, NEW h, RecordWorkerSubmission(a, w, r, c, h)
      PROVE  OnlyStatusMoves
  <2>1. \A x \in DOMAIN receipts : x \in DOMAIN receipts' /\ receipts'[x] = receipts[x]
    BY <1>5 DEF RecordWorkerSubmission, ReceiptMatches, MapSet
  <2>2. /\ assignments' = [assignments EXCEPT ![a].status = "submitted"]
        /\ \/ tasks' = tasks
           \/ tasks' = [tasks EXCEPT ![r.taskId].status = "submitted"]
        /\ UNCHANGED <<bids, disputes>>
    BY <1>5 DEF RecordWorkerSubmission
  <2>3. QED
    BY <1>0, <2>1, <2>2 DEF TaskRecord, AssignmentRecord
<1>6. ASSUME NEW t, NEW a, AcceptAssignment(t, a) PROVE OnlyStatusMoves
  BY <1>0, <1>6 DEF AcceptAssignment, TaskRecord, AssignmentRecord
<1>7. ASSUME NEW d, NEW t, NEW a, NEW p, CreateDispute(d, t, a, p) PROVE OnlyStatusMoves
  BY <1>0, <1>7 DEF CreateDispute, MapSet, TaskRecord
<1>8. ASSUME NEW d, NEW p, SubmitReveal(d, p) PROVE OnlyStatusMoves
  BY <1>0, <1>8 DEF SubmitReveal, DisputeRecord
<1>9. CASE UNCHANGED vars
  BY <1>9 DEF vars
<1>10. QED
  BY <1>1, <1>2, <1>3, <1>4, <1>5, <1>6, <1>7, <1>8, <1>9, Zenon DEF Next

(* No handler rewrites the terms of a deal that is on record.              *)
THEOREM TermsNeverChange == Spec => [][OnlyStatusMoves]_vars
<1>1. TypeOK /\ [Next]_vars => [OnlyStatusMoves]_vars
  BY TermsAreKept
<1>2. QED
  BY <1>1, TypeCorrect, PTL DEF Spec

(* A bid comes in on a task that is there, with an offer that serves it.   *)
LEMMA NewBidsFit ==
  ASSUME IInv, [Next]_vars, NEW b \in DOMAIN bids', b \notin DOMAIN bids
  PROVE  Biddable(bids'[b].taskId, bids'[b].executionOffer) /\ UNCHANGED tasks
<1>1. ASSUME NEW x, NEW t, NEW p, NEW c, NEW o, CreateBid(x, t, p, c, o)
      PROVE  Biddable(bids'[b].taskId, bids'[b].executionOffer) /\ UNCHANGED tasks
  <2>1. b = x /\ bids'[b].taskId = t /\ bids'[b].executionOffer = o
    BY <1>1 DEF CreateBid, MapSet
  <2>2. QED
    BY <1>1, <2>1 DEF CreateBid
<1>2. CASE DOMAIN bids' = DOMAIN bids
  BY <1>2
<1>3. QED
  BY <1>1, <1>2, ZenonT(40) DEF Next, vars, CreateTask, CreateAssignment, AcknowledgeAssignment,
     RecordWorkerSubmission, AcceptAssignment, CreateDispute, SubmitReveal

(* Every bid on record offers what its task asks for.                      *)
BidsServeTheirTasks ==
  \A b \in DOMAIN bids : Compatible(tasks[bids[b].taskId].execution, bids[b].executionOffer)

LEMMA SeedOffersServe ==
  ASSUME SeedInitialData, NEW b \in SeedBidIds
  PROVE  Compatible(SeedExecution[SeedBids[b].taskId], SeedBids[b].executionOffer)
<1> DEFINE t == SeedBids[b].taskId
           llm == SeedExecution[t].llm
           provider == IF b = "bid-one" THEN "anthropic"
                       ELSE IF b = "bid-two" THEN "openai" ELSE "mock"
<1>1. SeedBids[b].executionOffer = SeedOffer[b]
  BY DEF SeedBids, SeedBid, SeedBidIds
<1>2. SeedOffer[b] # Undefined /\ IsCatalog(SeedOffer[b].providers)
  BY SeedAssumption, OfferAssumption DEF IsCatalog
<1>3. Serviceable(SeedExecution[t], SeedOffer[b])
  <2>1. CASE b = "bid-four"
    <3>1. SeedExecution[t].llm = Undefined /\ SeedExecution[t].transport = "http-poller"
      BY <2>1 DEF SeedBids, SeedBid, SeedBidIds, SeedExecution, SeedTaskIds
    <3>2. SeedOffer[b].transports = {"http-poller"}
      BY <2>1 DEF SeedOffer, SeedBidIds
    <3>3. QED
      BY <1>2, <3>1, <3>2 DEF Serviceable
  <2>2. CASE b # "bid-four"
    <3>1. SeedExecution[t].transport \in SeedOffer[b].transports
      BY <2>2 DEF SeedBids, SeedBid, SeedBidIds, SeedExecution, SeedTaskIds, SeedOffer
    <3>2. /\ provider \in llm.providerAllowlist
          /\ llm.modelAllowlist = {}
          /\ llm.requiredCapabilities = {"text", "json"}
      BY <2>2 DEF SeedBids, SeedBid, SeedBidIds, SeedExecution, SeedTaskIds, LlmPolicy
    <3>3. /\ 1 \in DOMAIN SeedOffer[b].providers
          /\ SeedOffer[b].providers[1].provider = provider
          /\ {"text", "json"} \subseteq SeedOffer[b].providers[1].capabilities
      BY <2>2 DEF SeedBidIds, SeedOffer, OneProvider
    <3> HIDE DEF llm, provider
    <3>4. 1 \in Capable(llm, SeedOffer[b].providers)
      BY <3>2, <3>3 DEF Capable, Candidates, Admits, ProviderSatisfiesCapabilities
    <3>5. QED
      BY <1>2, <3>1, <3>4 DEF Serviceable, llm
  <2>3. QED
    BY <2>1, <2>2
<1>4. QED
  BY <1>1, <1>2, <1>3, CompatibilityIsServiceability

LEMMA SeededBidsServe == Init => BidsServeTheirTasks
<1> SUFFICES ASSUME Init PROVE BidsServeTheirTasks
  OBVIOUS
<1>1. CASE ~SeedInitialData
  BY <1>1 DEF Init, EmptyMap, BidsServeTheirTasks
<1>2. CASE SeedInitialData
  <2>1. bids = SeedBids /\ DOMAIN bids = SeedBidIds /\ tasks = SeedTasks
    BY <1>2 DEF Init, SeedBids
  <2>2. \A b \in SeedBidIds : SeedBids[b].taskId \in SeedTaskIds
    BY DEF SeedBids, SeedBid, SeedBidIds, SeedTaskIds
  <2>3. \A t \in SeedTaskIds : SeedTasks[t].execution = SeedExecution[t]
    BY DEF SeedTasks, SeedTask, SeedTaskIds
  <2>4. QED
    BY <1>2, <2>1, <2>2, <2>3, SeedOffersServe DEF BidsServeTheirTasks
<1>3. QED
  BY <1>1, <1>2

LEMMA BidsKeepServing == IInv /\ BidsServeTheirTasks /\ [Next]_vars => BidsServeTheirTasks'
<1> SUFFICES ASSUME IInv, BidsServeTheirTasks, [Next]_vars, NEW b \in DOMAIN bids'
             PROVE  Compatible(tasks'[bids'[b].taskId].execution, bids'[b].executionOffer)
  BY DEF BidsServeTheirTasks
<1>1. CASE b \in DOMAIN bids
  BY <1>1, TermsAreKept DEF OnlyStatusMoves, BidsServeTheirTasks, IInv, ReferencesResolve
<1>2. CASE b \notin DOMAIN bids
  BY <1>2, NewBidsFit DEF Biddable
<1>3. QED
  BY <1>1, <1>2

(* Every bid on record offers what its task asks for: the check at         *)
(* selection (store.ts:153) repeats the one at the bid and never refuses.  *)
THEOREM BidsServe == Spec => []BidsServeTheirTasks
BY SeededBidsServe, BidsKeepServing, Inductive, PTL DEF Spec

(* The worker in charge of a task offered what it asks for: its bid did,   *)
(* and the assignment carries the terms of its bid and its task.           *)
THEOREM AssignedWorkersCanServe == Spec => []AssignedOfferServesTask
<1>1. IInv /\ BidsServeTheirTasks => AssignedOfferServesTask
  <2> SUFFICES ASSUME IInv, BidsServeTheirTasks, NEW a \in DOMAIN assignments
               PROVE  Serviceable(assignments[a].execution,
                                  bids[assignments[a].bidId].executionOffer)
    BY DEF AssignedOfferServesTask
  <2> DEFINE bid == bids[assignments[a].bidId]
  <2>1. /\ assignments[a].bidId \in DOMAIN bids
        /\ assignments[a].execution = tasks[bid.taskId].execution
    BY DEF IInv, ReferencesResolve, SelectedBidIsAssigned
  <2>2. bid.executionOffer \in Offer \cup {Undefined}
    BY <2>1 DEF IInv, TypeOK, MapOf, BidRecord
  <2>3. bid.executionOffer # Undefined => IsCatalog(bid.executionOffer.providers)
    BY <2>2, OfferAssumption DEF IsCatalog
  <2>4. Compatible(assignments[a].execution, bid.executionOffer)
    BY <2>1 DEF BidsServeTheirTasks
  <2>5. QED
    BY <2>3, <2>4, CompatibilityIsServiceability
<1>2. QED
  BY <1>1, Inductive, BidsServe, PTL

-----------------------------------------------------------------------------
(* Settlement is final.  Kept says that the records of task t in a Map are *)
(* those of the Map before: none added, none gone, none changed.           *)
Kept(map, next, t) ==
  /\ {x \in DOMAIN next : next[x].taskId = t} = {x \in DOMAIN map : map[x].taskId = t}
  /\ \A x \in DOMAIN map : map[x].taskId = t => next[x] = map[x]

LEMMA KeptRestriction ==
  ASSUME NEW map, NEW next, NEW t, Kept(map, next, t)
  PROVE  [x \in {y \in DOMAIN next : next[y].taskId = t} |-> next[x]]
           = [x \in {y \in DOMAIN map : map[y].taskId = t} |-> map[x]]
<1>1. {y \in DOMAIN next : next[y].taskId = t} = {y \in DOMAIN map : map[y].taskId = t}
  BY DEF Kept
<1>2. \A x \in {y \in DOMAIN map : map[y].taskId = t} : next[x] = map[x]
  BY DEF Kept
<1>3. QED
  BY <1>1, <1>2

LEMMA KeptUnchanged ==
  ASSUME NEW map, NEW next, NEW t, next = map
  PROVE  Kept(map, next, t)
BY DEF Kept

(* A new record of another task.                                           *)
LEMMA KeptByMapSet ==
  ASSUME NEW map, NEW key, NEW value, NEW t, key \notin DOMAIN map, value.taskId # t
  PROVE  Kept(map, MapSet(map, key, value), t)
<1> DEFINE next == MapSet(map, key, value)
<1>1. /\ DOMAIN next = DOMAIN map \cup {key}
      /\ next[key] = value
      /\ \A x \in DOMAIN map : x # key => next[x] = map[x]
  BY DEF MapSet
<1> HIDE DEF next
<1>2. QED
  BY <1>1 DEF Kept, next

(* An overwritten record of another task.                                  *)
LEMMA KeptByExcept ==
  ASSUME NEW map, NEW next, NEW key, NEW t,
         DOMAIN next = DOMAIN map,
         \A x \in DOMAIN map : x # key => next[x] = map[x],
         key \in DOMAIN map => map[key].taskId # t /\ next[key].taskId # t
  PROVE  Kept(map, next, t)
BY DEF Kept

Untouched(t) ==
  /\ t \in DOMAIN tasks' /\ tasks'[t] = tasks[t]
  /\ Kept(bids, bids', t)
  /\ Kept(assignments, assignments', t)
  /\ Kept(receipts, receipts', t)
  /\ Kept(disputes, disputes', t)

LEMMA UntouchedKeepsRecords ==
  ASSUME NEW t, Untouched(t)
  PROVE  RecordsOf(t)' = RecordsOf(t)
<1>1. tasks'[t] = tasks[t]
  BY DEF Untouched
<1>2. [b \in {x \in DOMAIN bids' : bids'[x].taskId = t} |-> bids'[b]]
        = [b \in {x \in DOMAIN bids : bids[x].taskId = t} |-> bids[b]]
  BY KeptRestriction DEF Untouched
<1>3. [a \in {x \in DOMAIN assignments' : assignments'[x].taskId = t} |-> assignments'[a]]
        = [a \in {x \in DOMAIN assignments : assignments[x].taskId = t} |-> assignments[a]]
  BY KeptRestriction DEF Untouched
<1>4. [r \in {x \in DOMAIN receipts' : receipts'[x].taskId = t} |-> receipts'[r]]
        = [r \in {x \in DOMAIN receipts : receipts[x].taskId = t} |-> receipts[r]]
  BY KeptRestriction DEF Untouched
<1>5. [d \in {x \in DOMAIN disputes' : disputes'[x].taskId = t} |-> disputes'[d]]
        = [d \in {x \in DOMAIN disputes : disputes[x].taskId = t} |-> disputes[d]]
  BY KeptRestriction DEF Untouched
<1>6. QED
  BY <1>1, <1>2, <1>3, <1>4, <1>5 DEF RecordsOf

(* What a settled task and its records rule out for every handler.         *)
LEMMA SettledRulesOut ==
  ASSUME IInv, NEW t \in DOMAIN tasks, tasks[t].status = "settled"
  PROVE  /\ \A a \in DOMAIN assignments :
              assignments[a].taskId = t => assignments[a].status = "completed"
         /\ \A b \in DOMAIN bids, a \in DOMAIN assignments :
              assignments[a].bidId = b => bids[b].taskId = assignments[a].taskId
         /\ \A d \in DOMAIN disputes : disputes[d].taskId # t
BY DEF IInv, LifecyclesAgree, SelectedBidIsAssigned, DisputeFreezesSettlement

LEMMA SettledUntouched ==
  ASSUME IInv, [Next]_vars, NEW s \in DOMAIN tasks, tasks[s].status = "settled"
  PROVE  Untouched(s)
<1> USE SettledRulesOut
<1>0. /\ bids \in [DOMAIN bids -> BidRecord]
      /\ assignments \in [DOMAIN assignments -> AssignmentRecord]
      /\ disputes \in [DOMAIN disputes -> DisputeRecord]
      /\ \A d \in DOMAIN disputes : disputes[d].taskId # s
      /\ \A a \in DOMAIN assignments :
           assignments[a].taskId = s => assignments[a].status = "completed"
  BY DEF IInv, TypeOK, MapOf
<1>1. ASSUME NEW t \in TaskId, NEW p \in Party, NEW c \in Commitment,
             NEW e \in Execution \cup {Undefined}, CreateTask(t, p, c, e)
      PROVE  Untouched(s)
  <2>1. s \in DOMAIN tasks' /\ tasks'[s] = tasks[s]
    BY <1>1 DEF CreateTask, MapSet
  <2>2. QED
    BY <1>1, <2>1, KeptUnchanged DEF CreateTask, Untouched
<1>2. ASSUME NEW b \in BidId, NEW t \in TaskId, NEW p \in Party, NEW c \in Commitment,
             NEW o \in Offer \cup {Undefined}, CreateBid(b, t, p, c, o)
      PROVE  Untouched(s)
  <2> DEFINE bid == [taskId |-> t, workerAddress |-> p, bidCommitment |-> c,
                     executionOffer |-> o, status |-> "sealed"]
  <2>1. /\ b \notin DOMAIN bids /\ bid.taskId # s
        /\ bids' = MapSet(bids, b, bid)
        /\ UNCHANGED <<tasks, assignments, receipts, disputes>>
    BY <1>2 DEF CreateBid, Biddable
  <2> HIDE DEF bid
  <2>2. QED
    BY <2>1, KeptByMapSet, KeptUnchanged DEF Untouched
<1>3. ASSUME NEW a \in AssignmentId, NEW t \in TaskId, NEW b \in BidId,
             NEW w \in Party, NEW e \in Party, CreateAssignment(a, t, b, w, e)
      PROVE  Untouched(s)
  <2> DEFINE assignment ==
               [taskId |-> t, bidId |-> b, workerAddress |-> w, employerAddress |-> e,
                taskCommitment |-> tasks[t].taskCommitment,
                bidCommitment |-> bids[b].bidCommitment,
                execution |-> tasks[t].execution, status |-> "queued"]
  <2>1. /\ t # s /\ t \in DOMAIN tasks
        /\ b \in DOMAIN bids /\ bids[b].taskId = t
        /\ a \notin DOMAIN assignments /\ assignment.taskId # s
        /\ tasks' = [tasks EXCEPT ![t].status = "assigned"]
        /\ bids' = [bids EXCEPT ![b].status = "selected"]
        /\ assignments' = MapSet(assignments, a, assignment)
        /\ UNCHANGED <<receipts, disputes>>
    BY <1>3 DEF CreateAssignment, Selectable
  <2> HIDE DEF assignment
  <2>2. Kept(bids, bids', s)
    <3>1. bids'[b].taskId = t
      BY <1>0, <2>1 DEF BidRecord
    <3>2. DOMAIN bids' = DOMAIN bids /\ \A x \in DOMAIN bids : x # b => bids'[x] = bids[x]
      BY <2>1
    <3>3. QED
      BY <2>1, <3>1, <3>2, KeptByExcept
  <2>3. tasks'[s] = tasks[s] /\ s \in DOMAIN tasks'
    BY <2>1
  <2>4. QED
    BY <2>1, <2>2, <2>3, KeptByMapSet, KeptUnchanged DEF Untouched
(* An assignment whose status a handler moves on is not a settled task's.  *)
<1>4. ASSUME NEW a \in DOMAIN assignments, assignments[a].taskId # s, NEW status,
             assignments' = [assignments EXCEPT ![a].status = status]
      PROVE  Kept(assignments, assignments', s)
  <2>1. /\ assignments'[a].taskId = assignments[a].taskId
        /\ DOMAIN assignments' = DOMAIN assignments
        /\ \A x \in DOMAIN assignments : x # a => assignments'[x] = assignments[x]
    BY <1>0, <1>4 DEF AssignmentRecord
  <2>2. QED
    BY <1>4, <2>1, KeptByExcept
<1>5. ASSUME NEW a \in AssignmentId, AcknowledgeAssignment(a) PROVE Untouched(s)
  <2>1. /\ a \in DOMAIN assignments /\ assignments[a].taskId # s
        /\ UNCHANGED <<tasks, bids, receipts, disputes>>
        /\ \E status : assignments' = [assignments EXCEPT ![a].status = status]
    BY <1>0, <1>5 DEF AcknowledgeAssignment, Acknowledgeable
  <2>2. QED
    BY <1>4, <2>1, KeptUnchanged DEF Untouched
<1>6. ASSUME NEW a \in AssignmentId, NEW w \in Party, NEW r \in ExecutionReceipt,
             NEW c \in Content, NEW h, RecordWorkerSubmission(a, w, r, c, h)
      PROVE  Untouched(s)
  <2> DEFINE record == [taskId |-> r.taskId, assignmentId |-> a, workerId |-> w,
                        status |-> "submitted", resultHash |-> r.resultHash,
                        receiptCommitment |-> h]
  <2>1. /\ a \in DOMAIN assignments /\ assignments[a].taskId # s
        /\ r.taskId = assignments[a].taskId
        /\ r.receiptId \notin DOMAIN receipts /\ record.taskId # s
        /\ receipts' = MapSet(receipts, r.receiptId, record)
        /\ assignments' = [assignments EXCEPT ![a].status = "submitted"]
        /\ UNCHANGED <<bids, disputes>>
    BY <1>0, <1>6 DEF RecordWorkerSubmission, Submittable, ReceiptMatches
  <2> HIDE DEF record
  <2>2. s \in DOMAIN tasks' /\ tasks'[s] = tasks[s]
    BY <1>6, <2>1 DEF RecordWorkerSubmission
  <2>3. QED
    BY <1>4, <2>1, <2>2, KeptByMapSet, KeptUnchanged DEF Untouched
<1>7. ASSUME NEW t \in TaskId, NEW a \in AssignmentId, AcceptAssignment(t, a)
      PROVE  Untouched(s)
  <2>1. /\ a \in DOMAIN assignments /\ assignments[a].taskId # s /\ t # s
        /\ assignments' = [assignments EXCEPT ![a].status = "completed"]
        /\ tasks' = [tasks EXCEPT ![t].status = "settled"]
        /\ UNCHANGED <<bids, receipts, disputes>>
    BY <1>0, <1>7 DEF AcceptAssignment, Settleable
  <2>2. s \in DOMAIN tasks' /\ tasks'[s] = tasks[s]
    BY <2>1
  <2>3. QED
    BY <1>4, <2>1, <2>2, KeptUnchanged DEF Untouched
<1>8. ASSUME NEW d \in DisputeId, NEW t \in TaskId, NEW a \in AssignmentId, NEW p \in Party,
             CreateDispute(d, t, a, p)
      PROVE  Untouched(s)
  <2> DEFINE dispute == [taskId |-> t, assignmentId |-> a, openedBy |-> p,
                         status |-> "open", revealedBy |-> Undefined]
  <2>1. /\ t # s /\ d \notin DOMAIN disputes /\ dispute.taskId # s
        /\ disputes' = MapSet(disputes, d, dispute)
        /\ tasks' = [tasks EXCEPT ![t].status = "disputed"]
        /\ UNCHANGED <<bids, assignments, receipts>>
    BY <1>8 DEF CreateDispute, Disputable
  <2> HIDE DEF dispute
  <2>2. s \in DOMAIN tasks' /\ tasks'[s] = tasks[s]
    BY <2>1
  <2>3. QED
    BY <2>1, <2>2, KeptByMapSet, KeptUnchanged DEF Untouched
<1>9. ASSUME NEW d \in DisputeId, NEW p \in Party, SubmitReveal(d, p) PROVE Untouched(s)
  <2>1. /\ d \in DOMAIN disputes /\ disputes[d].taskId # s
        /\ DOMAIN disputes' = DOMAIN disputes
        /\ disputes'[d].taskId = disputes[d].taskId
        /\ \A x \in DOMAIN disputes : x # d => disputes'[x] = disputes[x]
        /\ UNCHANGED <<tasks, bids, assignments, receipts>>
    BY <1>0, <1>9 DEF SubmitReveal, Revealable, DisputeRecord
  <2>2. Kept(disputes, disputes', s)
    BY <2>1, KeptByExcept
  <2>3. QED
    BY <2>1, <2>2, KeptUnchanged DEF Untouched
<1>10. CASE UNCHANGED vars
  BY <1>10, KeptUnchanged DEF vars, Untouched
<1>11. QED
  BY <1>1, <1>2, <1>3, <1>5, <1>6, <1>7, <1>8, <1>9, <1>10 DEF Next

(* Once a task is settled no request, however late or often repeated, adds *)
(* or changes any record of it.                                            *)
THEOREM SettlementIsFinal == Spec => SettledIsFinal
<1>1. IInv /\ [Next]_vars =>
        [\A t \in DOMAIN tasks : tasks[t].status = "settled" => RecordsOf(t)' = RecordsOf(t)]_vars
  <2> SUFFICES ASSUME IInv, [Next]_vars, NEW t \in DOMAIN tasks, tasks[t].status = "settled"
               PROVE  RecordsOf(t)' = RecordsOf(t)
    OBVIOUS
  <2>1. Untouched(t)
    BY SettledUntouched
  <2>2. QED
    BY <2>1, UntouchedKeepsRecords
<1>2. QED
  BY <1>1, Inductive, PTL DEF Spec, SettledIsFinal

(* The lives of a task and of its assignment.                              *)
TaskLife ==
  {<<"open", "assigned">>, <<"assigned", "submitted">>,
   <<"submitted", "settled">>, <<"submitted", "disputed">>}

AssignmentLife ==
  {<<"queued", "accepted">>, <<"submitted", "completed">>}
    \cup (ActiveAssignment \X {"submitted"})

LivesGoForward ==
  /\ \A t \in DOMAIN tasks :
       \/ tasks'[t].status = tasks[t].status
       \/ <<tasks[t].status, tasks'[t].status>> \in TaskLife
  /\ \A a \in DOMAIN assignments :
       \/ assignments'[a].status = assignments[a].status
       \/ <<assignments[a].status, assignments'[a].status>> \in AssignmentLife

LEMMA StepGoesForward == ASSUME IInv, [Next]_vars PROVE LivesGoForward
<1>0. /\ tasks \in [DOMAIN tasks -> TaskRecord]
      /\ assignments \in [DOMAIN assignments -> AssignmentRecord]
  BY DEF IInv, TypeOK, MapOf
<1>1. ASSUME NEW t, NEW p, NEW c, NEW e, CreateTask(t, p, c, e) PROVE LivesGoForward
  BY <1>1 DEF CreateTask, MapSet, LivesGoForward
<1>2. ASSUME NEW a, NEW t, NEW b, NEW w, NEW e, CreateAssignment(a, t, b, w, e)
      PROVE  LivesGoForward
  BY <1>0, <1>2
     DEF CreateAssignment, Selectable, MapSet, TaskRecord, LivesGoForward, TaskLife
<1>3. ASSUME NEW a, AcknowledgeAssignment(a) PROVE LivesGoForward
  <2>1. a \in DOMAIN assignments /\ assignments[a].status \in ActiveAssignment
    BY <1>0, <1>3 DEF AcknowledgeAssignment, Acknowledgeable, AssignmentRecord,
                      AssignmentStatus, ActiveAssignment
  <2>2. assignments'[a].status = IF assignments[a].status = "in_progress"
                                 THEN "in_progress" ELSE "accepted"
    BY <1>0, <1>3, <2>1 DEF AcknowledgeAssignment, AssignmentRecord
  <2>3. /\ \A x \in DOMAIN assignments \ {a} : assignments'[x] = assignments[x]
        /\ tasks' = tasks
    BY <1>3 DEF AcknowledgeAssignment
  <2>4. QED
    BY <2>1, <2>2, <2>3 DEF LivesGoForward, AssignmentLife, ActiveAssignment
<1>4. ASSUME NEW a, NEW w, NEW r, NEW c, NEW h, RecordWorkerSubmission(a, w, r, c, h)
      PROVE  LivesGoForward
  <2>1. /\ a \in DOMAIN assignments /\ assignments[a].status \in ActiveAssignment
        /\ r.taskId = assignments[a].taskId
        /\ r.taskId \in DOMAIN tasks /\ tasks[r.taskId].status = "assigned"
    BY <1>4, SubmissionComesFromAssigned
       DEF RecordWorkerSubmission, Submittable, ReceiptMatches
  <2>2. /\ assignments'[a].status = "submitted"
        /\ \A x \in DOMAIN assignments \ {a} : assignments'[x] = assignments[x]
        /\ tasks'[r.taskId].status = "submitted"
        /\ \A x \in DOMAIN tasks \ {r.taskId} : tasks'[x] = tasks[x]
    BY <1>0, <1>4, <2>1 DEF RecordWorkerSubmission, AssignmentRecord, TaskRecord
  <2>3. QED
    BY <2>1, <2>2 DEF LivesGoForward, TaskLife, AssignmentLife
<1>5. ASSUME NEW t, NEW a, AcceptAssignment(t, a) PROVE LivesGoForward
  <2>1. /\ a \in DOMAIN assignments /\ assignments[a].status = "submitted"
        /\ t \in DOMAIN tasks /\ assignments[a].taskId = t
        /\ tasks[t].status \in {"submitted", "disputed"} /\ ActiveDisputes(t, a) = {}
    BY <1>5 DEF AcceptAssignment, Settleable
  <2>2. tasks[t].status = "submitted"
    <3> SUFFICES ASSUME tasks[t].status = "disputed" PROVE FALSE
      BY <2>1
    <3>1. PICK d \in DOMAIN disputes : disputes[d].taskId = t
      BY <2>1 DEF IInv, DisputeFreezesSettlement
    <3>2. disputes[d].assignmentId = a /\ disputes[d].status \in ActiveDispute
      BY <2>1, <3>1
         DEF IInv, DisputeFreezesSettlement, ReferencesResolve, OneAssignmentPerTask
    <3>3. QED
      BY <2>1, <3>1, <3>2 DEF ActiveDisputes
  <2>3. /\ assignments'[a].status = "completed"
        /\ \A x \in DOMAIN assignments \ {a} : assignments'[x] = assignments[x]
        /\ tasks'[t].status = "settled"
        /\ \A x \in DOMAIN tasks \ {t} : tasks'[x] = tasks[x]
    BY <1>0, <1>5, <2>1 DEF AcceptAssignment, AssignmentRecord, TaskRecord
  <2>4. QED
    BY <2>1, <2>2, <2>3 DEF LivesGoForward, TaskLife, AssignmentLife
<1>6. ASSUME NEW d, NEW t, NEW a, NEW p, CreateDispute(d, t, a, p) PROVE LivesGoForward
  BY <1>0, <1>6 DEF CreateDispute, Disputable, TaskRecord, LivesGoForward, TaskLife
<1>7. ASSUME UNCHANGED <<tasks, assignments>> PROVE LivesGoForward
  BY <1>7 DEF LivesGoForward
<1>8. QED
  BY <1>1, <1>2, <1>3, <1>4, <1>5, <1>6, <1>7 DEF Next, vars, CreateBid, SubmitReveal

(* A task goes from open over assigned and submitted to settled or         *)
(* disputed, each but once and none left out, and never back: although a   *)
(* submission overwrites the task's status without reading it              *)
(* (store.ts:366, recordWorkerSubmission), although an acknowledgement may *)
(* arrive late, and although acceptAssignment would take a disputed task.  *)
(* There is no way to cancelled, and none out of a dispute.                *)
THEOREM LivesNeverTurnBack == Spec => [][LivesGoForward]_vars
<1>1. IInv /\ [Next]_vars => [LivesGoForward]_vars
  BY StepGoesForward
<1>2. QED
  BY <1>1, Inductive, PTL DEF Spec

-----------------------------------------------------------------------------
(***************************************************************************)
(* Every task of the store implements the contract's escrow: each step of  *)
(* a handler maps, for each task created through the API, to one of the    *)
(* contract's circuits or to no change of that task's ledger.  A handler   *)
(* touches one task.  For the others the view is unchanged (ViewUnchanged);*)
(* for the one it touches IInv says which phase it was in, and that its    *)
(* assignment and its receipt are the only ones.                           *)
(***************************************************************************)
(* The ledger of task t is a function of its task record, its assignment   *)
(* and its receipt.                                                        *)
LEMMA ViewUnchanged ==
  ASSUME NEW t,
         t \in DOMAIN tasks' <=> t \in DOMAIN tasks,
         t \in DOMAIN tasks =>
           /\ tasks'[t].status = tasks[t].status
           /\ tasks'[t].employerAddress = tasks[t].employerAddress
           /\ tasks'[t].taskCommitment = tasks[t].taskCommitment,
         AssignmentsOf(t)' = AssignmentsOf(t),
         \A a \in AssignmentsOf(t) :
           /\ assignments'[a].workerAddress = assignments[a].workerAddress
           /\ assignments'[a].bidCommitment = assignments[a].bidCommitment,
         ReceiptsOf(t)' = ReceiptsOf(t),
         \A r \in ReceiptsOf(t) : receipts'[r].receiptCommitment = receipts[r].receiptCommitment
  PROVE  UNCHANGED Escrow(t)!vars
<1>1. StatusOf(t)' = StatusOf(t)
  BY DEF StatusOf
<1>2. EscrowPhase(t)' = EscrowPhase(t) /\ EscrowSequence(t)' = EscrowSequence(t)
  BY <1>1 DEF EscrowPhase, EscrowSequence
<1>3. /\ EscrowOwner(t)' = EscrowOwner(t) /\ EscrowTask(t)' = EscrowTask(t)
      /\ EscrowReward(t)' = EscrowReward(t)
  BY DEF EscrowOwner, EscrowTask, EscrowReward
<1>4. EscrowWorker(t)' = EscrowWorker(t) /\ EscrowBid(t)' = EscrowBid(t)
  BY DEF EscrowWorker, EscrowBid, AssignmentOf
<1>5. EscrowReceipt(t)' = EscrowReceipt(t)
  BY DEF EscrowReceipt, ReceiptOf
<1>6. QED
  BY <1>2, <1>3, <1>4, <1>5 DEF Escrow!vars, Escrow!commitments

(* A task has at most one assignment and one receipt, and none before it is*)
(* handed out and delivered.                                               *)
LEMMA OneAssignment ==
  ASSUME IInv, NEW a \in DOMAIN assignments
  PROVE  AssignmentsOf(assignments[a].taskId) = {a}
BY DEF IInv, OneAssignmentPerTask, AssignmentsOf

LEMMA OneReceipt ==
  ASSUME IInv, NEW r \in DOMAIN receipts
  PROVE  ReceiptsOf(receipts[r].taskId) = {r}
<1>1. ASSUME NEW x \in DOMAIN receipts, receipts[x].taskId = receipts[r].taskId
      PROVE  x = r
  <2>1. receipts[x].assignmentId = receipts[r].assignmentId
    BY <1>1 DEF IInv, ReferencesResolve, OneAssignmentPerTask
  <2>2. QED
    BY <2>1 DEF IInv, DeliveryHasOneReceipt
<1>2. QED
  BY <1>1 DEF ReceiptsOf

LEMMA NothingBeforeSelection ==
  ASSUME IInv, NEW t, t \notin DOMAIN tasks \/ tasks[t].status = "open"
  PROVE  AssignmentsOf(t) = {} /\ ReceiptsOf(t) = {}
<1>1. AssignmentsOf(t) = {}
  BY DEF IInv, ReferencesResolve, OneAssignmentPerTask, AssignmentsOf
<1>2. QED
  BY <1>1 DEF IInv, ReferencesResolve, AssignmentsOf, ReceiptsOf

LEMMA NoReceiptBeforeDelivery ==
  ASSUME IInv, NEW t \in DOMAIN tasks, tasks[t].status = "assigned"
  PROVE  ReceiptsOf(t) = {}
<1> SUFFICES ASSUME NEW r \in DOMAIN receipts, receipts[r].taskId = t PROVE FALSE
  BY DEF ReceiptsOf
<1> DEFINE a == receipts[r].assignmentId
<1>1. a \in DOMAIN assignments /\ assignments[a].taskId = t
  BY DEF IInv, ReferencesResolve
<1>2. assignments[a].status \in {"submitted", "completed"}
  BY <1>1 DEF IInv, DeliveryHasOneReceipt
<1>3. QED
  BY <1>1, <1>2 DEF IInv, LifecyclesAgree

-----------------------------------------------------------------------------
LEMMA CreateTaskRefines ==
  ASSUME IInv, NEW s \in TaskId,
         NEW t \in TaskId, NEW p \in Party, NEW c \in Commitment,
         NEW e \in Execution \cup {Undefined}, CreateTask(t, p, c, e)
  PROVE  [Escrow(s)!Next]_(Escrow(s)!vars)
<1>1. /\ t \notin DOMAIN tasks
      /\ DOMAIN tasks' = DOMAIN tasks \cup {t}
      /\ \A x \in DOMAIN tasks : x # t => tasks'[x] = tasks[x]
      /\ tasks'[t].status = "open"
      /\ tasks'[t].employerAddress = p
      /\ tasks'[t].taskCommitment = c
      /\ UNCHANGED <<assignments, receipts>>
  BY DEF CreateTask, MapSet
<1>2. AssignmentsOf(s)' = AssignmentsOf(s) /\ ReceiptsOf(s)' = ReceiptsOf(s)
  BY <1>1 DEF AssignmentsOf, ReceiptsOf
<1>3. CASE s # t
  BY <1>1, <1>2, <1>3, ViewUnchanged
<1>4. CASE s = t
  <2>1. StatusOf(s) = "absent" /\ StatusOf(s)' = "open"
    BY <1>1, <1>4 DEF StatusOf
  <2>2. /\ EscrowPhase(s) = "UNINITIALIZED" /\ EscrowPhase(s)' = "OPEN"
        /\ EscrowSequence(s) = 1 /\ EscrowSequence(s)' = 2
    BY <2>1 DEF EscrowPhase, EscrowSequence
  <2>3. AssignmentsOf(s) = {} /\ ReceiptsOf(s) = {}
    BY <1>1, <1>4, NothingBeforeSelection
  <2>4. /\ EscrowOwner(s)' = <<"nightshift:owner", p>>
        /\ EscrowTask(s)' = c /\ EscrowReward(s)' = c
    BY <1>1, <1>4 DEF EscrowOwner, EscrowTask, EscrowReward
  <2>5. /\ EscrowWorker(s)' = <<"nightshift:none:worker">>
        /\ EscrowBid(s)' = "nightshift:none:bid"
        /\ EscrowReceipt(s)' = <<"nightshift:none:receipt">>
    BY <1>2, <2>3 DEF EscrowWorker, EscrowBid, EscrowReceipt, NoWorker, NoReceipt
  <2>6. Escrow(s)!CreateTask(p, c, c)
    BY <2>2, <2>4, <2>5
       DEF Escrow!CreateTask, Escrow!ClearSelection, Escrow!Increment, Escrow!DeriveOwnerKey,
           Escrow!NoWorker, Escrow!NoBid, Escrow!NoReceipt
  <2>7. QED
    BY <2>6 DEF Escrow!Next, Escrow!AnyTask, Escrow!AnyReward
<1>5. QED
  BY <1>3, <1>4

LEMMA CreateAssignmentRefines ==
  ASSUME IInv, NEW s \in TaskId,
         NEW a \in AssignmentId, NEW t \in TaskId, NEW b \in BidId,
         NEW w \in Party, NEW e \in Party, CreateAssignment(a, t, b, w, e)
  PROVE  [Escrow(s)!Next]_(Escrow(s)!vars)
<1>1. /\ a \notin DOMAIN assignments
      /\ b \in DOMAIN bids
      /\ t \in DOMAIN tasks /\ tasks[t].status = "open" /\ tasks[t].employerAddress = e
      /\ DOMAIN assignments' = DOMAIN assignments \cup {a}
      /\ \A x \in DOMAIN assignments : assignments'[x] = assignments[x]
      /\ assignments'[a].taskId = t
      /\ assignments'[a].workerAddress = w
      /\ assignments'[a].bidCommitment = bids[b].bidCommitment
      /\ UNCHANGED receipts
  BY DEF CreateAssignment, Selectable, MapSet
<1>2. /\ DOMAIN tasks' = DOMAIN tasks
      /\ \A x \in DOMAIN tasks : x # t => tasks'[x] = tasks[x]
      /\ tasks'[t].status = "assigned"
      /\ tasks'[t].employerAddress = tasks[t].employerAddress
      /\ tasks'[t].taskCommitment = tasks[t].taskCommitment
  <2>1. tasks[t] \in TaskRecord
    BY <1>1 DEF IInv, TypeOK, MapOf
  <2>2. tasks' = [tasks EXCEPT ![t].status = "assigned"]
    BY DEF CreateAssignment
  <2>3. QED
    BY <1>1, <2>1, <2>2 DEF TaskRecord
<1>3. ReceiptsOf(s)' = ReceiptsOf(s)
  BY <1>1 DEF ReceiptsOf
<1>4. CASE s # t
  <2>1. AssignmentsOf(s)' = AssignmentsOf(s)
    BY <1>1, <1>4 DEF AssignmentsOf
  <2>2. \A x \in AssignmentsOf(s) : assignments'[x] = assignments[x]
    BY <1>1 DEF AssignmentsOf
  <2>3. QED
    BY <1>1, <1>2, <1>3, <1>4, <2>1, <2>2, ViewUnchanged
<1>5. CASE s = t
  <2>1. StatusOf(s) = "open" /\ StatusOf(s)' = "assigned"
    BY <1>1, <1>2, <1>5 DEF StatusOf
  <2>2. /\ EscrowPhase(s) = "OPEN" /\ EscrowPhase(s)' = "ASSIGNED"
        /\ EscrowSequence(s) = 2 /\ EscrowSequence(s)' = 3
    BY <2>1 DEF EscrowPhase, EscrowSequence
  <2>3. AssignmentsOf(s) = {} /\ ReceiptsOf(s) = {}
    BY <1>1, <1>5, NothingBeforeSelection
  <2>4. AssignmentsOf(s)' = {a}
    BY <1>1, <1>5, <2>3 DEF AssignmentsOf
  <2>5. /\ EscrowWorker(s)' = <<"nightshift:worker", w>>
        /\ EscrowBid(s)' = bids[b].bidCommitment
    BY <1>1, <2>4 DEF EscrowWorker, EscrowBid, AssignmentOf
  <2>6. /\ EscrowOwner(s) = <<"nightshift:owner", e>>
        /\ EscrowOwner(s)' = EscrowOwner(s)
        /\ EscrowTask(s)' = EscrowTask(s) /\ EscrowReward(s)' = EscrowReward(s)
    BY <1>1, <1>2, <1>5 DEF EscrowOwner, EscrowTask, EscrowReward
  <2>7. EscrowReceipt(s)' = <<"nightshift:none:receipt">>
    BY <1>3, <2>3 DEF EscrowReceipt, NoReceipt
  <2>8. Escrow(s)!SelectBid(e, bids[b].bidCommitment, <<"nightshift:worker", w>>)
    BY <2>2, <2>5, <2>6, <2>7
       DEF Escrow!SelectBid, Escrow!AssertOwner, Escrow!Increment, Escrow!DeriveOwnerKey,
           Escrow!NoReceipt
  <2>9. /\ bids[b].bidCommitment \in Commitment
        /\ <<"nightshift:worker", w>> \in Escrow(s)!WorkerKeys
    BY <1>1 DEF IInv, TypeOK, MapOf, BidRecord, Escrow!WorkerKeys, Escrow!DeriveWorkerKey
  <2>10. QED
    BY <2>8, <2>9 DEF Escrow!Next, Escrow!AnyBid, Escrow!AnyKey
<1>6. QED
  BY <1>4, <1>5

(* Moving on the status of an assignment still in work is not a step of    *)
(* the contract: queued, accepted and in progress are all ASSIGNED.        *)
LEMMA AcknowledgeAssignmentRefines ==
  ASSUME IInv, NEW s \in TaskId, NEW a \in AssignmentId, AcknowledgeAssignment(a)
  PROVE  UNCHANGED Escrow(s)!vars
<1>1. /\ a \in DOMAIN assignments
      /\ UNCHANGED <<tasks, receipts>>
      /\ DOMAIN assignments' = DOMAIN assignments
      /\ \A x \in DOMAIN assignments : x # a => assignments'[x] = assignments[x]
  BY DEF AcknowledgeAssignment, Acknowledgeable
<1>2. /\ assignments'[a].taskId = assignments[a].taskId
      /\ assignments'[a].workerAddress = assignments[a].workerAddress
      /\ assignments'[a].bidCommitment = assignments[a].bidCommitment
  <2>1. assignments[a] \in AssignmentRecord
    BY <1>1 DEF IInv, TypeOK, MapOf
  <2>2. PICK status \in {"in_progress", "accepted"} :
             assignments' = [assignments EXCEPT ![a].status = status]
    BY DEF AcknowledgeAssignment
  <2>3. QED
    BY <1>1, <2>1, <2>2 DEF AssignmentRecord
<1>3. AssignmentsOf(s)' = AssignmentsOf(s) /\ ReceiptsOf(s)' = ReceiptsOf(s)
  BY <1>1, <1>2 DEF AssignmentsOf, ReceiptsOf
<1>4. \A x \in AssignmentsOf(s) :
        /\ assignments'[x].workerAddress = assignments[x].workerAddress
        /\ assignments'[x].bidCommitment = assignments[x].bidCommitment
  BY <1>1, <1>2 DEF AssignmentsOf
<1>5. QED
  BY <1>1, <1>3, <1>4, ViewUnchanged

(* What the two handlers that change an assignment's and a task's status   *)
(* leave alone.                                                            *)
LEMMA StatusWrites ==
  ASSUME IInv, NEW s, NEW a \in DOMAIN assignments, NEW t \in DOMAIN tasks,
         NEW aStatus, NEW tStatus,
         assignments' = [assignments EXCEPT ![a].status = aStatus],
         tasks' = [tasks EXCEPT ![t].status = tStatus]
  PROVE  /\ DOMAIN tasks' = DOMAIN tasks
         /\ \A x \in DOMAIN tasks : x # t => tasks'[x] = tasks[x]
         /\ tasks'[t].status = tStatus
         /\ tasks'[t].employerAddress = tasks[t].employerAddress
         /\ tasks'[t].taskCommitment = tasks[t].taskCommitment
         /\ AssignmentsOf(s)' = AssignmentsOf(s)
         /\ \A x \in DOMAIN assignments :
              /\ assignments'[x].workerAddress = assignments[x].workerAddress
              /\ assignments'[x].bidCommitment = assignments[x].bidCommitment
<1>1. tasks[t] \in TaskRecord
  BY DEF IInv, TypeOK, MapOf
<1>2. assignments[a] \in AssignmentRecord
  BY DEF IInv, TypeOK, MapOf
<1>3. /\ DOMAIN assignments' = DOMAIN assignments
      /\ \A x \in DOMAIN assignments :
           /\ assignments'[x].taskId = assignments[x].taskId
           /\ assignments'[x].workerAddress = assignments[x].workerAddress
           /\ assignments'[x].bidCommitment = assignments[x].bidCommitment
  BY <1>2 DEF AssignmentRecord
<1>4. AssignmentsOf(s)' = AssignmentsOf(s)
  BY <1>3 DEF AssignmentsOf
<1>5. /\ DOMAIN tasks' = DOMAIN tasks
      /\ \A x \in DOMAIN tasks : x # t => tasks'[x] = tasks[x]
      /\ tasks'[t].status = tStatus
      /\ tasks'[t].employerAddress = tasks[t].employerAddress
      /\ tasks'[t].taskCommitment = tasks[t].taskCommitment
  BY <1>1 DEF TaskRecord
<1>6. QED
  BY <1>3, <1>4, <1>5

LEMMA RecordWorkerSubmissionRefines ==
  ASSUME IInv, NEW s \in TaskId,
         NEW a \in AssignmentId, NEW w \in Party, NEW receipt \in ExecutionReceipt,
         NEW c \in Content, NEW h, RecordWorkerSubmission(a, w, receipt, c, h)
  PROVE  [Escrow(s)!Next]_(Escrow(s)!vars)
<1> DEFINE t == assignments[a].taskId
<1> DEFINE id == receipt.receiptId
<1>1. /\ a \in DOMAIN assignments
      /\ assignments[a].status \notin {"submitted", "completed", "cancelled"}
      /\ assignments[a].workerAddress = w
      /\ receipt.taskId = t
      /\ id \notin DOMAIN receipts
      /\ h = CommitReceipt(id, receipt)
      /\ DOMAIN receipts' = DOMAIN receipts \cup {id}
      /\ \A x \in DOMAIN receipts : x # id => receipts'[x] = receipts[x]
      /\ receipts'[id].taskId = t
      /\ receipts'[id].receiptCommitment = h
      /\ assignments' = [assignments EXCEPT ![a].status = "submitted"]
  BY DEF RecordWorkerSubmission, Submittable, ReceiptMatches, ReceiptVerifies, MapSet
<1>2. t \in DOMAIN tasks /\ tasks[t].status = "assigned"
  BY <1>1, SubmissionComesFromAssigned
<1>3. tasks' = [tasks EXCEPT ![t].status = "submitted"]
  BY <1>1, <1>2 DEF RecordWorkerSubmission
<1> HIDE DEF t, id
<1>4. /\ DOMAIN tasks' = DOMAIN tasks
      /\ \A x \in DOMAIN tasks : x # t => tasks'[x] = tasks[x]
      /\ tasks'[t].status = "submitted"
      /\ tasks'[t].employerAddress = tasks[t].employerAddress
      /\ tasks'[t].taskCommitment = tasks[t].taskCommitment
      /\ AssignmentsOf(s)' = AssignmentsOf(s)
      /\ \A x \in DOMAIN assignments :
           /\ assignments'[x].workerAddress = assignments[x].workerAddress
           /\ assignments'[x].bidCommitment = assignments[x].bidCommitment
  BY <1>1, <1>2, <1>3, StatusWrites
<1>5. CASE s # t
  <2>1. ReceiptsOf(s)' = ReceiptsOf(s)
    BY <1>1, <1>5 DEF ReceiptsOf
  <2>2. \A r \in ReceiptsOf(s) : receipts'[r] = receipts[r]
    BY <1>1 DEF ReceiptsOf
  <2>3. QED
    BY <1>4, <1>5, <2>1, <2>2, ViewUnchanged DEF AssignmentsOf
<1>6. CASE s = t
  <2>1. StatusOf(s) = "assigned" /\ StatusOf(s)' = "submitted"
    BY <1>2, <1>4, <1>6 DEF StatusOf
  <2>2. /\ EscrowPhase(s) = "ASSIGNED" /\ EscrowPhase(s)' = "SUBMITTED"
        /\ EscrowSequence(s) = 3 /\ EscrowSequence(s)' = 4
    BY <2>1 DEF EscrowPhase, EscrowSequence
  <2>3. AssignmentsOf(s) = {a}
    BY <1>1, <1>6, OneAssignment DEF t
  <2>4. /\ EscrowWorker(s) = <<"nightshift:worker", w>>
        /\ EscrowWorker(s)' = EscrowWorker(s) /\ EscrowBid(s)' = EscrowBid(s)
    BY <1>1, <1>4, <2>3 DEF EscrowWorker, EscrowBid, AssignmentOf
  <2>5. /\ EscrowOwner(s)' = EscrowOwner(s) /\ EscrowTask(s)' = EscrowTask(s)
        /\ EscrowReward(s)' = EscrowReward(s)
    BY <1>4, <1>6 DEF EscrowOwner, EscrowTask, EscrowReward
  <2>6. ReceiptsOf(s)' = {id}
    <3>1. ReceiptsOf(s) = {}
      BY <1>2, <1>6, NoReceiptBeforeDelivery
    <3>2. QED
      BY <1>1, <1>6, <3>1 DEF ReceiptsOf
  <2>7. EscrowReceipt(s)' = h
    BY <1>1, <2>6 DEF EscrowReceipt, ReceiptOf
  <2>8. Escrow(s)!SubmitReceipt(w, h)
    BY <2>2, <2>4, <2>5, <2>7
       DEF Escrow!SubmitReceipt, Escrow!AssertSelectedWorker, Escrow!Increment,
           Escrow!DeriveWorkerKey
  <2>9. h \in ReceiptHash
    BY <1>1 DEF ReceiptHash, id
  <2>10. QED
    BY <2>8, <2>9 DEF Escrow!Next, Escrow!AnyReceipt
<1>7. QED
  BY <1>5, <1>6

(* A task whose settlement the store accepts is never DISPUTED: a dispute  *)
(* on record would be an active one.                                       *)
LEMMA AcceptAssignmentRefines ==
  ASSUME IInv, NEW s \in TaskId, NEW t \in TaskId, NEW a \in AssignmentId,
         AcceptAssignment(t, a)
  PROVE  [Escrow(s)!Next]_(Escrow(s)!vars)
<1>1. /\ a \in DOMAIN assignments
      /\ assignments[a].taskId = t
      /\ assignments[a].status = "submitted"
      /\ ActiveDisputes(t, a) = {}
      /\ t \in DOMAIN tasks
      /\ tasks[t].status \in {"submitted", "disputed"}
      /\ assignments' = [assignments EXCEPT ![a].status = "completed"]
      /\ tasks' = [tasks EXCEPT ![t].status = "settled"]
      /\ UNCHANGED receipts
  BY DEF AcceptAssignment, Settleable
<1>2. tasks[t].status = "submitted"
  <2> SUFFICES ASSUME tasks[t].status = "disputed" PROVE FALSE
    BY <1>1
  <2>1. PICK d \in DOMAIN disputes : disputes[d].taskId = t
    BY <1>1 DEF IInv, DisputeFreezesSettlement
  <2>2. disputes[d].assignmentId = a /\ disputes[d].status \in ActiveDispute
    BY <1>1, <2>1 DEF IInv, DisputeFreezesSettlement, ReferencesResolve, OneAssignmentPerTask
  <2>3. QED
    BY <1>1, <2>1, <2>2 DEF ActiveDisputes
<1>3. /\ DOMAIN tasks' = DOMAIN tasks
      /\ \A x \in DOMAIN tasks : x # t => tasks'[x] = tasks[x]
      /\ tasks'[t].status = "settled"
      /\ tasks'[t].employerAddress = tasks[t].employerAddress
      /\ tasks'[t].taskCommitment = tasks[t].taskCommitment
      /\ AssignmentsOf(s)' = AssignmentsOf(s)
      /\ \A x \in DOMAIN assignments :
           /\ assignments'[x].workerAddress = assignments[x].workerAddress
           /\ assignments'[x].bidCommitment = assignments[x].bidCommitment
  <2>1. /\ a \in DOMAIN assignments /\ t \in DOMAIN tasks
        /\ assignments' = [assignments EXCEPT ![a].status = "completed"]
        /\ tasks' = [tasks EXCEPT ![t].status = "settled"]
    BY <1>1
  <2>2. QED
    BY <2>1, StatusWrites
<1>4. ReceiptsOf(s)' = ReceiptsOf(s)
  BY <1>1 DEF ReceiptsOf
<1>5. CASE s # t
  BY <1>1, <1>3, <1>4, <1>5, ViewUnchanged DEF AssignmentsOf
<1>6. CASE s = t
  <2>1. StatusOf(s) = "submitted" /\ StatusOf(s)' = "settled"
    BY <1>1, <1>2, <1>3, <1>6 DEF StatusOf
  <2>2. /\ EscrowPhase(s) = "SUBMITTED" /\ EscrowPhase(s)' = "SETTLED"
        /\ EscrowSequence(s) = 4 /\ EscrowSequence(s)' = 5
    BY <2>1 DEF EscrowPhase, EscrowSequence
  <2>3. /\ EscrowOwner(s) = <<"nightshift:owner", tasks[t].employerAddress>>
        /\ EscrowOwner(s)' = EscrowOwner(s) /\ EscrowTask(s)' = EscrowTask(s)
        /\ EscrowReward(s)' = EscrowReward(s)
    BY <1>1, <1>3, <1>6 DEF EscrowOwner, EscrowTask, EscrowReward
  <2>4. AssignmentsOf(s) = {a}
    BY <1>1, <1>6, OneAssignment
  <2>5. EscrowWorker(s)' = EscrowWorker(s) /\ EscrowBid(s)' = EscrowBid(s)
    BY <1>1, <1>3, <2>4 DEF EscrowWorker, EscrowBid, AssignmentOf
  <2>6. EscrowReceipt(s)' = EscrowReceipt(s)
    BY <1>1, <1>4 DEF EscrowReceipt, ReceiptOf
  <2>7. Escrow(s)!AcceptReceiptAndSettle(tasks[t].employerAddress)
    BY <2>2, <2>3, <2>5, <2>6
       DEF Escrow!AcceptReceiptAndSettle, Escrow!AssertOwner, Escrow!Increment,
           Escrow!DeriveOwnerKey, Escrow!commitments
  <2>8. tasks[t].employerAddress \in Party
    BY <1>1 DEF IInv, TypeOK, MapOf, TaskRecord
  <2>9. QED
    BY <2>7, <2>8 DEF Escrow!Next
<1>7. QED
  BY <1>5, <1>6

LEMMA CreateDisputeRefines ==
  ASSUME IInv, NEW s \in TaskId,
         NEW d \in DisputeId, NEW t \in TaskId, NEW a \in AssignmentId, NEW p \in Party,
         CreateDispute(d, t, a, p)
  PROVE  [Escrow(s)!Next]_(Escrow(s)!vars)
<1>1. /\ a \in DOMAIN assignments
      /\ assignments[a].taskId = t
      /\ t \in DOMAIN tasks
      /\ tasks[t].status = "submitted"
      /\ p \in {assignments[a].employerAddress, assignments[a].workerAddress}
      /\ UNCHANGED <<assignments, receipts>>
  BY DEF CreateDispute, Disputable, IsParty
<1>2. /\ DOMAIN tasks' = DOMAIN tasks
      /\ \A x \in DOMAIN tasks : x # t => tasks'[x] = tasks[x]
      /\ tasks'[t].status = "disputed"
      /\ tasks'[t].employerAddress = tasks[t].employerAddress
      /\ tasks'[t].taskCommitment = tasks[t].taskCommitment
  <2>1. tasks[t] \in TaskRecord
    BY <1>1 DEF IInv, TypeOK, MapOf
  <2>2. tasks' = [tasks EXCEPT ![t].status = "disputed"]
    BY DEF CreateDispute
  <2>3. QED
    BY <1>1, <2>1, <2>2 DEF TaskRecord
<1>3. AssignmentsOf(s)' = AssignmentsOf(s) /\ ReceiptsOf(s)' = ReceiptsOf(s)
  BY <1>1 DEF AssignmentsOf, ReceiptsOf
<1>4. CASE s # t
  BY <1>1, <1>2, <1>3, <1>4, ViewUnchanged
<1>5. CASE s = t
  <2>1. StatusOf(s) = "submitted" /\ StatusOf(s)' = "disputed"
    BY <1>1, <1>2, <1>5 DEF StatusOf
  <2>2. /\ EscrowPhase(s) = "SUBMITTED" /\ EscrowPhase(s)' = "DISPUTED"
        /\ EscrowSequence(s) = 4 /\ EscrowSequence(s)' = 5
    BY <2>1 DEF EscrowPhase, EscrowSequence
  <2>3. /\ EscrowOwner(s) = <<"nightshift:owner", tasks[t].employerAddress>>
        /\ EscrowOwner(s)' = EscrowOwner(s) /\ EscrowTask(s)' = EscrowTask(s)
        /\ EscrowReward(s)' = EscrowReward(s)
    BY <1>1, <1>2, <1>5 DEF EscrowOwner, EscrowTask, EscrowReward
  <2>4. AssignmentsOf(s) = {a}
    BY <1>1, <1>5, OneAssignment
  <2>5. /\ EscrowWorker(s) = <<"nightshift:worker", assignments[a].workerAddress>>
        /\ EscrowWorker(s)' = EscrowWorker(s) /\ EscrowBid(s)' = EscrowBid(s)
    BY <1>1, <1>3, <2>4 DEF EscrowWorker, EscrowBid, AssignmentOf
  <2>6. EscrowReceipt(s)' = EscrowReceipt(s)
    BY <1>1, <1>3 DEF EscrowReceipt, ReceiptOf
  <2>7. tasks[t].employerAddress = assignments[a].employerAddress
    BY <1>1 DEF IInv, SelectedBidIsAssigned
  <2>8. Escrow(s)!RaiseDispute(p)
    BY <1>1, <2>2, <2>3, <2>5, <2>6, <2>7
       DEF Escrow!RaiseDispute, Escrow!AssertOwner, Escrow!AssertSelectedWorker,
           Escrow!Increment, Escrow!DeriveOwnerKey, Escrow!DeriveWorkerKey, Escrow!commitments
  <2>9. QED
    BY <2>8 DEF Escrow!Next
<1>6. QED
  BY <1>4, <1>5

-----------------------------------------------------------------------------
LEMMA InitRefines ==
  ASSUME Init, NEW s \in FreshTaskId
  PROVE  Escrow(s)!Init
<1>1. /\ s \notin DOMAIN tasks
      /\ AssignmentsOf(s) = {}
      /\ ReceiptsOf(s) = {}
  <2>1. CASE SeedInitialData
    <3>1. s \notin SeedTaskIds
      BY <2>1 DEF FreshTaskId
    <3>2. /\ tasks = SeedTasks /\ assignments = SeedAssignments /\ receipts = SeedReceipts
      BY <2>1 DEF Init
    <3>3. DOMAIN tasks = SeedTaskIds
      BY <3>2 DEF SeedTasks
    <3>4. \A a \in DOMAIN assignments : assignments[a].taskId \in SeedTaskIds
      BY <3>2 DEF SeedAssignments, SeedAssignmentIds, SeedTaskIds
    <3>5. \A r \in DOMAIN receipts : receipts[r].taskId \in SeedTaskIds
      BY <3>2 DEF SeedReceipts, SeedTaskIds
    <3>6. QED
      BY <3>1, <3>3, <3>4, <3>5 DEF AssignmentsOf, ReceiptsOf
  <2>2. CASE ~SeedInitialData
    BY <2>2 DEF Init, EmptyMap, AssignmentsOf, ReceiptsOf
  <2>3. QED
    BY <2>1, <2>2
<1>2. StatusOf(s) = "absent"
  BY <1>1 DEF StatusOf
<1>3. EscrowPhase(s) = "UNINITIALIZED" /\ EscrowSequence(s) = 1
  BY <1>2 DEF EscrowPhase, EscrowSequence
<1>4. QED
  BY <1>1, <1>3
     DEF Escrow!Init, EscrowOwner, EscrowWorker, EscrowTask, EscrowReward, EscrowBid,
         EscrowReceipt, NoOwner, NoWorker, NoReceipt, Escrow!NoOwner, Escrow!NoWorker,
         Escrow!NoTask, Escrow!NoReward, Escrow!NoBid, Escrow!NoReceipt

LEMMA StepRefines ==
  ASSUME IInv, [Next]_vars, NEW s \in TaskId
  PROVE  [Escrow(s)!Next]_(Escrow(s)!vars)
<1>1. ASSUME NEW t \in TaskId, NEW p \in Party, NEW c \in Commitment,
             NEW e \in Execution \cup {Undefined}, CreateTask(t, p, c, e)
      PROVE  [Escrow(s)!Next]_(Escrow(s)!vars)
  BY <1>1, CreateTaskRefines
<1>2. ASSUME NEW b \in BidId, NEW t \in TaskId, NEW p \in Party, NEW c \in Commitment,
             NEW o \in Offer \cup {Undefined}, CreateBid(b, t, p, c, o)
      PROVE  UNCHANGED Escrow(s)!vars
  BY <1>2, ViewUnchanged DEF CreateBid, AssignmentsOf, ReceiptsOf
<1>3. ASSUME NEW a \in AssignmentId, NEW t \in TaskId, NEW b \in BidId,
             NEW w \in Party, NEW e \in Party, CreateAssignment(a, t, b, w, e)
      PROVE  [Escrow(s)!Next]_(Escrow(s)!vars)
  BY <1>3, CreateAssignmentRefines
<1>4. ASSUME NEW a \in AssignmentId, AcknowledgeAssignment(a)
      PROVE  UNCHANGED Escrow(s)!vars
  BY <1>4, AcknowledgeAssignmentRefines
<1>5. ASSUME NEW a \in AssignmentId, NEW w \in Party, NEW r \in ExecutionReceipt,
             NEW c \in Content, NEW h, RecordWorkerSubmission(a, w, r, c, h)
      PROVE  [Escrow(s)!Next]_(Escrow(s)!vars)
  BY <1>5, RecordWorkerSubmissionRefines
<1>6. ASSUME NEW t \in TaskId, NEW a \in AssignmentId, AcceptAssignment(t, a)
      PROVE  [Escrow(s)!Next]_(Escrow(s)!vars)
  BY <1>6, AcceptAssignmentRefines
<1>7. ASSUME NEW d \in DisputeId, NEW t \in TaskId, NEW a \in AssignmentId, NEW p \in Party,
             CreateDispute(d, t, a, p)
      PROVE  [Escrow(s)!Next]_(Escrow(s)!vars)
  BY <1>7, CreateDisputeRefines
<1>8. ASSUME NEW d \in DisputeId, NEW p \in Party, SubmitReveal(d, p)
      PROVE  UNCHANGED Escrow(s)!vars
  BY <1>8, ViewUnchanged DEF SubmitReveal, AssignmentsOf, ReceiptsOf
<1>9. CASE UNCHANGED vars
  BY <1>9, ViewUnchanged DEF vars, AssignmentsOf, ReceiptsOf
<1>10. QED
  BY <1>1, <1>2, <1>3, <1>4, <1>5, <1>6, <1>7, <1>8, <1>9 DEF Next

(* A step that changes a task's status takes it one on in the escrow's     *)
(* sequence: no status is ever taken on a second time.                     *)
LEMMA StatusMovesOn ==
  ASSUME IInv, [Next]_vars, NEW t \in TaskId
  PROVE  StatusOf(t)' = StatusOf(t) \/ EscrowSequence(t)' = EscrowSequence(t) + 1
<1>1. [Escrow(t)!Next]_(Escrow(t)!vars)
  BY StepRefines
<1>2. CASE Escrow(t)!Next
  BY <1>2 DEF Escrow!Next, Escrow!CreateTask, Escrow!SelectBid, Escrow!SubmitReceipt,
              Escrow!AcceptReceiptAndSettle, Escrow!RaiseDispute, Escrow!CancelOpenTask,
              Escrow!Increment
<1>3. CASE UNCHANGED Escrow(t)!vars
  <2>1. EscrowPhase(t)' = EscrowPhase(t)
    BY <1>3 DEF Escrow!vars
  <2>2. IInv'
    BY NextPreserves
  <2>3. /\ StatusOf(t) \in TaskStatus \cup {"absent"}
        /\ StatusOf(t)' \in TaskStatus \cup {"absent"}
    BY <2>2 DEF IInv, TypeOK, MapOf, TaskRecord, StatusOf
  <2>4. QED
    BY <2>1, <2>3 DEF EscrowPhase, TaskStatus
<1>4. QED
  BY <1>1, <1>2, <1>3

(* Every task created through the API lives the contract's life, with the  *)
(* same parties and commitments, for every number of tasks and clients.    *)
THEOREM StoreImplementsEscrow == Spec => ImplementsEscrow
<1>1. Init => \A t \in FreshTaskId : Escrow(t)!Init
  BY InitRefines
<1>2. IInv /\ [Next]_vars =>
        [\A t \in FreshTaskId : [Escrow(t)!Next]_(Escrow(t)!vars)]_vars
  <2>1. FreshTaskId \subseteq TaskId
    BY DEF FreshTaskId
  <2>2. QED
    BY <2>1, StepRefines
<1>3. QED
  BY <1>1, <1>2, Inductive, PTL DEF Spec, ImplementsEscrow

-----------------------------------------------------------------------------
(* What is shown of a task (TaskViews) agrees with its escrow.             *)

(* An input is a pair, and a label tells the inputs apart.                 *)
LEMMA LabelledPairs ==
  ASSUME NEW label, NEW Values, NEW i \in Labelled(label, Values)
  PROVE  i = <<i[1], i[2]>>
BY DEF Labelled

LEMMA InputsMember ==
  ASSUME NEW t, NEW label, NEW value
  PROVE  value \in Inputs(t, label) <=> <<label, value>> \in PublicInputs(t)
<1>1. \A i \in PublicInputs(t) : i = <<i[1], i[2]>>
  BY LabelledPairs DEF PublicInputs
<1>2. ASSUME value \in Inputs(t, label) PROVE <<label, value>> \in PublicInputs(t)
  <2>1. PICK i \in PublicInputs(t) : i[1] = label /\ i[2] = value
    BY <1>2 DEF Inputs
  <2>2. QED
    BY <1>1, <2>1
<1>3. ASSUME <<label, value>> \in PublicInputs(t) PROVE value \in Inputs(t, label)
  <2>1. <<label, value>>[1] = label /\ <<label, value>>[2] = value
    OBVIOUS
  <2>2. QED
    BY <1>3, <2>1 DEF Inputs
<1>4. QED
  BY <1>2, <1>3

(* What each label stands for.                                             *)
LEMMA InputsByLabel ==
  ASSUME NEW t
  PROVE  /\ Inputs(t, "taskCommitment") = {tasks[t].taskCommitment}
         /\ Inputs(t, "bidCommitment") = {bids[b].bidCommitment : b \in SelectedBidsOf(t)}
         /\ Inputs(t, "assignmentId") = UnfinishedOf(t)
         /\ Inputs(t, "receiptCommitment") = {receipts[r].receiptCommitment : r \in ReceiptsOf(t)}
         /\ Inputs(t, "disputeId") = OpenDisputesOf(t)
<1>1. Inputs(t, "taskCommitment") = {tasks[t].taskCommitment}
  <2>1. ASSUME NEW value
        PROVE  <<"taskCommitment", value>> \in PublicInputs(t) <=> value \in {tasks[t].taskCommitment}
    BY DEF Labelled, PublicInputs
  <2>2. ASSUME NEW value
        PROVE  value \in Inputs(t, "taskCommitment") <=> value \in {tasks[t].taskCommitment}
    BY <2>1, InputsMember, Zenon
  <2>3. QED
    BY <2>2, Zenon
<1>2. Inputs(t, "bidCommitment") = {bids[b].bidCommitment : b \in SelectedBidsOf(t)}
  <2>1. ASSUME NEW value
        PROVE  <<"bidCommitment", value>> \in PublicInputs(t) <=> value \in {bids[b].bidCommitment : b \in SelectedBidsOf(t)}
    BY DEF Labelled, PublicInputs
  <2>2. ASSUME NEW value
        PROVE  value \in Inputs(t, "bidCommitment") <=> value \in {bids[b].bidCommitment : b \in SelectedBidsOf(t)}
    BY <2>1, InputsMember, Zenon
  <2>3. QED
    BY <2>2, Zenon
<1>3. Inputs(t, "assignmentId") = UnfinishedOf(t)
  <2>1. ASSUME NEW value
        PROVE  <<"assignmentId", value>> \in PublicInputs(t) <=> value \in UnfinishedOf(t)
    BY DEF Labelled, PublicInputs
  <2>2. ASSUME NEW value
        PROVE  value \in Inputs(t, "assignmentId") <=> value \in UnfinishedOf(t)
    BY <2>1, InputsMember, Zenon
  <2>3. QED
    BY <2>2, Zenon
<1>4. Inputs(t, "receiptCommitment") = {receipts[r].receiptCommitment : r \in ReceiptsOf(t)}
  <2>1. ASSUME NEW value
        PROVE  <<"receiptCommitment", value>> \in PublicInputs(t) <=> value \in {receipts[r].receiptCommitment : r \in ReceiptsOf(t)}
    BY DEF Labelled, PublicInputs
  <2>2. ASSUME NEW value
        PROVE  value \in Inputs(t, "receiptCommitment") <=> value \in {receipts[r].receiptCommitment : r \in ReceiptsOf(t)}
    BY <2>1, InputsMember, Zenon
  <2>3. QED
    BY <2>2, Zenon
<1>5. Inputs(t, "disputeId") = OpenDisputesOf(t)
  <2>1. ASSUME NEW value
        PROVE  <<"disputeId", value>> \in PublicInputs(t) <=> value \in OpenDisputesOf(t)
    BY DEF Labelled, PublicInputs
  <2>2. ASSUME NEW value
        PROVE  value \in Inputs(t, "disputeId") <=> value \in OpenDisputesOf(t)
    BY <2>1, InputsMember, Zenon
  <2>3. QED
    BY <2>2, Zenon
<1>6. QED
  BY <1>1, <1>2, <1>3, <1>4, <1>5

(* The bid on show is the one the task's assignment was made from.         *)
LEMMA SelectedBids ==
  ASSUME IInv, NEW t \in DOMAIN tasks
  PROVE  /\ AssignmentsOf(t) = {} => SelectedBidsOf(t) = {}
         /\ \A a \in AssignmentsOf(t) : SelectedBidsOf(t) = {assignments[a].bidId}
<1>1. \A a \in DOMAIN assignments :
        /\ assignments[a].bidId \in DOMAIN bids
        /\ bids[assignments[a].bidId].taskId = assignments[a].taskId
  BY DEF IInv, ReferencesResolve, SelectedBidIsAssigned
<1>2. \A b \in BidsOf(t) : bids[b].status = "selected" <=>
        \E a \in AssignmentsOf(t) : assignments[a].bidId = b
  BY <1>1 DEF IInv, SelectedBidIsAssigned, BidsOf, AssignmentsOf
<1>3. CASE AssignmentsOf(t) = {}
  BY <1>2, <1>3 DEF SelectedBidsOf, UnfinishedOf
<1>4. ASSUME NEW a \in AssignmentsOf(t)
      PROVE  SelectedBidsOf(t) = {assignments[a].bidId}
  <2>1. AssignmentsOf(t) = {a}
    BY <1>4, OneAssignment DEF AssignmentsOf
  <2>2. assignments[a].bidId \in BidsOf(t)
    BY <1>1, <1>4 DEF AssignmentsOf, BidsOf
  <2>3. {b \in BidsOf(t) : bids[b].status = "selected"} = {assignments[a].bidId}
    BY <1>2, <2>1, <2>2
  <2>4. UnfinishedOf(t) = {} \/ UnfinishedOf(t) = {a}
    BY <2>1 DEF UnfinishedOf
  <2>5. QED
    BY <2>2, <2>3, <2>4 DEF SelectedBidsOf
<1>5. QED
  BY <1>3, <1>4

LEMMA ProjectionFollows == IInv => ProjectionTracksEscrow
<1> SUFFICES ASSUME IInv, NEW t \in DOMAIN tasks
    PROVE  /\ Inputs(t, "taskCommitment") = {EscrowTask(t)}
           /\ Inputs(t, "bidCommitment") = Held(EscrowBid(t), "nightshift:none:bid")
           /\ Inputs(t, "receiptCommitment") = Held(EscrowReceipt(t), NoReceipt)
           /\ Inputs(t, "disputeId") # {} <=> EscrowPhase(t) = "DISPUTED"
           /\ Inputs(t, "assignmentId") # {} <=>
                EscrowPhase(t) \in {"ASSIGNED", "SUBMITTED", "DISPUTED"}
  BY DEF ProjectionTracksEscrow
<1>1. Inputs(t, "taskCommitment") = {EscrowTask(t)}
  BY InputsByLabel DEF EscrowTask
<1>2. Inputs(t, "bidCommitment") = Held(EscrowBid(t), "nightshift:none:bid")
  <2>1. CASE AssignmentsOf(t) = {}
    BY <2>1, SelectedBids, InputsByLabel DEF EscrowBid, Held
  <2>2. ASSUME NEW a \in AssignmentsOf(t)
        PROVE  Inputs(t, "bidCommitment") = Held(EscrowBid(t), "nightshift:none:bid")
    <3>1. AssignmentsOf(t) = {a} /\ a \in DOMAIN assignments
      BY <2>2, OneAssignment DEF AssignmentsOf
    <3>2. EscrowBid(t) = assignments[a].bidCommitment
      BY <3>1 DEF EscrowBid, AssignmentOf
    <3>3. assignments[a].bidCommitment \in Commitment
      BY <3>1 DEF IInv, TypeOK, MapOf, AssignmentRecord
    <3>4. bids[assignments[a].bidId].bidCommitment = assignments[a].bidCommitment
      BY <3>1 DEF IInv, SelectedBidIsAssigned
    <3>5. Inputs(t, "bidCommitment") = {assignments[a].bidCommitment}
      BY <2>2, <3>4, SelectedBids, InputsByLabel
    <3>6. QED
      BY <3>2, <3>3, <3>5, ViewsAssumption DEF Held
  <2>3. QED
    BY <2>1, <2>2
<1>3. Inputs(t, "receiptCommitment") = Held(EscrowReceipt(t), NoReceipt)
  <2>1. CASE ReceiptsOf(t) = {}
    BY <2>1, InputsByLabel DEF EscrowReceipt, Held
  <2>2. ASSUME NEW r \in ReceiptsOf(t)
        PROVE  Inputs(t, "receiptCommitment") = Held(EscrowReceipt(t), NoReceipt)
    <3>1. ReceiptsOf(t) = {r} /\ r \in DOMAIN receipts
      BY <2>2, OneReceipt DEF ReceiptsOf
    <3>2. EscrowReceipt(t) = receipts[r].receiptCommitment
      BY <3>1 DEF EscrowReceipt, ReceiptOf
    <3>3. receipts[r].receiptCommitment \in ReceiptHash
      BY <3>1 DEF IInv, TypeOK, MapOf, ReceiptRecord
    <3>4. receipts[r].receiptCommitment # NoReceipt
      BY <3>3 DEF ReceiptHash, CommitReceipt, HashCanonicalJson, SeedReceiptCommitment, NoReceipt
    <3>5. QED
      BY <3>1, <3>2, <3>4, InputsByLabel DEF Held
  <2>3. QED
    BY <2>1, <2>2
<1>4. tasks[t].status \in TaskStatus
  BY DEF IInv, TypeOK, MapOf, TaskRecord
<1>5. Inputs(t, "disputeId") # {} <=> tasks[t].status = "disputed"
  BY InputsByLabel DEF OpenDisputesOf, DisputesOf, IInv, DisputeFreezesSettlement
<1>6. Inputs(t, "assignmentId") # {} <=> tasks[t].status \in {"assigned", "submitted", "disputed"}
  <2>1. CASE AssignmentsOf(t) = {}
    <3>1. tasks[t].status = "open"
      BY <2>1 DEF IInv, OneAssignmentPerTask, AssignmentsOf
    <3>2. QED
      BY <2>1, <3>1, InputsByLabel DEF UnfinishedOf
  <2>2. ASSUME NEW a \in AssignmentsOf(t)
        PROVE  UnfinishedOf(t) # {} <=> tasks[t].status \in {"assigned", "submitted", "disputed"}
    <3>1. AssignmentsOf(t) = {a} /\ a \in DOMAIN assignments /\ assignments[a].taskId = t
      BY <2>2, OneAssignment DEF AssignmentsOf
    <3>2. assignments[a].status \in AssignmentStatus
      BY <3>1 DEF IInv, TypeOK, MapOf, AssignmentRecord
    <3>3. assignments[a].status \notin {"completed", "cancelled"} <=>
            tasks[t].status \in {"assigned", "submitted", "disputed"}
      BY <3>1, <3>2 DEF IInv, LifecyclesAgree, AssignmentStatus, ActiveAssignment
    <3>4. QED
      BY <3>1, <3>3 DEF UnfinishedOf
  <2>3. QED
    BY <2>1, <2>2, InputsByLabel
<1>7. /\ EscrowPhase(t) = "DISPUTED" <=> tasks[t].status = "disputed"
      /\ EscrowPhase(t) \in {"ASSIGNED", "SUBMITTED", "DISPUTED"} <=>
           tasks[t].status \in {"assigned", "submitted", "disputed"}
  BY <1>4 DEF EscrowPhase, StatusOf, TaskStatus
<1>8. QED
  BY <1>1, <1>2, <1>3, <1>5, <1>6, <1>7

(* The projection shows the ledger of the escrow.                          *)
THEOREM ProjectionIsTheLedger == Spec => []ProjectionTracksEscrow
BY Inductive, ProjectionFollows, PTL
-----------------------------------------------------------------------------
(* A party of the task's assignment is somebody, and may see everything.   *)
LEMMA PartyMayRead ==
  ASSUME IInv, NEW t \in DOMAIN tasks, NEW actor \in Viewer,
         NEW a \in AssignmentsOf(t), IsParty(a, actor.actorId)
  PROVE  /\ actor # NoViewer
         /\ CanViewFullTask(t, actor)
         /\ CanViewAnyPrivateRecords(t, actor)
         /\ a \in PartyAssignments(t, actor)
         /\ OwnsOrAdministers(t, actor) \/ assignments[a].workerAddress = actor.actorId
<1>1. a \in DOMAIN assignments /\ assignments[a].taskId = t
  BY DEF AssignmentsOf
<1>2. /\ assignments[a].employerAddress \in Party
      /\ assignments[a].workerAddress \in Party
      /\ assignments[a].employerAddress = tasks[t].employerAddress
  BY <1>1 DEF IInv, TypeOK, MapOf, AssignmentRecord, SelectedBidIsAssigned
<1>3. actor # NoViewer
  <2>1. actor.actorId \in Party
    BY <1>2 DEF IsParty
  <2>2. NoViewer.actorId = ""
    BY DEF NoViewer
  <2>3. QED
    BY <2>1, <2>2, ViewsAssumption
<1>4. OwnsOrAdministers(t, actor) \/ assignments[a].workerAddress = actor.actorId
  BY <1>2, <1>3 DEF IsParty, OwnsOrAdministers
<1>5. CanViewFullTask(t, actor)
  BY <1>4 DEF CanViewFullTask
<1>6. QED
  BY <1>3, <1>4, <1>5 DEF CanViewAnyPrivateRecords, PartyAssignments

(* All receipts and disputes of a task are about its one assignment.       *)
LEMMA OneCase ==
  ASSUME IInv, NEW t \in DOMAIN tasks, NEW a \in AssignmentsOf(t)
  PROVE  /\ \A r \in ReceiptsOf(t) : receipts[r].assignmentId = a
         /\ \A d \in DisputesOf(t) : disputes[d].assignmentId = a
         /\ assignments[a].bidId \in BidsOf(t)
         /\ bids[assignments[a].bidId].workerAddress = assignments[a].workerAddress
<1>1. a \in DOMAIN assignments /\ assignments[a].taskId = t /\ AssignmentsOf(t) = {a}
  BY OneAssignment DEF AssignmentsOf
<1>2. \A r \in ReceiptsOf(t) : receipts[r].assignmentId = a
  BY <1>1 DEF IInv, ReferencesResolve, ReceiptsOf, AssignmentsOf
<1>3. \A d \in DisputesOf(t) : disputes[d].assignmentId = a
  BY <1>1 DEF IInv, ReferencesResolve, DisputesOf, AssignmentsOf
<1>4. /\ assignments[a].bidId \in BidsOf(t)
      /\ bids[assignments[a].bidId].workerAddress = assignments[a].workerAddress
  BY <1>1 DEF IInv, ReferencesResolve, SelectedBidIsAssigned, BidsOf
<1>5. QED
  BY <1>2, <1>3, <1>4

(* Nobody else gets past the filters.                                      *)
LEMMA OthersSeeNothing ==
  ASSUME IInv, NEW t \in DOMAIN tasks, NEW actor \in Viewer,
         ~ OwnsOrAdministers(t, actor),
         \A a \in AssignmentsOf(t) : ~ IsParty(a, actor.actorId)
  PROVE  /\ ~ CanViewFullTask(t, actor)
         /\ VisibleAssignments(t, actor) = {}
         /\ VisibleReceipts(t, actor) = {}
         /\ VisibleDisputes(t, actor) = {}
<1>1. \A a \in AssignmentsOf(t) : assignments[a].workerAddress # actor.actorId
  BY DEF IsParty
<1>2. PartyAssignments(t, actor) = {}
  BY DEF PartyAssignments, OwnsOrAdministers
<1>3. \A r \in ReceiptsOf(t) : receipts[r].workerId # actor.actorId
  <2>1. \A r \in ReceiptsOf(t) : /\ receipts[r].assignmentId \in AssignmentsOf(t)
                                 /\ receipts[r].workerId =
                                      assignments[receipts[r].assignmentId].workerAddress
    BY DEF IInv, ReferencesResolve, DeliveryHasOneReceipt, ReceiptsOf, AssignmentsOf
  <2>2. QED
    BY <1>1, <2>1
<1>4. QED
  BY <1>1, <1>2, <1>3
     DEF CanViewFullTask, VisibleAssignments, VisibleReceipts, VisibleDisputes

LEMMA PartiesSee == IInv => PartiesSeeTheirCase
<1> SUFFICES ASSUME IInv, NEW t \in DOMAIN tasks, NEW actor \in Viewer
    PROVE  LET view == ProjectTaskDetail(t, actor)
           IN  /\ \A a \in AssignmentsOf(t) : IsParty(a, actor.actorId) =>
                    /\ view.task = tasks[t]
                    /\ a \in view.assignments
                    /\ assignments[a].bidId \in view.bids
                    /\ \A r \in ReceiptsOf(t) : r \in view.receipts
                    /\ \A d \in DisputesOf(t) : d \in view.disputes
               /\ ~ OwnsOrAdministers(t, actor)
                  /\ (\A a \in AssignmentsOf(t) : ~ IsParty(a, actor.actorId)) =>
                    /\ view.task = ProjectTaskPublic(t)
                    /\ view.assignments = {} /\ view.receipts = {} /\ view.disputes = {}
                    /\ \A b \in view.bids : bids[b].workerAddress = actor.actorId
  BY DEF PartiesSeeTheirCase
<1> DEFINE view == ProjectTaskDetail(t, actor)
           any == CanViewAnyPrivateRecords(t, actor)
<1>1. /\ view.task = IF CanViewFullTask(t, actor) THEN tasks[t] ELSE ProjectTaskPublic(t)
      /\ view.bids = IF any THEN VisibleBids(t, actor) ELSE {}
      /\ view.assignments = IF any THEN VisibleAssignments(t, actor) ELSE {}
      /\ view.receipts = IF any THEN VisibleReceipts(t, actor) ELSE {}
      /\ view.disputes = IF any THEN VisibleDisputes(t, actor) ELSE {}
  BY DEF ProjectTaskDetail
<1> HIDE DEF view, any
<1>2. ASSUME NEW a \in AssignmentsOf(t), IsParty(a, actor.actorId)
      PROVE  /\ view.task = tasks[t]
             /\ a \in view.assignments
             /\ assignments[a].bidId \in view.bids
             /\ \A r \in ReceiptsOf(t) : r \in view.receipts
             /\ \A d \in DisputesOf(t) : d \in view.disputes
  <2>1. /\ CanViewFullTask(t, actor) /\ any
        /\ a \in PartyAssignments(t, actor)
        /\ OwnsOrAdministers(t, actor) \/ assignments[a].workerAddress = actor.actorId
    BY <1>2, PartyMayRead DEF any
  <2>2. /\ \A r \in ReceiptsOf(t) : receipts[r].assignmentId = a
        /\ \A d \in DisputesOf(t) : disputes[d].assignmentId = a
        /\ assignments[a].bidId \in BidsOf(t)
        /\ bids[assignments[a].bidId].workerAddress = assignments[a].workerAddress
    BY <1>2, OneCase
  <2>3. a \in VisibleAssignments(t, actor) /\ assignments[a].bidId \in VisibleBids(t, actor)
    BY <1>2, <2>1, <2>2 DEF VisibleAssignments, VisibleBids
  <2>4. /\ \A r \in ReceiptsOf(t) : r \in VisibleReceipts(t, actor)
        /\ \A d \in DisputesOf(t) : d \in VisibleDisputes(t, actor)
    BY <2>1, <2>2 DEF VisibleReceipts, VisibleDisputes
  <2>5. QED
    BY <1>1, <2>1, <2>3, <2>4
<1>3. ASSUME ~ OwnsOrAdministers(t, actor),
             \A a \in AssignmentsOf(t) : ~ IsParty(a, actor.actorId)
      PROVE  /\ view.task = ProjectTaskPublic(t)
             /\ view.assignments = {} /\ view.receipts = {} /\ view.disputes = {}
             /\ \A b \in view.bids : bids[b].workerAddress = actor.actorId
  <2>1. /\ ~ CanViewFullTask(t, actor)
        /\ VisibleAssignments(t, actor) = {}
        /\ VisibleReceipts(t, actor) = {}
        /\ VisibleDisputes(t, actor) = {}
    BY <1>3, OthersSeeNothing
  <2>2. \A b \in VisibleBids(t, actor) : bids[b].workerAddress = actor.actorId
    BY <1>3 DEF VisibleBids
  <2>3. QED
    BY <1>1, <2>1, <2>2
<1>4. QED
  BY <1>2, <1>3 DEF view

(* Parties read their whole case, others nothing of it.                    *)
THEOREM CasesAreForTheirParties == Spec => []PartiesSeeTheirCase
BY Inductive, PartiesSee, PTL

=============================================================================
