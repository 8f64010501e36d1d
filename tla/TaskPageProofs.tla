--------------------------- MODULE TaskPageProofs ---------------------------
(***************************************************************************)
(* The page of a task for every set of identifiers and any number of clicks*)
(* and requests under way.                                                 *)
(*                                                                         *)
(* First: what the page announces was recorded.  What is on record stays on*)
(* record (RecordedStays), so an answer that arrives late is true.  Second:*)
(* a click that timed out counts once at most, because every request under *)
(* way is a click that was counted.  Third: a click that a handler refuses *)
(* came to a store without the task, was overtaken by a request of somebody*)
(* else, or was unfit from the start; what the limiter or the form's       *)
(* validation turns away no handler has seen.                              *)
(***************************************************************************)
EXTENDS TaskPage, NightShiftApiProofs, FiniteSetTheorems

(* The page of a task.  What was recorded stays recorded, so an answer may *)
(* be late; and every request under way is a click that was counted.       *)
ClickKind == {"bid", "select", "receipt", "settle", "dispute", "reveal"}

RecordedKinds == {kind \in ClickKind : TheTask \in DOMAIN tasks /\ Recorded(kind)}

(* Identifiers never leave their Map or move to another task.              *)
LEMMA RecordsAreKept ==
  ASSUME TypeOK, [Next]_vars
  PROVE  /\ DOMAIN tasks \subseteq DOMAIN tasks'
         /\ \A b \in DOMAIN bids : b \in DOMAIN bids' /\ bids'[b].taskId = bids[b].taskId
         /\ \A a \in DOMAIN assignments :
              a \in DOMAIN assignments' /\ assignments'[a].taskId = assignments[a].taskId
         /\ \A r \in DOMAIN receipts :
              r \in DOMAIN receipts' /\ receipts'[r].taskId = receipts[r].taskId
         /\ \A d \in DOMAIN disputes :
              /\ d \in DOMAIN disputes'
              /\ disputes'[d].taskId = disputes[d].taskId
              /\ disputes[d].status = "revealed" => disputes'[d].status = "revealed"
<1>1. OnlyStatusMoves
  BY TermsAreKept
<1>2. disputes \in [DOMAIN disputes -> DisputeRecord]
  BY DEF TypeOK, MapOf
<1>3. ASSUME NEW d, NEW p, SubmitReveal(d, p)
      PROVE  \A x \in DOMAIN disputes :
               disputes[x].status = "revealed" => disputes'[x].status = "revealed"
  BY <1>2, <1>3 DEF SubmitReveal, DisputeRecord
<1>4. ASSUME NEW d, NEW t, NEW a, NEW p, CreateDispute(d, t, a, p)
      PROVE  \A x \in DOMAIN disputes : disputes'[x] = disputes[x]
  BY <1>4 DEF CreateDispute, MapSet
<1>5. \A x \in DOMAIN disputes :
        disputes[x].status = "revealed" => disputes'[x].status = "revealed"
  BY <1>3, <1>4, ZenonT(40) DEF Next, vars, CreateTask, CreateBid, CreateAssignment,
     AcknowledgeAssignment, RecordWorkerSubmission, AcceptAssignment
<1>6. QED
  BY <1>1, <1>5 DEF OnlyStatusMoves

(* What a page may have announced is still so after any step.              *)
LEMMA RecordedStays ==
  ASSUME IInv, [Next]_vars
  PROVE  RecordedKinds \subseteq RecordedKinds' /\ DisputesOf(TheTask) \subseteq DisputesOf(TheTask)'
<1>1. TypeOK /\ IInv'
  BY NextPreserves DEF IInv
<1>2. DisputesOf(TheTask) \subseteq DisputesOf(TheTask)'
  BY <1>1, RecordsAreKept DEF DisputesOf
<1>3. SUFFICES ASSUME NEW kind \in ClickKind, TheTask \in DOMAIN tasks, Recorded(kind)
              PROVE  TheTask \in DOMAIN tasks' /\ Recorded(kind)'
  BY <1>2 DEF RecordedKinds
<1>4. TheTask \in DOMAIN tasks'
  BY <1>1, <1>3, RecordsAreKept
<1>5. CASE kind = "bid"
  BY <1>1, <1>3, <1>4, <1>5, RecordsAreKept DEF Recorded, BidsOf
<1>6. CASE kind = "select"
  BY <1>1, <1>3, <1>4, <1>6, RecordsAreKept DEF Recorded, AssignmentsOf
<1>7. CASE kind = "receipt"
  BY <1>1, <1>3, <1>4, <1>7, RecordsAreKept DEF Recorded, ReceiptsOf
<1>8. CASE kind = "settle"
  <2>1. tasks[TheTask].status = "settled"
    BY <1>3, <1>8 DEF Recorded
  <2>2. tasks'[TheTask] = tasks[TheTask]
    BY <1>3, <2>1, SettledUntouched DEF Untouched
  <2>3. QED
    BY <1>4, <1>8, <2>1, <2>2 DEF Recorded
<1>9. CASE kind = "dispute"
  <2>1. PICK d \in DOMAIN disputes : disputes[d].taskId = TheTask
    BY <1>3, <1>9 DEF Recorded, IInv, DisputeFreezesSettlement
  <2>2. d \in DOMAIN disputes' /\ disputes'[d].taskId = TheTask
    BY <1>1, <2>1, RecordsAreKept
  <2>3. tasks'[TheTask].status = "disputed"
    BY <1>1, <1>4, <2>2 DEF IInv, DisputeFreezesSettlement
  <2>4. QED
    BY <1>4, <1>9, <2>3 DEF Recorded
<1>10. CASE kind = "reveal"
  BY <1>1, <1>2, <1>3, <1>4, <1>10, RecordsAreKept DEF Recorded, DisputesOf
<1>11. QED
  BY <1>5, <1>6, <1>7, <1>8, <1>9, <1>10 DEF ClickKind

(* A request under way, for what is recorded and disputed meanwhile.       *)
IsRequest(q, recorded, cases) ==
  /\ q = [phase |-> q.phase, awaited |-> q.awaited, kind |-> q.kind, page |-> q.page,
          target |-> q.target, headers |-> q.headers, findsTask |-> q.findsTask,
          offer |-> q.offer, seen |-> q.seen]
  /\ q.phase \in {"sent", "done", "refused"}
  /\ q.kind \in ClickKind
  /\ q.kind = "bid" => q.target \in Party /\ q.offer \in Offer
  /\ q.kind = "reveal" => q.target \in cases
  /\ q.phase = "done" => q.kind \in recorded

(* An answer on its way that no handler gave.                              *)
IsTurnedAway(q) ==
  q = [phase |-> "turned_away", awaited |-> TRUE, kind |-> q.kind, page |-> q.page]

LEMMA TurnedAwayPhase == ASSUME NEW q, IsTurnedAway(q) PROVE q.phase = "turned_away"
<1>1. PICK kind, pg :
        q = [phase |-> "turned_away", awaited |-> TRUE, kind |-> kind, page |-> pg]
  BY DEF IsTurnedAway
<1>2. QED
  BY <1>1

LEMMA TurnedAwayAlone ==
  ASSUME NEW s \in Slot, DOMAIN slots = Slot, TurnAway(s)
  PROVE  /\ UNCHANGED <<apiVars, kept, page, notice, bidClicks>>
         /\ DOMAIN slots' = Slot /\ \A x \in Slot \ {s} : slots'[x] = slots[x]
         /\ slots'[s] = Free \/ IsTurnedAway(slots'[s])
<1>1. PICK kind, pg : kind = slots[s].kind /\ pg = slots[s].page
  OBVIOUS
<1>2. PICK q : q = [phase |-> "turned_away", awaited |-> TRUE, kind |-> kind, page |-> pg]
  OBVIOUS
<1>3. IsTurnedAway(q)
  BY <1>2 DEF IsTurnedAway
<1>4. /\ DOMAIN slots' = Slot /\ \A x \in Slot \ {s} : slots'[x] = slots[x]
      /\ slots'[s] = Free \/ slots'[s] = q
  BY <1>1, <1>2 DEF TurnAway
<1>5. UNCHANGED <<apiVars, kept, page, notice, bidClicks>>
  BY DEF TurnAway
<1>6. QED
  BY <1>3, <1>4, <1>5

LEMMA SentIsRequest ==
  ASSUME NEW q, NEW recorded, NEW cases, q.phase \in {"sent", "done", "refused"},
         q = Free \/ IsRequest(q, recorded, cases) \/ IsTurnedAway(q)
  PROVE  IsRequest(q, recorded, cases)
<1>1. q # Free
  BY DEF Free
<1>2. ~ IsTurnedAway(q)
  BY TurnedAwayPhase
<1>3. QED
  BY <1>1, <1>2

(* A click's request goes through the routes like everybody's.             *)
LEMMA PostRoutes ==
  ASSUME IInv, NEW s \in Slot, IsRequest(slots[s], RecordedKinds, DisputesOf(TheTask)),
         Post(slots[s])
  PROVE  Route(slots[s].headers)
<1> DEFINE q == slots[s]
<1> USE PageAssumption
<1>0. /\ TheTask \in TaskId
      /\ MapOf(bids, BidId, BidRecord) /\ MapOf(assignments, AssignmentId, AssignmentRecord)
      /\ MapOf(disputes, DisputeId, DisputeRecord)
  BY DEF IInv, TypeOK, FreshTaskId
<1>1. ASSUME q.kind = "bid", NEW b \in BidId, NEW c \in Commitment,
             PostBid(q.headers, b, TheTask, q.target, c, q.offer)
      PROVE  Route(q.headers)
  BY <1>0, <1>1 DEF Route, IsRequest
<1>2. ASSUME q.kind = "select", NEW a \in AssignmentId,
             PostAssignment(q.headers, a, TheTask, q.target)
      PROVE  Route(q.headers)
  <2>1. q.target \in BidId
    BY <1>0, <1>2 DEF PostAssignment, MapOf
  <2>2. QED
    BY <1>0, <1>2, <2>1 DEF Route
<1>3. ASSUME q.kind = "receipt", NEW r \in ReceiptId, NEW result \in Content,
             PostSubmit(q.headers, q.target, BrowserSubmission(r, q, result).workerId,
                        BrowserSubmission(r, q, result), result,
                        CommitReceipt(r, BrowserSubmission(r, q, result)))
      PROVE  Route(q.headers)
  <2> DEFINE receipt == BrowserSubmission(r, q, result)
  <2>1. /\ receipt = [receiptId |-> r, assignmentId |-> q.target, taskId |-> TheTask,
                      bidId |-> assignments[q.target].bidId, workerId |-> q.headers.actorId,
                      status |-> "generated", resultHash |-> HashCanonicalJson(result)]
        /\ receipt.receiptId = r
        /\ receipt.workerId = q.headers.actorId
    BY DEF BrowserSubmission
  <2> HIDE DEF receipt
  <2>2. /\ q.target \in DOMAIN assignments
        /\ assignments[q.target].workerAddress = receipt.workerId
    BY <1>3 DEF PostSubmit, RecordWorkerSubmission, receipt
  <2>3. q.target \in AssignmentId /\ assignments[q.target] \in AssignmentRecord
    BY <1>0, <2>2 DEF MapOf
  <2>4. receipt.workerId \in Party /\ assignments[q.target].bidId \in BidId
    BY <2>2, <2>3 DEF AssignmentRecord
  <2>5. receipt \in ReceiptFrom(q.target, receipt.workerId)
    BY <1>0, <2>1, <2>4 DEF ReceiptFrom, ResultHash
  <2>6. PostSubmit(q.headers, q.target, receipt.workerId, receipt, result,
                   CommitReceipt(receipt.receiptId, receipt))
    BY <1>3, <2>1 DEF receipt
  <2>7. QED
    BY <2>3, <2>4, <2>5, <2>6 DEF Route
<1>4. ASSUME q.kind = "settle", PostAccept(q.headers, TheTask, q.target)
      PROVE  Route(q.headers)
  <2>1. q.target \in AssignmentId
    BY <1>0, <1>4 DEF PostAccept, AcceptAssignment, Settleable, MapOf
  <2>2. QED
    BY <1>0, <1>4, <2>1 DEF Route
<1>5. ASSUME q.kind = "dispute", NEW d \in DisputeId,
             PostDispute(q.headers, d, TheTask, q.target)
      PROVE  Route(q.headers)
  <2>1. q.target \in AssignmentId
    BY <1>0, <1>5 DEF PostDispute, MapOf
  <2>2. QED
    BY <1>0, <1>5, <2>1 DEF Route
<1>6. ASSUME q.kind = "reveal", PostReveal(q.headers, q.target)
      PROVE  Route(q.headers)
  <2>1. q.target \in DisputeId
    BY <1>0, <1>6 DEF PostReveal, MapOf
  <2>2. QED
    BY <1>6, <2>1 DEF Route
<1>7. QED
  BY <1>1, <1>2, <1>3, <1>4, <1>5, <1>6 DEF Post

(* A handled request is a step of the store that records what was clicked. *)
LEMMA PostRecords ==
  ASSUME IInv, NEW s \in Slot, IsRequest(slots[s], RecordedKinds, DisputesOf(TheTask)),
         Post(slots[s])
  PROVE  Next /\ slots[s].kind \in RecordedKinds'
<1> DEFINE q == slots[s]
<1>0. TypeOK /\ Next
  BY PostRoutes, HandlerStep DEF IInv
<1>1. ASSUME q.kind = "bid", NEW b \in BidId, NEW c \in Commitment,
             PostBid(q.headers, b, TheTask, q.target, c, q.offer)
      PROVE  q.kind \in RecordedKinds'
  <2>1. /\ TheTask \in DOMAIN tasks /\ tasks' = tasks
        /\ b \in DOMAIN bids' /\ bids'[b].taskId = TheTask
    BY <1>1 DEF PostBid, CreateBid, MapSet
  <2>2. QED
    BY <1>1, <2>1 DEF RecordedKinds, Recorded, BidsOf, ClickKind
<1>2. ASSUME q.kind = "select", NEW a \in AssignmentId,
             PostAssignment(q.headers, a, TheTask, q.target)
      PROVE  q.kind \in RecordedKinds'
  <2>1. /\ TheTask \in DOMAIN tasks /\ DOMAIN tasks' = DOMAIN tasks
        /\ a \in DOMAIN assignments' /\ assignments'[a].taskId = TheTask
    BY <1>2 DEF PostAssignment, CreateAssignment, MapSet
  <2>2. QED
    BY <1>2, <2>1 DEF RecordedKinds, Recorded, AssignmentsOf, ClickKind
<1>3. ASSUME q.kind = "receipt", NEW r \in ReceiptId, NEW result \in Content,
             PostSubmit(q.headers, q.target, BrowserSubmission(r, q, result).workerId,
                        BrowserSubmission(r, q, result), result,
                        CommitReceipt(r, BrowserSubmission(r, q, result)))
      PROVE  q.kind \in RecordedKinds'
  <2> DEFINE receipt == BrowserSubmission(r, q, result)
             hash == CommitReceipt(r, receipt)
  <2>1. receipt.receiptId = r /\ receipt.taskId = TheTask
    BY DEF BrowserSubmission
  <2> HIDE DEF receipt
  <2>2. /\ q.target \in DOMAIN assignments
        /\ RecordWorkerSubmission(q.target, receipt.workerId, receipt, result, hash)
    BY <1>3 DEF PostSubmit, receipt
  <2>3. assignments[q.target].taskId = TheTask
    BY <2>1, <2>2 DEF RecordWorkerSubmission, ReceiptMatches
  <2>4. TheTask \in DOMAIN tasks
    BY <2>2, <2>3 DEF IInv, ReferencesResolve
  <2>5. /\ DOMAIN tasks' = DOMAIN tasks
        /\ r \in DOMAIN receipts' /\ receipts'[r].taskId = TheTask
    BY <2>1, <2>2, <2>4 DEF RecordWorkerSubmission, MapSet
  <2>6. QED
    BY <1>3, <2>4, <2>5 DEF RecordedKinds, Recorded, ReceiptsOf, ClickKind
<1>4. ASSUME q.kind = "settle", PostAccept(q.headers, TheTask, q.target)
      PROVE  q.kind \in RecordedKinds'
  <2>1. AcceptAssignment(TheTask, q.target) /\ TheTask \in DOMAIN tasks
    BY <1>4 DEF PostAccept
  <2>2. DOMAIN tasks' = DOMAIN tasks /\ tasks'[TheTask].status = "settled"
    BY <1>0, <2>1 DEF AcceptAssignment, TypeOK, MapOf, TaskRecord
  <2>3. QED
    BY <1>4, <2>1, <2>2 DEF RecordedKinds, Recorded, ClickKind
<1>5. ASSUME q.kind = "dispute", NEW d \in DisputeId,
             PostDispute(q.headers, d, TheTask, q.target)
      PROVE  q.kind \in RecordedKinds'
  <2>1. PICK p : CreateDispute(d, TheTask, q.target, p)
    BY <1>5 DEF PostDispute
  <2>2. TheTask \in DOMAIN tasks /\ DOMAIN tasks' = DOMAIN tasks
    BY <2>1 DEF CreateDispute, Disputable
  <2>3. tasks'[TheTask].status = "disputed"
    BY <1>0, <2>1, <2>2 DEF CreateDispute, TypeOK, MapOf, TaskRecord
  <2>4. QED
    BY <1>5, <2>2, <2>3 DEF RecordedKinds, Recorded, ClickKind
<1>6. ASSUME q.kind = "reveal", PostReveal(q.headers, q.target)
      PROVE  q.kind \in RecordedKinds'
  <2>1. q.target \in DOMAIN disputes /\ disputes[q.target].taskId = TheTask
    BY <1>6 DEF IsRequest, DisputesOf
  <2>2. PICK p : SubmitReveal(q.target, p)
    BY <1>6 DEF PostReveal
  <2>3. TheTask \in DOMAIN tasks
    BY <2>1 DEF IInv, ReferencesResolve
  <2>4. /\ tasks' = tasks
        /\ q.target \in DOMAIN disputes'
        /\ disputes'[q.target].taskId = TheTask
        /\ disputes'[q.target].status = "revealed"
    BY <1>0, <2>1, <2>2 DEF SubmitReveal, TypeOK, MapOf, DisputeRecord
  <2>5. QED
    BY <1>6, <2>3, <2>4 DEF RecordedKinds, Recorded, DisputesOf, ClickKind
<1>7. QED
  BY <1>0, <1>1, <1>2, <1>3, <1>4, <1>5, <1>6 DEF Post

(* What the page's two promises rest on: a revealed dispute is the task's, *)
(* requests under way are whole, and notices of success are true.          *)
PageInv ==
  /\ IInv
  /\ DOMAIN page = Page
  /\ \A p \in Page : page[p].dispute # None => page[p].dispute \in DisputesOf(TheTask)
  /\ DOMAIN slots = Slot
  /\ \A s \in Slot :
       \/ slots[s] = Free
       \/ IsRequest(slots[s], RecordedKinds, DisputesOf(TheTask))
       \/ IsTurnedAway(slots[s])
  /\ DOMAIN notice = Page
  /\ \A p \in Page : notice[p][1] = "success" => notice[p][2] \in RecordedKinds

LEMMA RequestsStay ==
  ASSUME NEW q, NEW recorded, NEW cases, IsRequest(q, recorded, cases),
         NEW moreRecorded, NEW moreCases, recorded \subseteq moreRecorded, cases \subseteq moreCases
  PROVE  IsRequest(q, moreRecorded, moreCases)
BY DEF IsRequest

LEMMA UnderWay ==
  ASSUME PageInv, NEW s \in Slot, slots[s].phase \in {"sent", "done", "refused"}
  PROVE  IsRequest(slots[s], RecordedKinds, DisputesOf(TheTask))
BY SentIsRequest DEF PageInv

(* What a request was clicked as, and how it stood then.                   *)
ClickedAs(q, kind, target, actorId, role, offer, seen) ==
  /\ q.phase = "sent" /\ q.kind = kind /\ q.target = target
  /\ q.headers.actorId = actorId /\ q.headers.role = role
  /\ q.offer = offer /\ q.seen = seen

(* Slot s, until now free, holds the request of this click.                *)
Sends(s, kind, target, actorId, role, offer, seen) ==
  /\ slots[s] = Free
  /\ DOMAIN slots' = Slot
  /\ IsRequest(slots'[s], RecordedKinds, DisputesOf(TheTask))
  /\ ClickedAs(slots'[s], kind, target, actorId, role, offer, seen)
  /\ \A x \in Slot \ {s} : slots'[x] = slots[x]

(* The shape of the request that a click sends.                            *)
LEMMA ClickSends ==
  ASSUME NEW p, NEW kind \in ClickKind, NEW target, NEW actorId, NEW role, NEW offer,
         DOMAIN slots = Slot,
         SendClick(p, kind, target, actorId, role, offer),
         kind = "bid" => target \in Party /\ offer \in Offer,
         kind = "reveal" => target \in DisputesOf(TheTask)
  PROVE  /\ UNCHANGED <<apiVars, kept, page, notice>>
         /\ \E s \in Slot : Sends(s, kind, target, actorId, role, offer, page[p].status)
<1>1. PICK s \in Slot, session \in BrowserSession \cup {NoSession},
           workspaceId \in WorkspaceId :
        /\ slots[s] = Free
        /\ slots' = [slots EXCEPT ![s] =
             [phase |-> "sent", awaited |-> TRUE, kind |-> kind, page |-> p, target |-> target,
              headers |-> [token |-> session.token, actorId |-> actorId, role |-> role],
              findsTask |-> kept /\ workspaceId = TheWorkspace,
              offer |-> offer, seen |-> page[p].status]]
  BY DEF SendClick
<1> DEFINE headers == [token |-> session.token, actorId |-> actorId, role |-> role]
           seen == page[p].status
           finds == kept /\ workspaceId = TheWorkspace
           q == [phase |-> "sent", awaited |-> TRUE, kind |-> kind, page |-> p,
                 target |-> target, headers |-> headers, findsTask |-> finds,
                 offer |-> offer, seen |-> seen]
<1>2. slots' = [slots EXCEPT ![s] = q]
  BY <1>1
<1>0. headers.actorId = actorId /\ headers.role = role
  OBVIOUS
<1> HIDE DEF headers, seen, finds
<1>3. /\ IsRequest(q, RecordedKinds, DisputesOf(TheTask))
      /\ ClickedAs(q, kind, target, actorId, role, offer, seen)
  BY <1>0 DEF IsRequest, ClickedAs
<1> HIDE DEF q
<1>4. slots'[s] = q /\ DOMAIN slots' = Slot /\ \A x \in Slot \ {s} : slots'[x] = slots[x]
  BY <1>2
<1>5. UNCHANGED <<apiVars, kept, page, notice>>
  BY DEF SendClick
<1>6. QED
  BY <1>1, <1>3, <1>4, <1>5 DEF seen, Sends

(* A dispute that a page shows is one of the task's.                       *)
LEMMA LoadedDispute ==
  ASSUME NEW actor
  PROVE  LoadTaskData(actor).dispute # None => LoadTaskData(actor).dispute \in DisputesOf(TheTask)
<1> DEFINE view == ProjectTaskDetail(TheTask, actor)
           latest == Shown(view.disputes \cap OpenDisputesOf(TheTask), view.disputes)
<1>1. LoadTaskData(actor).dispute = latest
  BY DEF LoadTaskData
<1>2. view.disputes \in {VisibleDisputes(TheTask, actor), {}}
  BY DEF ProjectTaskDetail
<1>3. VisibleDisputes(TheTask, actor) \subseteq DisputesOf(TheTask)
  BY DEF VisibleDisputes
<1> HIDE DEF view
<1>4. latest = None \/ latest \in view.disputes
  <2>1. CASE view.disputes \cap OpenDisputesOf(TheTask) # {}
    BY <2>1 DEF Shown
  <2>2. CASE view.disputes \cap OpenDisputesOf(TheTask) = {}
    BY <2>2 DEF Shown
  <2>3. QED
    BY <2>1, <2>2
<1>5. QED
  BY <1>1, <1>2, <1>3, <1>4

(* Steps of the page that leave the store alone.                           *)
LEMMA StoreAlone ==
  ASSUME PageInv, UNCHANGED vars
  PROVE  /\ IInv'
         /\ RecordedKinds' = RecordedKinds
         /\ DisputesOf(TheTask)' = DisputesOf(TheTask)
<1>1. IInv'
  BY NextPreserves DEF PageInv
<1>2. QED
  BY <1>1 DEF vars, RecordedKinds, Recorded, DisputesOf, BidsOf, AssignmentsOf, ReceiptsOf

LEMMA ClickKeeps ==
  ASSUME PageInv, NEW p, NEW kind \in ClickKind, NEW target, NEW actorId, NEW role, NEW offer,
         SendClick(p, kind, target, actorId, role, offer),
         kind = "bid" => target \in Party /\ offer \in Offer,
         kind = "reveal" => target \in DisputesOf(TheTask)
  PROVE  PageInv'
<1>1. PICK s \in Slot :
        /\ UNCHANGED <<apiVars, page, notice>>
        /\ DOMAIN slots' = Slot
        /\ IsRequest(slots'[s], RecordedKinds, DisputesOf(TheTask))
        /\ \A x \in Slot \ {s} : slots'[x] = slots[x]
  <2>1. DOMAIN slots = Slot
    BY DEF PageInv
  <2>2. QED
    BY <2>1, ClickSends DEF Sends
<1>2. /\ IInv'
      /\ RecordedKinds' = RecordedKinds
      /\ DisputesOf(TheTask)' = DisputesOf(TheTask)
  BY <1>1, StoreAlone DEF apiVars
<1>3. QED
  BY <1>1, <1>2 DEF PageInv

LEMMA EmployerClickKeeps ==
  ASSUME PageInv, NEW p, NEW kind \in ClickKind \ {"bid", "reveal"}, NEW target,
         ClickAsEmployer(p, kind, target)
  PROVE  PageInv'
BY ClickKeeps DEF ClickAsEmployer

(* A store step that leaves pages, notices and most requests as they are.  *)
LEMMA StoreStepKeeps ==
  ASSUME PageInv, [Next]_vars, UNCHANGED <<page, notice>>, DOMAIN slots' = Slot,
         \A s \in Slot :
           \/ slots'[s] = slots[s]
           \/ slots'[s] = Free
           \/ IsRequest(slots'[s], RecordedKinds', DisputesOf(TheTask)')
           \/ IsTurnedAway(slots'[s])
  PROVE  PageInv'
<1>1. /\ RecordedKinds \subseteq RecordedKinds'
      /\ DisputesOf(TheTask) \subseteq DisputesOf(TheTask)'
      /\ IInv'
  BY RecordedStays, NextPreserves DEF PageInv
<1>2. ASSUME NEW s \in Slot
      PROVE  \/ slots'[s] = Free
             \/ IsRequest(slots'[s], RecordedKinds', DisputesOf(TheTask)')
             \/ IsTurnedAway(slots'[s])
  <2> SUFFICES ASSUME slots'[s] = slots[s],
                      IsRequest(slots[s], RecordedKinds, DisputesOf(TheTask))
               PROVE  IsRequest(slots'[s], RecordedKinds', DisputesOf(TheTask)')
    BY DEF PageInv
  <2>1. QED
    BY <1>1, RequestsStay
<1>3. \A s \in Slot :
        \/ slots'[s] = Free
        \/ IsRequest(slots[s], RecordedKinds, DisputesOf(TheTask))'
        \/ IsTurnedAway(slots[s])'
  BY <1>2 DEF IsRequest, IsTurnedAway
<1>4. QED
  BY <1>1, <1>3 DEF PageInv

(* Handled keeps a request whole.                                          *)
LEMMA HandledKeeps ==
  ASSUME PageInv, NEW s \in Slot, slots[s].phase = "sent", NEW phase \in {"done", "refused"},
         Handled(s, phase), [Next]_vars, UNCHANGED <<page, notice>>,
         phase = "done" => slots[s].kind \in RecordedKinds'
  PROVE  PageInv'
<1>1. IsRequest(slots[s], RecordedKinds, DisputesOf(TheTask))
  BY UnderWay
<1>2. DisputesOf(TheTask) \subseteq DisputesOf(TheTask)'
  BY RecordedStays DEF PageInv
<1>3. /\ DOMAIN slots' = Slot
      /\ \A x \in Slot \ {s} : slots'[x] = slots[x]
      /\ slots'[s] = IF slots[s].awaited THEN [slots[s] EXCEPT !.phase = phase] ELSE Free
  BY DEF Handled, PageInv
<1>4. ASSUME slots[s].awaited
      PROVE  IsRequest(slots'[s], RecordedKinds', DisputesOf(TheTask)')
  <2> DEFINE q == slots[s]
             awaited == q.awaited
             kind == q.kind
             pg == q.page
             target == q.target
             headers == q.headers
             finds == q.findsTask
             offer == q.offer
             seen == q.seen
  <2>1. /\ q = [phase |-> q.phase, awaited |-> awaited, kind |-> kind, page |-> pg,
                target |-> target, headers |-> headers, findsTask |-> finds,
                offer |-> offer, seen |-> seen]
        /\ kind \in ClickKind
        /\ kind = "bid" => target \in Party /\ offer \in Offer
        /\ kind = "reveal" => target \in DisputesOf(TheTask)'
        /\ phase = "done" => kind \in RecordedKinds'
    BY <1>1, <1>2 DEF IsRequest
  <2>2. slots'[s] = [q EXCEPT !.phase = phase]
    BY <1>3, <1>4
  <2> HIDE DEF awaited, kind, pg, target, headers, finds, offer, seen
  <2>3. slots'[s] = [phase |-> phase, awaited |-> awaited, kind |-> kind, page |-> pg,
                     target |-> target, headers |-> headers, findsTask |-> finds,
                     offer |-> offer, seen |-> seen]
    BY <2>1, <2>2
  <2> HIDE DEF q
  <2>4. QED
    BY <2>1, <2>3 DEF IsRequest
<1>5. QED
  BY <1>3, <1>4, StoreStepKeeps

LEMMA NotifyKeeps ==
  ASSUME PageInv, NEW s \in Slot, NEW tone, Notify(s, tone), UNCHANGED <<vars, page>>,
         tone = "success" => slots[s].kind \in RecordedKinds,
         DOMAIN slots' = Slot,
         \A x \in Slot :
           \/ slots'[x] = slots[x]
           \/ slots'[x] = Free
           \/ IsRequest(slots'[x], RecordedKinds, DisputesOf(TheTask))
  PROVE  PageInv'
<1>1. /\ IInv'
      /\ RecordedKinds' = RecordedKinds
      /\ DisputesOf(TheTask)' = DisputesOf(TheTask)
  BY StoreAlone
<1> DEFINE kind == slots[s].kind
           pg == slots[s].page
<1>2. notice' = [notice EXCEPT ![pg] = <<tone, kind>>]
  BY DEF Notify
<1> HIDE DEF kind, pg
<1>3. DOMAIN notice' = Page
  BY <1>2 DEF PageInv
<1>4. \A p \in Page : notice'[p][1] = "success" => notice'[p][2] \in RecordedKinds'
  BY <1>1, <1>2 DEF PageInv, kind
<1>5. QED
  BY <1>1, <1>3, <1>4 DEF PageInv

(* A request that nobody awaits any more stays as it was sent.             *)
LEMMA AbortedIsRequest ==
  ASSUME NEW q, NEW recorded, NEW cases, IsRequest(q, recorded, cases), q.phase = "sent",
         NEW awaited
  PROVE  IsRequest([q EXCEPT !.awaited = awaited], recorded, cases)
<1>1. PICK aborted : aborted = [q EXCEPT !.awaited = awaited]
  OBVIOUS
<1>2. aborted = [phase |-> q.phase, awaited |-> awaited, kind |-> q.kind, page |-> q.page,
                 target |-> q.target, headers |-> q.headers, findsTask |-> q.findsTask,
                 offer |-> q.offer, seen |-> q.seen]
  BY <1>1 DEF IsRequest
<1>3. IsRequest(aborted, recorded, cases)
  BY <1>2 DEF IsRequest
<1>4. QED
  BY <1>1, <1>3

LEMMA PageStep ==
  ASSUME PageInv, [TaskPageNext]_pageVars
  PROVE  PageInv'
<1> USE PageAssumption
<1>1. ASSUME NEW c \in Commitment, NEW e \in Execution, CreateTheTask(c, e) PROVE PageInv'
  <2>1. TheTask \in TaskId
    BY DEF FreshTaskId
  <2>2. PICK headers : PostTask(headers, TheTask, WalletAddress, c, e)
    BY <1>1 DEF CreateTheTask
  <2>3. Next
    BY <2>1, <2>2 DEF PostTask, Next
  <2>4. UNCHANGED <<page, slots, notice>>
    BY <1>1 DEF CreateTheTask
  <2>5. QED
    BY <2>3, <2>4, StoreStepKeeps DEF PageInv
<1>2. ASSUME NEW p \in Page, Load(p) PROVE PageInv'
  <2>1. PICK actor : page' = [page EXCEPT ![p] = LoadTaskData(actor)]
    BY <1>2 DEF Load
  <2>2. UNCHANGED <<apiVars, slots, notice>>
    BY <1>2 DEF Load
  <2> DEFINE loaded == LoadTaskData(actor)
  <2>3. loaded.dispute # None => loaded.dispute \in DisputesOf(TheTask)
    BY LoadedDispute
  <2>4. page' = [page EXCEPT ![p] = loaded]
    BY <2>1
  <2> HIDE DEF loaded
  <2>5. QED
    BY <2>2, <2>3, <2>4, StoreAlone DEF PageInv, apiVars
<1>3. ASSUME NEW p \in Page, LoadFails(p) PROVE PageInv'
  BY <1>3, StoreAlone DEF LoadFails, NoTask, PageInv, apiVars
<1>4. ASSUME NEW p \in Page, NEW worker \in Party, NEW offer \in Offer,
             HandleBidSubmit(p, worker, offer)
      PROVE  PageInv'
  BY <1>4, ClickKeeps DEF HandleBidSubmit, ClickKind
<1>5. ASSUME NEW p \in Page, NEW b \in BidId, HandleSelectBid(p, b) PROVE PageInv'
  BY <1>5, EmployerClickKeeps DEF HandleSelectBid, ClickKind
<1>6. ASSUME NEW p \in Page, HandleReceiptSubmit(p) PROVE PageInv'
  BY <1>6, ClickKeeps DEF HandleReceiptSubmit, ClickKind
<1>7. ASSUME NEW p \in Page, HandleSettle(p) PROVE PageInv'
  BY <1>7, EmployerClickKeeps DEF HandleSettle, ClickKind
<1>8. ASSUME NEW p \in Page, HandleOpenDispute(p) PROVE PageInv'
  BY <1>8, EmployerClickKeeps DEF HandleOpenDispute, ClickKind
<1>9. ASSUME NEW p \in Page, HandleRevealSubmit(p) PROVE PageInv'
  <2>1. page[p].dispute \in DisputesOf(TheTask)
    BY <1>9 DEF HandleRevealSubmit, CanSubmitReveal, PageInv
  <2>2. QED
    BY <1>9, <2>1, ClickKeeps DEF HandleRevealSubmit, ClickKind
<1>10. ASSUME NEW s \in Slot, Perform(s) PROVE PageInv'
  <2>1. slots[s].phase = "sent" /\ Post(slots[s])
    BY <1>10 DEF Perform
  <2>2. IsRequest(slots[s], RecordedKinds, DisputesOf(TheTask))
    BY <2>1, UnderWay
  <2>3. Next /\ slots[s].kind \in RecordedKinds'
    BY <2>1, <2>2, PostRecords DEF PageInv
  <2>4. QED
    BY <1>10, <2>1, <2>3, HandledKeeps DEF Perform
<1>11. ASSUME NEW s \in Slot, Refuse(s) PROVE PageInv'
  BY <1>11, HandledKeeps DEF Refuse, apiVars
<1>12. ASSUME NEW s \in Slot, Answer(s) PROVE PageInv'
  <2>1. slots[s].phase = "done" => slots[s].kind \in RecordedKinds
    BY UnderWay DEF IsRequest
  <2>2. PICK tone : Notify(s, tone) /\ (tone = "success" => slots[s].kind \in RecordedKinds)
    BY <1>12, <2>1 DEF Answer
  <2>3. slots' = [slots EXCEPT ![s] = Free] /\ UNCHANGED <<vars, page>>
    BY <1>12 DEF Answer, apiVars
  <2>4. QED
    BY <2>2, <2>3, NotifyKeeps DEF PageInv
<1>13. ASSUME NEW s \in Slot, Abort(s) PROVE PageInv'
  <2>0. PICK no : no = FALSE
    OBVIOUS
  <2>1. Notify(s, "error") /\ UNCHANGED <<vars, page>>
    BY <1>13 DEF Abort, apiVars
  <2>2. /\ DOMAIN slots' = Slot
        /\ \A x \in Slot \ {s} : slots'[x] = slots[x]
        /\ \/ slots[s].phase = "sent" /\ slots'[s] = [slots[s] EXCEPT !.awaited = no]
           \/ slots'[s] = Free
    BY <1>13, <2>0 DEF Abort, PageInv
  <2>3. \A x \in Slot : \/ slots'[x] = slots[x]
                        \/ slots'[x] = Free
                        \/ IsRequest(slots'[x], RecordedKinds, DisputesOf(TheTask))
    <3>1. slots[s].phase = "sent" => IsRequest(slots[s], RecordedKinds, DisputesOf(TheTask))
      BY UnderWay
    <3>2. QED
      BY <2>2, <3>1, AbortedIsRequest
  <2>4. QED
    BY <2>1, <2>2, <2>3, NotifyKeeps
<1>14. ASSUME NEW s \in Slot, Lose(s) PROVE PageInv'
  <2>1. slots' = [slots EXCEPT ![s] = Free] /\ UNCHANGED <<vars, page, notice>>
    BY <1>14 DEF Lose, apiVars
  <2>2. QED
    BY <2>1, StoreStepKeeps DEF PageInv
<1>15. ASSUME NEW s \in Slot, TurnAway(s) PROVE PageInv'
  <2>1. DOMAIN slots = Slot
    BY DEF PageInv
  <2>2. QED
    BY <1>15, <2>1, TurnedAwayAlone, StoreStepKeeps DEF apiVars
<1>16. CASE DropWorkspace
  BY <1>16, StoreStepKeeps DEF DropWorkspace, apiVars, PageInv
<1>17. CASE UNCHANGED pageVars
  BY <1>17, StoreStepKeeps DEF pageVars, apiVars, PageInv
<1>18. QED
  BY <1>1, <1>2, <1>3, <1>4, <1>5, <1>6, <1>7, <1>8, <1>9, <1>10, <1>11, <1>12, <1>13,
     <1>14, <1>15, <1>16, <1>17 DEF TaskPageNext

LEMMA PageStart == TaskPageInit => PageInv
<1> SUFFICES ASSUME TaskPageInit PROVE PageInv
  OBVIOUS
<1>1. IInv
  BY InitHolds DEF TaskPageInit, ApiInit
<1>2. page = [p \in Page |-> NoTask] /\ slots = [s \in Slot |-> Free]
  BY DEF TaskPageInit
<1>3. notice = [p \in Page |-> <<"neutral", None>>]
  BY DEF TaskPageInit
<1>4. \A p \in Page : notice[p][1] = "neutral"
  BY <1>3
<1>5. QED
  BY <1>1, <1>2, <1>3, <1>4 DEF PageInv, NoTask

(* Every step of the page is a request that goes through the routes, or    *)
(* leaves the API alone.                                                   *)
LEMMA PageRequest ==
  ASSUME PageInv, [TaskPageNext]_pageVars
  PROVE  [AnyRequest]_apiVars
<1>1. ASSUME NEW c \in Commitment, NEW e \in Execution, CreateTheTask(c, e) PROVE AnyRequest
  <2>1. PICK headers : PostTask(headers, TheTask, WalletAddress, c, e)
    BY <1>1 DEF CreateTheTask
  <2>2. Route(headers)
    BY <2>1, PageAssumption DEF Route, FreshTaskId
  <2>3. QED
    BY <2>2 DEF AnyRequest
<1>2. ASSUME NEW s \in Slot, Perform(s) PROVE AnyRequest
  <2>1. slots[s].phase = "sent" /\ Post(slots[s])
    BY <1>2 DEF Perform
  <2>2. IInv /\ IsRequest(slots[s], RecordedKinds, DisputesOf(TheTask))
    BY <2>1, UnderWay DEF PageInv
  <2>3. Route(slots[s].headers)
    BY <2>1, <2>2, PostRoutes
  <2>4. QED
    BY <2>3 DEF AnyRequest
<1>3. ASSUME NEW p, NEW kind, NEW target, NEW actorId, NEW role, NEW offer,
             SendClick(p, kind, target, actorId, role, offer)
      PROVE  UNCHANGED apiVars
  BY <1>3 DEF SendClick
<1>4. CASE UNCHANGED pageVars
  BY <1>4 DEF pageVars
<1>5. QED
  BY <1>1, <1>2, <1>3, <1>4
     DEF TaskPageNext, Load, LoadFails, HandleBidSubmit, HandleSelectBid, HandleReceiptSubmit,
         HandleSettle, HandleOpenDispute, HandleRevealSubmit, ClickAsEmployer, Refuse, Answer,
         Abort, Lose, TurnAway, DropWorkspace

(* Whatever is clicked, given up or repeated, the requests of the pages    *)
(* take the contract's transitions only, move a task for its parties alone,*)
(* and name holders of credentials: a page cannot do what the routes would *)
(* not have let anybody do.                                                *)
THEOREM PagesAreClients ==
  TaskPageSpec => /\ ImplementsEscrow
                  /\ OnlyPartiesMoveTasks
                  /\ []RecordsNameCredentialHolders
<1>1. TaskPageInit => ApiInit
  BY DEF TaskPageInit
<1>2. TaskPageSpec => RequestsSpec
  BY <1>1, PageStart, PageStep, PageRequest, PTL DEF TaskPageSpec, RequestsSpec
<1>3. QED
  BY <1>2, RequestsImplementStore, RequestsImplementEscrow, RequestsMoveByParties,
     RequestsNameHolders

(* Whatever is clicked and however late it is handled, given up or lost,   *)
(* a page's good news is true and stays true.                              *)
THEOREM AnnouncementsAreTrue == TaskPageSpec => []AnnouncedIsRecorded
<1>1. PageInv => AnnouncedIsRecorded
  BY DEF PageInv, AnnouncedIsRecorded, RecordedKinds
<1>2. QED
  BY <1>1, PageStart, PageStep, PTL DEF TaskPageSpec

-----------------------------------------------------------------------------
(* Every bid of the task was a click, and so is every bid under way: none  *)
(* of them is counted twice.                                               *)
PendingBids == {s \in Slot : slots[s].phase = "sent" /\ slots[s].kind = "bid"}

CountInv ==
  /\ PageInv
  /\ bidClicks \in Nat
  /\ IsFiniteSet(BidsOf(TheTask))
  /\ Cardinality(BidsOf(TheTask)) + Cardinality(PendingBids) <= bidClicks

LEMMA PendingIsFinite ==
  /\ IsFiniteSet(PendingBids) /\ Cardinality(PendingBids) \in Nat
  /\ IsFiniteSet(PendingBids') /\ Cardinality(PendingBids') \in Nat
<1>1. PendingBids \subseteq Slot /\ PendingBids' \subseteq Slot
  BY DEF PendingBids
<1>2. QED
  BY <1>1, PageAssumption, FS_Subset, FS_CardinalityType

(* Nothing is counted anew.                                                *)
LEMMA CountKeeps ==
  ASSUME CountInv, PageInv', BidsOf(TheTask)' = BidsOf(TheTask),
         PendingBids' \subseteq PendingBids, bidClicks' = bidClicks
  PROVE  CountInv'
<1>1. Cardinality(PendingBids') <= Cardinality(PendingBids)
  BY PendingIsFinite, FS_Subset
<1>2. Cardinality(BidsOf(TheTask)) \in Nat
  BY FS_CardinalityType DEF CountInv
<1>3. QED
  BY <1>1, <1>2, PendingIsFinite DEF CountInv

(* A click on anything but the bid form.                                   *)
LEMMA OtherClickCounts ==
  ASSUME CountInv, PageInv', NEW p, NEW kind \in ClickKind \ {"bid"}, NEW target, NEW actorId,
         NEW role, NEW offer, SendClick(p, kind, target, actorId, role, offer),
         bidClicks' = bidClicks
  PROVE  CountInv'
<1>1. /\ UNCHANGED apiVars
      /\ DOMAIN slots = Slot
  BY DEF SendClick, CountInv, PageInv
<1>2. PICK s \in Slot, session \in BrowserSession \cup {NoSession},
           workspaceId \in WorkspaceId :
        slots' = [slots EXCEPT ![s] =
             [phase |-> "sent", awaited |-> TRUE, kind |-> kind, page |-> p, target |-> target,
              headers |-> [token |-> session.token, actorId |-> actorId, role |-> role],
              findsTask |-> kept /\ workspaceId = TheWorkspace,
              offer |-> offer, seen |-> page[p].status]]
  BY DEF SendClick
<1>3. slots'[s].kind = kind /\ \A x \in Slot \ {s} : slots'[x] = slots[x]
  BY <1>1, <1>2
<1>4. PendingBids' \subseteq PendingBids
  BY <1>3 DEF PendingBids
<1>5. BidsOf(TheTask)' = BidsOf(TheTask)
  BY <1>1 DEF apiVars, vars, BidsOf
<1>6. QED
  BY <1>4, <1>5, CountKeeps

LEMMA BidClickCounts ==
  ASSUME CountInv, PageInv', NEW p, NEW worker \in Party, NEW offer \in Offer,
         HandleBidSubmit(p, worker, offer)
  PROVE  CountInv'
<1>1. /\ SendClick(p, "bid", worker, worker, "worker", offer)
      /\ bidClicks' = bidClicks + 1
      /\ DOMAIN slots = Slot
  BY DEF HandleBidSubmit, CountInv, PageInv
<1>2. PICK s \in Slot : /\ slots[s] = Free
                        /\ \A x \in Slot \ {s} : slots'[x] = slots[x]
  <2>1. "bid" \in ClickKind
    BY DEF ClickKind
  <2>2. \E s \in Slot : Sends(s, "bid", worker, worker, "worker", offer, page[p].status)
    BY <1>1, <2>1, ClickSends
  <2>3. QED
    BY <2>2 DEF Sends
<1>3. PendingBids' \subseteq PendingBids \cup {s}
  BY <1>2 DEF PendingBids
<1>4. s \notin PendingBids
  BY <1>2 DEF PendingBids, Free
<1>5. /\ IsFiniteSet(PendingBids \cup {s})
      /\ Cardinality(PendingBids \cup {s}) = Cardinality(PendingBids) + 1
  BY <1>4, PendingIsFinite, FS_AddElement
<1>6. Cardinality(PendingBids') <= Cardinality(PendingBids) + 1
  BY <1>3, <1>5, FS_Subset
<1>7. BidsOf(TheTask)' = BidsOf(TheTask)
  BY <1>1 DEF SendClick, apiVars, vars, BidsOf
<1>8. Cardinality(BidsOf(TheTask)) \in Nat
  BY FS_CardinalityType DEF CountInv
<1>9. QED
  BY <1>1, <1>6, <1>7, <1>8, PendingIsFinite DEF CountInv

(* Only a bid adds a bid.                                                  *)
LEMMA BidsUnmoved ==
  ASSUME IInv, NEW q, Post(q), q.kind # "bid"
  PROVE  BidsOf(TheTask)' = BidsOf(TheTask)
<1>1. bids \in [DOMAIN bids -> BidRecord]
  BY DEF IInv, TypeOK, MapOf
<1>2. ASSUME NEW a, NEW headers, NEW b, PostAssignment(headers, a, TheTask, b)
      PROVE  BidsOf(TheTask)' = BidsOf(TheTask)
  <2>1. bids' = [bids EXCEPT ![b].status = "selected"]
    BY <1>2 DEF PostAssignment, CreateAssignment
  <2>2. DOMAIN bids' = DOMAIN bids /\ \A x \in DOMAIN bids : bids'[x].taskId = bids[x].taskId
    BY <1>1, <2>1 DEF BidRecord
  <2>3. QED
    BY <2>2 DEF BidsOf
<1>3. \/ UNCHANGED bids
      \/ \E a \in AssignmentId : PostAssignment(q.headers, a, TheTask, q.target)
  BY DEF Post, PostSubmit, PostAccept, PostDispute, PostReveal, RecordWorkerSubmission,
         AcceptAssignment, CreateDispute, SubmitReveal
<1>4. QED
  BY <1>2, <1>3 DEF BidsOf

LEMMA PerformCounts ==
  ASSUME CountInv, PageInv', NEW s \in Slot, Perform(s)
  PROVE  CountInv'
<1>1. /\ slots[s].phase = "sent"
      /\ Post(slots[s])
      /\ Handled(s, "done")
      /\ bidClicks' = bidClicks
  BY DEF Perform
<1>2. \A x \in Slot \ {s} : slots'[x] = slots[x]
  BY <1>1 DEF Handled, CountInv, PageInv
<1>3. slots'[s].phase # "sent"
  <2>1. PICK q : q = slots[s]
    OBVIOUS
  <2>2. PICK done : done = [q EXCEPT !.phase = "done"]
    OBVIOUS
  <2>3. IsRequest(q, RecordedKinds, DisputesOf(TheTask))
    BY <1>1, <2>1, UnderWay DEF CountInv
  <2>4. done.phase = "done"
    BY <2>2, <2>3 DEF IsRequest
  <2>5. slots'[s] = done \/ slots'[s] = Free
    BY <1>1, <2>1, <2>2 DEF Handled, CountInv, PageInv
  <2>6. QED
    BY <2>4, <2>5 DEF Free
<1>4. PendingBids' = PendingBids \ {s}
  BY <1>2, <1>3 DEF PendingBids
<1>5. CASE slots[s].kind = "bid"
  <2>1. PICK b, c :
          PostBid(slots[s].headers, b, TheTask, slots[s].target, c, slots[s].offer)
    BY <1>1, <1>5 DEF Post
  <2>2. b \notin DOMAIN bids /\ BidsOf(TheTask)' = BidsOf(TheTask) \cup {b}
    BY <2>1 DEF PostBid, CreateBid, MapSet, BidsOf
  <2>3. b \notin BidsOf(TheTask)
    BY <2>2 DEF BidsOf
  <2>4. /\ IsFiniteSet(BidsOf(TheTask)')
        /\ Cardinality(BidsOf(TheTask)') = Cardinality(BidsOf(TheTask)) + 1
    BY <2>2, <2>3, FS_AddElement DEF CountInv
  <2>5. s \in PendingBids
    BY <1>1, <1>5 DEF PendingBids
  <2>6. Cardinality(PendingBids') = Cardinality(PendingBids) - 1
    BY <1>4, <2>5, PendingIsFinite, FS_RemoveElement
  <2>7. Cardinality(BidsOf(TheTask)) \in Nat
    BY FS_CardinalityType DEF CountInv
  <2>8. QED
    BY <1>1, <2>4, <2>6, <2>7, PendingIsFinite DEF CountInv
<1>6. CASE slots[s].kind # "bid"
  <2>1. BidsOf(TheTask)' = BidsOf(TheTask)
    BY <1>1, <1>6, BidsUnmoved DEF CountInv, PageInv
  <2>2. QED
    BY <1>1, <1>4, <2>1, CountKeeps
<1>7. QED
  BY <1>5, <1>6

LEMMA CountStep ==
  ASSUME CountInv, [TaskPageNext]_pageVars
  PROVE  CountInv'
<1>1. PageInv'
  BY PageStep DEF CountInv
<1>2. ASSUME UNCHANGED bids, bidClicks' = bidClicks,
             \A s \in Slot : \/ slots'[s] = slots[s]
                             \/ slots'[s] = Free
                             \/ IsTurnedAway(slots'[s])
                             \/ slots[s].phase = "sent" /\ slots'[s].kind = slots[s].kind
      PROVE  CountInv'
  <2>1. PendingBids' \subseteq PendingBids
    BY <1>2, TurnedAwayPhase DEF PendingBids, Free
  <2>2. QED
    BY <1>1, <1>2, <2>1, CountKeeps DEF BidsOf
<1>3. DOMAIN slots = Slot
  BY DEF CountInv, PageInv
<1>4. ASSUME NEW c \in Commitment, NEW e \in Execution, CreateTheTask(c, e) PROVE CountInv'
  BY <1>2, <1>4 DEF CreateTheTask, PostTask, CreateTask
<1>5. ASSUME NEW p \in Page, Load(p) \/ LoadFails(p) PROVE CountInv'
  BY <1>2, <1>5 DEF Load, LoadFails, apiVars, vars
<1>6. ASSUME NEW p \in Page, NEW worker \in Party, NEW offer \in Offer,
             HandleBidSubmit(p, worker, offer)
      PROVE  CountInv'
  BY <1>1, <1>6, BidClickCounts
<1>7. ASSUME NEW p \in Page,
             \/ \E b \in BidId : HandleSelectBid(p, b)
             \/ HandleReceiptSubmit(p) \/ HandleSettle(p)
             \/ HandleOpenDispute(p) \/ HandleRevealSubmit(p)
      PROVE  CountInv'
  <2>1. /\ bidClicks' = bidClicks
        /\ \E kind \in ClickKind \ {"bid"} : \E target, actorId, role, offer :
             SendClick(p, kind, target, actorId, role, offer)
    BY <1>7 DEF HandleSelectBid, HandleReceiptSubmit, HandleSettle, HandleOpenDispute,
                HandleRevealSubmit, ClickAsEmployer, ClickKind
  <2>2. QED
    BY <1>1, <2>1, OtherClickCounts
<1>8. ASSUME NEW s \in Slot, Perform(s) PROVE CountInv'
  BY <1>1, <1>8, PerformCounts
<1>9. ASSUME NEW s \in Slot, slots[s].phase = "sent", NEW x, bidClicks' = bidClicks,
             UNCHANGED bids,
             \/ slots' = [slots EXCEPT ![s].phase = x]
             \/ slots' = [slots EXCEPT ![s].awaited = x]
      PROVE  CountInv'
  <2> DEFINE q == slots[s]
  <2>1. IsRequest(q, RecordedKinds, DisputesOf(TheTask))
    BY <1>9, UnderWay DEF CountInv
  <2>2. [q EXCEPT !.phase = x].kind = q.kind /\ [q EXCEPT !.awaited = x].kind = q.kind
    BY <2>1 DEF IsRequest
  <2>3. slots'[s] \in {[q EXCEPT !.phase = x], [q EXCEPT !.awaited = x]}
    BY <1>3, <1>9
  <2>4. \A y \in Slot \ {s} : slots'[y] = slots[y]
    BY <1>3, <1>9
  <2>5. QED
    BY <1>2, <1>9, <2>2, <2>3, <2>4
<1>10. ASSUME NEW s \in Slot, slots' = [slots EXCEPT ![s] = Free], bidClicks' = bidClicks,
              UNCHANGED bids
       PROVE  CountInv'
  <2>1. \A x \in Slot : slots'[x] = slots[x] \/ slots'[x] = Free
    BY <1>3, <1>10
  <2>2. QED
    BY <1>2, <1>10, <2>1
<1>11. ASSUME NEW s \in Slot, Refuse(s) PROVE CountInv'
  BY <1>9, <1>10, <1>11 DEF Refuse, Handled, apiVars, vars
<1>12. ASSUME NEW s \in Slot, Answer(s) \/ Lose(s) PROVE CountInv'
  BY <1>10, <1>12 DEF Answer, Lose, apiVars, vars
<1>13. ASSUME NEW s \in Slot, Abort(s) PROVE CountInv'
  <2>1. PICK no : no = FALSE
    OBVIOUS
  <2>2. /\ UNCHANGED bids /\ bidClicks' = bidClicks
        /\ slots' = [slots EXCEPT ![s] = IF @.phase = "sent" THEN [@ EXCEPT !.awaited = no]
                                         ELSE Free]
    BY <1>13, <2>1 DEF Abort, apiVars, vars
  <2>3. QED
    BY <1>9, <1>10, <2>2
<1>14. ASSUME NEW s \in Slot, TurnAway(s) PROVE CountInv'
  BY <1>2, <1>3, <1>14, TurnedAwayAlone DEF apiVars, vars
<1>15. CASE DropWorkspace
  BY <1>2, <1>15 DEF DropWorkspace, apiVars, vars
<1>16. CASE UNCHANGED pageVars
  BY <1>2, <1>16 DEF pageVars, apiVars, vars
<1>17. QED
  BY <1>4, <1>5, <1>6, <1>7, <1>8, <1>11, <1>12, <1>13, <1>14, <1>15, <1>16
     DEF TaskPageNext

LEMMA CountStart == TaskPageInit => CountInv
<1> SUFFICES ASSUME TaskPageInit PROVE CountInv
  OBVIOUS
<1>1. PageInv /\ bidClicks = 0 /\ Init
  BY PageStart DEF TaskPageInit, ApiInit
<1>2. BidsOf(TheTask) = {}
  <2>1. CASE SeedInitialData
    <3>1. TheTask \notin SeedTaskIds
      BY <2>1, PageAssumption DEF FreshTaskId
    <3>2. bids = SeedBids
      BY <1>1, <2>1 DEF Init
    <3>3. \A b \in DOMAIN bids : bids[b].taskId \in SeedTaskIds
      BY <3>2 DEF SeedBids, SeedBid, SeedBidIds, SeedTaskIds
    <3>4. QED
      BY <3>1, <3>3 DEF BidsOf
  <2>2. CASE ~SeedInitialData
    BY <1>1, <2>2 DEF Init, EmptyMap, BidsOf
  <2>3. QED
    BY <2>1, <2>2
<1>3. PendingBids = {}
  BY DEF TaskPageInit, PendingBids, Free
<1>4. QED
  BY <1>1, <1>2, <1>3, FS_EmptySet DEF CountInv

(* A bid clicked once is there once at most, also when its answer was not  *)
(* awaited.                                                                *)
THEOREM ClicksCountOnce == TaskPageSpec => []NoClickCountsTwice
<1>1. CountInv => NoClickCountsTwice
  BY PendingIsFinite, FS_CardinalityType DEF CountInv, NoClickCountsTwice
<1>2. QED
  BY <1>1, CountStart, CountStep, PTL DEF TaskPageSpec

(***************************************************************************)
(* Why a click may be refused.  Every page shows what the store held at    *)
(* some time (IsSnapshot), every request carries what its page showed      *)
(* (IsClick), and a status the task has left never comes back (Rank).      *)
(***************************************************************************)

(* How far a task has come with this status.                               *)
Rank ==
  [absent |-> 1, open |-> 2, assigned |-> 3, submitted |-> 4, settled |-> 5,
   disputed |-> 5, cancelled |-> 3]

(* A status the task has, or had and will not have again.                  *)
WasStatus(status) ==
  /\ TheTask \in DOMAIN tasks
  /\ status \in TaskStatus
  /\ status = StatusOf(TheTask) \/ Rank[status] < Rank[StatusOf(TheTask)]

IsSnapshot(shown) ==
  /\ shown.status # None => WasStatus(shown.status)
  /\ shown.bids \subseteq BidsOf(TheTask)
  /\ shown.active # None =>
       /\ shown.active \in AssignmentsOf(TheTask)
       /\ shown.worker = assignments[shown.active].workerAddress
  /\ shown.dispute # None =>
       /\ shown.status # None
       /\ shown.dispute \in DisputesOf(TheTask)
       /\ shown.worker = assignments[disputes[shown.dispute].assignmentId].workerAddress

FromWorker(q, worker) == q.headers.role = "worker" /\ q.headers.actorId = worker

(* A request that a page's buttons let through.                            *)
IsClick(q) ==
  /\ WasStatus(q.seen)
  /\ q.kind = "bid" =>
       q.seen = "open" /\ q.target \in Party /\ FromWorker(q, q.target)
  /\ q.kind = "select" =>
       q.seen = "open" /\ q.target \in BidsOf(TheTask) /\ q.headers.role = "employer"
  /\ q.kind = "receipt" =>
       /\ q.seen = "assigned" /\ q.target \in AssignmentsOf(TheTask)
       /\ FromWorker(q, assignments[q.target].workerAddress)
  /\ q.kind \in {"settle", "dispute"} =>
       /\ q.seen = "submitted" /\ q.target \in AssignmentsOf(TheTask)
       /\ q.headers.role = "employer"
  /\ q.kind = "reveal" =>
       /\ q.target \in DisputesOf(TheTask)
       /\ FromWorker(q, assignments[disputes[q.target].assignmentId].workerAddress)

Excused(q) ==
  Elsewhere(q) \/ FromSomebodyElse(q) \/ Unfit(q) \/ StatusOf(TheTask) # q.seen

ExcusedRefusal(q) == IsClick(q) /\ (q.phase = "refused" => Excused(q))

(* What a refusal rests on.                                                *)
RefusalInv ==
  /\ PageInv
  /\ \E env : authConfig = BuildBetaAuthConfig(env)
  /\ BidsServeTheirTasks
  /\ \A p \in Page : IsSnapshot(page[p])
  /\ \A s \in Slot : slots[s] = Free \/ IsTurnedAway(slots[s]) \/ ExcusedRefusal(slots[s])

(* The records a click is about stay what they were.                       *)
LEMMA StatusWas ==
  ASSUME IInv, [Next]_vars, NEW status, WasStatus(status)
  PROVE  /\ WasStatus(status)'
         /\ StatusOf(TheTask) # status => StatusOf(TheTask)' # status
<1>1. TheTask \in TaskId
  BY PageAssumption DEF FreshTaskId
<1>2. /\ IInv'
      /\ TheTask \in DOMAIN tasks'
      /\ StatusOf(TheTask)' = StatusOf(TheTask) \/ EscrowSequence(TheTask)' = EscrowSequence(TheTask) + 1
  BY <1>1, StatusMovesOn, NextPreserves, TermsAreKept DEF IInv, OnlyStatusMoves, WasStatus
<1>3. /\ StatusOf(TheTask) \in TaskStatus
      /\ StatusOf(TheTask)' \in TaskStatus
  BY <1>2 DEF WasStatus, IInv, TypeOK, MapOf, TaskRecord, StatusOf
<1>4. /\ EscrowSequence(TheTask) = Rank[StatusOf(TheTask)]
      /\ EscrowSequence(TheTask)' = Rank[StatusOf(TheTask)']
  BY DEF EscrowSequence, Rank
<1>5. \A x \in TaskStatus : Rank[x] \in Nat
  BY DEF Rank, TaskStatus
<1> DEFINE before == StatusOf(TheTask)
           after == StatusOf(TheTask)'
<1>6. after = before \/ Rank[after] = Rank[before] + 1
  BY <1>2, <1>4
<1>7. status \in TaskStatus /\ (status = before \/ Rank[status] < Rank[before])
  BY DEF WasStatus
<1> HIDE DEF before, after
<1>8. /\ status = after \/ Rank[status] < Rank[after]
      /\ before # status => after # status
  BY <1>3, <1>5, <1>6, <1>7 DEF before, after
<1>9. QED
  BY <1>2, <1>7, <1>8 DEF WasStatus, before, after

LEMMA SnapshotStays ==
  ASSUME IInv, [Next]_vars, NEW shown, IsSnapshot(shown)
  PROVE  IsSnapshot(shown)'
<1>1. OnlyStatusMoves
  BY TermsAreKept DEF IInv
<1>2. shown.status # None => WasStatus(shown.status)'
  BY StatusWas DEF IsSnapshot
<1>3. shown.bids \subseteq BidsOf(TheTask)'
  BY <1>1 DEF IsSnapshot, BidsOf, OnlyStatusMoves
<1>4. shown.active # None =>
        /\ shown.active \in AssignmentsOf(TheTask)'
        /\ shown.worker = assignments'[shown.active].workerAddress
  BY <1>1 DEF IsSnapshot, AssignmentsOf, OnlyStatusMoves
<1>5. shown.dispute # None =>
        /\ shown.status # None
        /\ shown.dispute \in DisputesOf(TheTask)'
        /\ shown.worker = assignments'[disputes'[shown.dispute].assignmentId].workerAddress
  BY <1>1 DEF IsSnapshot, DisputesOf, OnlyStatusMoves, IInv, ReferencesResolve
<1>6. QED
  BY <1>2, <1>3, <1>4, <1>5 DEF IsSnapshot

LEMMA ClickStays ==
  ASSUME IInv, [Next]_vars, NEW q, IsClick(q)
  PROVE  IsClick(q)'
<1>1. OnlyStatusMoves
  BY TermsAreKept DEF IInv
<1>2. WasStatus(q.seen)'
  BY StatusWas DEF IsClick
<1>3. q.target \in BidsOf(TheTask) => q.target \in BidsOf(TheTask)'
  BY <1>1 DEF BidsOf, OnlyStatusMoves
<1>4. q.target \in AssignmentsOf(TheTask) =>
        /\ q.target \in AssignmentsOf(TheTask)'
        /\ assignments'[q.target].workerAddress = assignments[q.target].workerAddress
  BY <1>1 DEF AssignmentsOf, OnlyStatusMoves
<1>5. q.target \in DisputesOf(TheTask) =>
        /\ q.target \in DisputesOf(TheTask)'
        /\ assignments'[disputes'[q.target].assignmentId].workerAddress
             = assignments[disputes[q.target].assignmentId].workerAddress
  BY <1>1 DEF DisputesOf, OnlyStatusMoves, IInv, ReferencesResolve
<1>6. QED
  BY <1>2, <1>3, <1>4, <1>5 DEF IsClick, FromWorker

LEMMA ExcuseStays ==
  ASSUME IInv, [Next]_vars, authConfig' = authConfig, kept' => kept,
         NEW q, IsClick(q), Excused(q)
  PROVE  Excused(q)'
<1>1. /\ TheTask \in DOMAIN tasks
      /\ tasks'[TheTask].employerAddress = tasks[TheTask].employerAddress
      /\ tasks'[TheTask].execution = tasks[TheTask].execution
  BY TermsAreKept DEF IsClick, WasStatus, IInv, OnlyStatusMoves
<1>2. CASE FromSomebodyElse(q)
  BY <1>1, <1>2 DEF FromSomebodyElse, Excused
<1>3. CASE Unfit(q)
  BY <1>1, <1>3 DEF Unfit, Excused
<1>4. CASE StatusOf(TheTask) # q.seen
  <2>1. StatusOf(TheTask)' # q.seen
    BY <1>4, StatusWas DEF IsClick
  <2>2. QED
    BY <2>1 DEF Excused
<1>5. CASE Elsewhere(q)
  BY <1>5 DEF Elsewhere, Excused
<1>6. QED
  BY <1>2, <1>3, <1>4, <1>5 DEF Excused

(* A page loads what the store holds, for whoever asks.                    *)
LEMMA LoadedSnapshot ==
  ASSUME IInv, TheTask \in DOMAIN tasks, NEW actor
  PROVE  IsSnapshot(LoadTaskData(actor))
<1> DEFINE view == ProjectTaskDetail(TheTask, actor)
           active == Shown(view.assignments \cap UnfinishedOf(TheTask), view.assignments)
           latest == Shown(view.disputes \cap OpenDisputesOf(TheTask), view.disputes)
           loaded == LoadTaskData(actor)
           any == CanViewAnyPrivateRecords(TheTask, actor)
<1>1. /\ loaded.status = view.task.status /\ loaded.bids = view.bids
      /\ loaded.active = active /\ loaded.dispute = latest
      /\ loaded.worker = IF active = None THEN None ELSE assignments[active].workerAddress
  BY DEF LoadTaskData
<1>2. /\ view.task = IF CanViewFullTask(TheTask, actor) THEN tasks[TheTask]
                     ELSE ProjectTaskPublic(TheTask)
      /\ view.bids = IF any THEN VisibleBids(TheTask, actor) ELSE {}
      /\ view.assignments = IF any THEN VisibleAssignments(TheTask, actor) ELSE {}
      /\ view.disputes = IF any THEN VisibleDisputes(TheTask, actor) ELSE {}
  BY DEF ProjectTaskDetail
<1> HIDE DEF view, loaded, any
<1>3. /\ view.task.status = tasks[TheTask].status
      /\ tasks[TheTask].status \in TaskStatus
  BY <1>2 DEF ProjectTaskPublic, IInv, TypeOK, MapOf, TaskRecord
<1>4. view.bids \subseteq BidsOf(TheTask)
  BY <1>2 DEF VisibleBids
<1>5. view.assignments \subseteq AssignmentsOf(TheTask) /\ None \notin view.assignments
  BY <1>2, PageAssumption DEF VisibleAssignments, AssignmentsOf, IInv, TypeOK, MapOf
<1>6. /\ active = None \/ active \in view.assignments
      /\ view.assignments # {} => active \in view.assignments
      /\ latest = None \/ latest \in view.disputes
  <2>1. ASSUME NEW first, NEW all, first \subseteq all
        PROVE  IF all = {} THEN Shown(first, all) = None ELSE Shown(first, all) \in all
    BY <2>1 DEF Shown
  <2>2. QED
    BY <2>1
<1> HIDE DEF active, latest
<1>7. ASSUME NEW d \in view.disputes
      PROVE  /\ d \in DisputesOf(TheTask)
             /\ disputes[d].assignmentId = active /\ active \in view.assignments
  <2> DEFINE a == disputes[d].assignmentId
  <2>1. any /\ d \in DisputesOf(TheTask) /\ d \in VisibleDisputes(TheTask, actor)
    BY <1>2, <1>7 DEF VisibleDisputes
  <2>2. a \in DOMAIN assignments /\ assignments[a].taskId = TheTask
    BY <2>1 DEF DisputesOf, IInv, ReferencesResolve
  <2>3. /\ AssignmentsOf(TheTask) = {a}
        /\ assignments[a].employerAddress = tasks[TheTask].employerAddress
    BY <2>2, OneAssignment DEF IInv, SelectedBidIsAssigned
  <2> HIDE DEF a
  <2>4. a \in VisibleAssignments(TheTask, actor)
    BY <2>1, <2>3 DEF a, VisibleDisputes, VisibleAssignments, PartyAssignments, IsParty,
                      OwnsOrAdministers
  <2>5. a \in view.assignments
    BY <1>2, <2>1, <2>4
  <2>6. QED
    BY <1>5, <1>6, <2>1, <2>3, <2>5 DEF a
<1>8. WasStatus(loaded.status) /\ loaded.status # None
  BY <1>1, <1>3 DEF WasStatus, StatusOf, TaskStatus, None
<1>9. QED
  BY <1>1, <1>4, <1>5, <1>6, <1>7, <1>8 DEF IsSnapshot, loaded

(* Headers that name somebody who exists are read as that actor, once they *)
(* are read as anybody.                                                    *)
LEMMA NamedActorActs ==
  ASSUME NEW env, authConfig = BuildBetaAuthConfig(env),
         NEW headers, headers.actorId \in Party, headers.role \in {"employer", "worker"},
         ParseAuthenticatedActor(headers, authConfig) # NoActor,
         NEW roles, headers.role \in roles
  PROVE  Authenticated(headers, roles) = {Actor(headers.actorId, headers.role)}
<1>1. headers.actorId # "" /\ headers.role \in ActorRole
  BY ViewsAssumption DEF ActorRole
<1>2. ParseAuthenticatedActor(headers, authConfig) = Actor(headers.actorId, headers.role)
  BY <1>1, NamedOrNobody
<1>3. Actor(headers.actorId, headers.role).role = headers.role
  BY DEF Actor
<1>4. QED
  BY <1>2, <1>3 DEF Authenticated, RequireAuthenticatedActor

(* The buttons' conditions against the API's: a click without an excuse is *)
(* accepted.                                                               *)
LEMMA AcceptedUnlessExcused ==
  ASSUME IInv, BidsServeTheirTasks, NEW env, authConfig = BuildBetaAuthConfig(env),
         NEW q, q.kind \in ClickKind, IsClick(q), ~ Excused(q)
  PROVE  Accepted(q)
<1> DEFINE task == tasks[TheTask]
<1>1. /\ TheTask \in DOMAIN tasks
      /\ task.status = q.seen
      /\ task.employerAddress \in Party
      /\ ParseAuthenticatedActor(q.headers, authConfig) # NoActor
      /\ q.headers.role = "employer" => q.headers.actorId = task.employerAddress
      /\ q.kind = "bid" => Compatible(task.execution, q.offer)
  BY DEF IsClick, WasStatus, Excused, FromSomebodyElse, Unfit, StatusOf, IInv, TypeOK, MapOf,
         TaskRecord
<1>2. ASSUME NEW roles, q.headers.actorId \in Party, q.headers.role \in {"employer", "worker"},
             q.headers.role \in roles
      PROVE  \E actor \in Authenticated(q.headers, roles) : actor.actorId = q.headers.actorId
  <2>1. Authenticated(q.headers, roles) = {Actor(q.headers.actorId, q.headers.role)}
    BY <1>1, <1>2, NamedActorActs
  <2>2. Actor(q.headers.actorId, q.headers.role).actorId = q.headers.actorId
    BY DEF Actor
  <2>3. QED
    BY <2>1, <2>2
<1>3. ASSUME q.headers.role = "employer"
      PROVE  Admitted(q.headers, {"employer"}, task.employerAddress)
  BY <1>1, <1>2, <1>3 DEF Admitted, RequireActorMatch
<1>4. ASSUME FromWorker(q, q.headers.actorId), q.headers.actorId \in Party
      PROVE  Admitted(q.headers, {"worker"}, q.headers.actorId)
  BY <1>2, <1>4 DEF Admitted, RequireActorMatch, FromWorker
<1>5. ASSUME NEW a \in AssignmentsOf(TheTask)
      PROVE  /\ a \in DOMAIN assignments /\ assignments[a].taskId = TheTask
             /\ assignments[a].workerAddress \in Party
             /\ assignments[a].employerAddress = task.employerAddress
             /\ assignments[a].status \in AssignmentStatus
             /\ task.status = "assigned" => Submittable(a)
             /\ task.status = "submitted" => Settleable(TheTask, a) /\ Disputable(TheTask, a)
  <2>1. /\ a \in DOMAIN assignments /\ assignments[a].taskId = TheTask
        /\ assignments[a].workerAddress \in Party
        /\ assignments[a].employerAddress = task.employerAddress
        /\ assignments[a].status \in AssignmentStatus
    BY <1>5 DEF AssignmentsOf, IInv, TypeOK, MapOf, AssignmentRecord, SelectedBidIsAssigned
  <2>2. task.status = "assigned" => assignments[a].status \in ActiveAssignment
    BY <2>1 DEF IInv, LifecyclesAgree
  <2>3. task.status = "submitted" => assignments[a].status = "submitted"
    BY <2>1 DEF IInv, LifecyclesAgree
  <2>4. task.status = "submitted" => ActiveDisputes(TheTask, a) = {}
    BY <1>1 DEF IInv, DisputeFreezesSettlement, ActiveDisputes
  <2>5. task.status = "assigned" => Submittable(a)
    BY <2>1, <2>2 DEF Submittable, ActiveAssignment
  <2>6. task.status = "submitted" => Settleable(TheTask, a) /\ Disputable(TheTask, a)
    BY <1>1, <2>1, <2>3, <2>4 DEF Settleable, Disputable
  <2>7. QED
    BY <2>1, <2>5, <2>6
<1>6. CASE q.kind = "bid"
  <2>1. task.status = "open" /\ q.target = q.headers.actorId /\ q.headers.actorId \in Party
        /\ FromWorker(q, q.headers.actorId)
    BY <1>1, <1>6 DEF IsClick, FromWorker
  <2>2. Biddable(TheTask, q.offer)
    BY <1>1, <1>6, <2>1 DEF Biddable
  <2>3. QED
    BY <1>4, <1>6, <2>1, <2>2 DEF Accepted
<1>7. CASE q.kind = "select"
  <2>1. task.status = "open" /\ q.target \in BidsOf(TheTask) /\ q.headers.role = "employer"
    BY <1>1, <1>7 DEF IsClick
  <2>2. Selectable(TheTask, q.target)
    BY <1>1, <2>1 DEF Selectable, BidsOf, BidsServeTheirTasks
  <2>3. QED
    BY <1>3, <1>7, <2>1, <2>2 DEF Accepted
<1>8. CASE q.kind = "receipt"
  <2>1. /\ task.status = "assigned" /\ q.target \in AssignmentsOf(TheTask)
        /\ FromWorker(q, q.headers.actorId)
        /\ q.headers.actorId = assignments[q.target].workerAddress
    BY <1>1, <1>8 DEF IsClick, FromWorker
  <2>2. QED
    BY <1>4, <1>5, <1>8, <2>1 DEF Accepted
<1>9. CASE q.kind = "settle"
  <2>1. /\ task.status = "submitted" /\ q.target \in AssignmentsOf(TheTask)
        /\ q.headers.role = "employer"
    BY <1>1, <1>9 DEF IsClick
  <2>2. QED
    BY <1>3, <1>5, <1>9, <2>1 DEF Accepted
<1>10. CASE q.kind = "dispute"
  <2>1. /\ task.status = "submitted" /\ q.target \in AssignmentsOf(TheTask)
        /\ q.headers.role = "employer"
    BY <1>1, <1>10 DEF IsClick
  <2>2. AdmittedParty(q.headers, q.target)
    BY <1>1, <1>2, <1>5, <2>1 DEF AdmittedParty, IsParty, ActorRole
  <2>3. QED
    BY <1>5, <1>10, <2>1, <2>2 DEF Accepted
<1>11. CASE q.kind = "reveal"
  <2> DEFINE a == disputes[q.target].assignmentId
  <2>1. q.target \in DisputesOf(TheTask) /\ FromWorker(q, assignments[a].workerAddress)
    BY <1>11 DEF IsClick
  <2>2. a \in AssignmentsOf(TheTask) /\ Revealable(q.target)
    BY <2>1 DEF DisputesOf, AssignmentsOf, IInv, ReferencesResolve, DisputeFreezesSettlement,
                Revealable
  <2>3. AdmittedParty(q.headers, a)
    BY <1>2, <1>5, <2>1, <2>2 DEF AdmittedParty, IsParty, ActorRole, FromWorker
  <2>4. QED
    BY <1>11, <2>2, <2>3 DEF Accepted
<1>12. QED
  BY <1>6, <1>7, <1>8, <1>9, <1>10, <1>11 DEF ClickKind

(* The other way round, what was performed had been accepted.              *)
LEMMA PerformedWasAccepted == ASSUME NEW q, Post(q) PROVE Accepted(q)
<1>1. ASSUME q.kind = "bid",
             NEW b, NEW c, PostBid(q.headers, b, TheTask, q.target, c, q.offer)
      PROVE  Accepted(q)
  BY <1>1 DEF PostBid, CreateBid, Accepted, Admitted
<1>2. ASSUME q.kind = "select", NEW a, PostAssignment(q.headers, a, TheTask, q.target)
      PROVE  Accepted(q)
  BY <1>2 DEF PostAssignment, CreateAssignment, Accepted, Admitted
<1>3. ASSUME q.kind = "receipt", NEW r, NEW result,
             PostSubmit(q.headers, q.target, BrowserSubmission(r, q, result).workerId,
                        BrowserSubmission(r, q, result), result,
                        CommitReceipt(r, BrowserSubmission(r, q, result)))
      PROVE  Accepted(q)
  <2> DEFINE receipt == BrowserSubmission(r, q, result)
  <2>1. receipt.workerId = q.headers.actorId /\ receipt.taskId = TheTask
    BY DEF BrowserSubmission
  <2> HIDE DEF receipt
  <2>2. /\ Admitted(q.headers, {"worker"}, receipt.workerId)
        /\ Submittable(q.target)
        /\ assignments[q.target].workerAddress = receipt.workerId
        /\ assignments[q.target].taskId = receipt.taskId
    BY <1>3 DEF PostSubmit, Admitted, RecordWorkerSubmission, ReceiptMatches, receipt
  <2>3. QED
    BY <1>3, <2>1, <2>2 DEF Accepted
<1>4. ASSUME q.kind = "settle", PostAccept(q.headers, TheTask, q.target) PROVE Accepted(q)
  BY <1>4 DEF PostAccept, AcceptAssignment, Accepted, Admitted
<1>5. ASSUME q.kind = "dispute", NEW d, PostDispute(q.headers, d, TheTask, q.target)
      PROVE  Accepted(q)
  BY <1>5 DEF PostDispute, CreateDispute, Accepted, AdmittedParty
<1>6. ASSUME q.kind = "reveal", PostReveal(q.headers, q.target) PROVE Accepted(q)
  BY <1>6 DEF PostReveal, SubmitReveal, Accepted, AdmittedParty
<1>7. QED
  BY <1>1, <1>2, <1>3, <1>4, <1>5, <1>6 DEF Post

(* The promise looks at what was clicked, not at how far it has come.      *)
LEMMA SameClick ==
  ASSUME NEW q, NEW r, IsClick(q), r.kind = q.kind, r.target = q.target,
         r.headers = q.headers, r.offer = q.offer, r.seen = q.seen,
         r.findsTask = q.findsTask
  PROVE  IsClick(r) /\ (Excused(q) => Excused(r))
<1>1. IsClick(r)
  BY DEF IsClick, FromWorker
<1>2. Excused(q) => Excused(r)
  BY DEF Excused, FromSomebodyElse, Unfit, Elsewhere
<1>3. QED
  BY <1>1, <1>2

LEMMA HandledIsSame ==
  ASSUME NEW q, NEW recorded, NEW cases, IsRequest(q, recorded, cases), IsClick(q), NEW x,
         NEW r, r = [q EXCEPT !.phase = x]
  PROVE  IsClick(r) /\ r.phase = x /\ (Excused(q) => Excused(r))
<1>1. /\ r.kind = q.kind /\ r.target = q.target /\ r.headers = q.headers
      /\ r.offer = q.offer /\ r.seen = q.seen /\ r.findsTask = q.findsTask /\ r.phase = x
  BY DEF IsRequest
<1>2. QED
  BY <1>1, SameClick

LEMMA AbortedIsSame ==
  ASSUME NEW q, NEW recorded, NEW cases, IsRequest(q, recorded, cases), IsClick(q), NEW x,
         NEW r, r = [q EXCEPT !.awaited = x]
  PROVE  IsClick(r) /\ r.phase = q.phase
<1>1. /\ r.kind = q.kind /\ r.target = q.target /\ r.headers = q.headers
      /\ r.offer = q.offer /\ r.seen = q.seen /\ r.findsTask = q.findsTask
      /\ r.phase = q.phase
  BY DEF IsRequest
<1>2. QED
  BY <1>1, SameClick

LEMMA RefusalKeeps ==
  ASSUME RefusalInv, PageInv', [Next]_vars, authConfig' = authConfig, kept' => kept,
         \A p \in Page : page'[p] = page[p] \/ IsSnapshot(page'[p]),
         \A s \in Slot :
           \/ slots'[s] = slots[s]
           \/ slots'[s] = Free
           \/ IsTurnedAway(slots'[s])
           \/ ExcusedRefusal(slots'[s])
  PROVE  RefusalInv'
<1>1. IInv
  BY DEF RefusalInv, PageInv
<1>2. BidsServeTheirTasks'
  BY <1>1, BidsKeepServing DEF RefusalInv
<1>3. ASSUME NEW p \in Page PROVE IsSnapshot(page[p])'
  <2>1. PICK shown : shown = page'[p]
    OBVIOUS
  <2>2. IsSnapshot(shown)
    BY <2>1 DEF RefusalInv
  <2>3. IsSnapshot(shown)'
    BY <1>1, <2>2, SnapshotStays
  <2>4. QED
    BY <2>1, <2>3 DEF IsSnapshot, WasStatus
<1>4. ASSUME NEW s \in Slot, slots'[s] # Free, ~ IsTurnedAway(slots'[s])
      PROVE  IsClick(slots[s])' /\ (slots'[s].phase = "refused" => Excused(slots[s])')
  <2>1. PICK q : q = slots'[s]
    OBVIOUS
  <2>2. IsClick(q) /\ (q.phase = "refused" => Excused(q))
    BY <1>4, <2>1 DEF RefusalInv, ExcusedRefusal
  <2>3. IsClick(q)' /\ (q.phase = "refused" => Excused(q)')
    BY <1>1, <2>2, ClickStays, ExcuseStays
  <2>4. IsClick(slots[s])'
    BY <2>1, <2>3 DEF IsClick, WasStatus, FromWorker
  <2>5. slots'[s].phase = "refused" => Excused(slots[s])'
    BY <2>1, <2>3 DEF Excused, FromSomebodyElse, Unfit, Elsewhere
  <2>6. QED
    BY <2>4, <2>5
<1>5. \E env : authConfig' = BuildBetaAuthConfig(env)
  BY DEF RefusalInv
<1>6. \A s \in Slot :
        slots'[s] = Free \/ IsTurnedAway(slots[s])' \/ ExcusedRefusal(slots[s])'
  BY <1>4 DEF IsTurnedAway, ExcusedRefusal
<1>7. QED
  BY <1>2, <1>3, <1>5, <1>6 DEF RefusalInv

(* A page's button sends a click of its kind.                              *)
LEMMA RefusalClick ==
  ASSUME RefusalInv, PageInv', NEW p, NEW kind \in ClickKind, NEW target, NEW actorId, NEW role,
         NEW offer, SendClick(p, kind, target, actorId, role, offer),
         kind = "bid" => target \in Party /\ offer \in Offer,
         kind = "reveal" => target \in DisputesOf(TheTask),
         \A q : ClickedAs(q, kind, target, actorId, role, offer, page[p].status) => IsClick(q)
  PROVE  RefusalInv'
<1>1. DOMAIN slots = Slot
  BY DEF RefusalInv, PageInv
<1>2. /\ UNCHANGED <<apiVars, kept, page, notice>>
      /\ \E s \in Slot : Sends(s, kind, target, actorId, role, offer, page[p].status)
  BY <1>1, ClickSends
<1>3. PICK s \in Slot :
        /\ ClickedAs(slots'[s], kind, target, actorId, role, offer, page[p].status)
        /\ \A x \in Slot \ {s} : slots'[x] = slots[x]
  BY <1>2 DEF Sends
<1>4. IsClick(slots'[s]) /\ slots'[s].phase = "sent"
  BY <1>3 DEF ClickedAs
<1>5. QED
  BY <1>2, <1>3, <1>4, RefusalKeeps DEF apiVars, ExcusedRefusal

LEMMA RefusalStep ==
  ASSUME RefusalInv, [TaskPageNext]_pageVars
  PROVE  RefusalInv'
<1>0. PageInv' /\ PageInv /\ IInv
  BY PageStep DEF RefusalInv, PageInv
<1>1. ASSUME NEW c \in Commitment, NEW e \in Execution, CreateTheTask(c, e) PROVE RefusalInv'
  <2>1. TheTask \in TaskId
    BY PageAssumption DEF FreshTaskId
  <2>2. PICK headers : PostTask(headers, TheTask, WalletAddress, c, e)
    BY <1>1 DEF CreateTheTask
  <2>3. Next /\ authConfig' = authConfig
    BY <2>1, <2>2, PageAssumption DEF PostTask, Acts, Next
  <2>4. UNCHANGED <<kept, page, slots>>
    BY <1>1 DEF CreateTheTask
  <2>5. QED
    BY <1>0, <2>3, <2>4, RefusalKeeps
<1>2. ASSUME NEW p \in Page, Load(p) PROVE RefusalInv'
  <2>1. PICK actor : page' = [page EXCEPT ![p] = LoadTaskData(actor)]
    BY <1>2 DEF Load
  <2>2. TheTask \in DOMAIN tasks /\ UNCHANGED <<vars, authConfig, kept, slots>>
    BY <1>2 DEF Load, apiVars
  <2> DEFINE loaded == LoadTaskData(actor)
  <2>3. IsSnapshot(loaded)
    BY <1>0, <2>2, LoadedSnapshot
  <2>4. page' = [page EXCEPT ![p] = loaded]
    BY <2>1
  <2> HIDE DEF loaded
  <2>5. \A x \in Page : page'[x] = page[x] \/ page'[x] = loaded
    BY <1>0, <2>4 DEF PageInv
  <2>6. QED
    BY <1>0, <2>2, <2>3, <2>5, RefusalKeeps
<1>3. ASSUME NEW p \in Page, LoadFails(p) PROVE RefusalInv'
  <2>1. IsSnapshot(NoTask)
    BY DEF IsSnapshot, NoTask
  <2>2. \A x \in Page : page'[x] = page[x] \/ page'[x] = NoTask
    BY <1>0, <1>3 DEF LoadFails, PageInv
  <2>3. UNCHANGED <<vars, authConfig, kept, slots>>
    BY <1>3 DEF LoadFails, apiVars
  <2>4. QED
    BY <1>0, <2>1, <2>2, <2>3, RefusalKeeps
<1>4. ASSUME NEW p \in Page, NEW worker \in Party, NEW offer \in Offer,
             HandleBidSubmit(p, worker, offer)
      PROVE  RefusalInv'
  <2>1. SendClick(p, "bid", worker, worker, "worker", offer) /\ WasStatus("open")
        /\ page[p].status = "open"
    BY <1>4 DEF HandleBidSubmit, RefusalInv, IsSnapshot, None
  <2>2. \A q : ClickedAs(q, "bid", worker, worker, "worker", offer, page[p].status) => IsClick(q)
    BY <2>1 DEF ClickedAs, IsClick, FromWorker
  <2>3. QED
    BY <1>0, <2>1, <2>2, RefusalClick DEF ClickKind
<1>5. ASSUME NEW p \in Page, NEW b \in BidId, HandleSelectBid(p, b) PROVE RefusalInv'
  <2>1. PICK actorId : SendClick(p, "select", b, actorId, "employer", Undefined)
    BY <1>5 DEF HandleSelectBid, ClickAsEmployer
  <2>2. page[p].status = "open" /\ WasStatus("open") /\ b \in BidsOf(TheTask)
    BY <1>5 DEF HandleSelectBid, RefusalInv, IsSnapshot, None
  <2>3. \A q : ClickedAs(q, "select", b, actorId, "employer", Undefined, page[p].status) =>
                 IsClick(q)
    BY <2>2 DEF ClickedAs, IsClick
  <2>4. QED
    BY <1>0, <2>1, <2>3, RefusalClick DEF ClickKind
<1>6. ASSUME NEW p \in Page, HandleReceiptSubmit(p) PROVE RefusalInv'
  <2> DEFINE a == page[p].active
             worker == page[p].worker
  <2>1. SendClick(p, "receipt", a, worker, "worker", Undefined)
    BY <1>6 DEF HandleReceiptSubmit
  <2>2. /\ page[p].status = "assigned" /\ WasStatus("assigned")
        /\ a \in AssignmentsOf(TheTask) /\ worker = assignments[a].workerAddress
    BY <1>6 DEF HandleReceiptSubmit, RefusalInv, IsSnapshot, None
  <2> HIDE DEF a, worker
  <2>3. \A q : ClickedAs(q, "receipt", a, worker, "worker", Undefined, page[p].status) =>
                 IsClick(q)
    BY <2>2 DEF ClickedAs, IsClick, FromWorker
  <2>4. QED
    BY <1>0, <2>1, <2>3, RefusalClick DEF ClickKind
<1>7. ASSUME NEW p \in Page, NEW kind \in {"settle", "dispute"},
             page[p].status = "submitted", page[p].active # None,
             ClickAsEmployer(p, kind, page[p].active)
      PROVE  RefusalInv'
  <2> DEFINE a == page[p].active
  <2>1. PICK actorId : SendClick(p, kind, a, actorId, "employer", Undefined)
    BY <1>7 DEF ClickAsEmployer
  <2>2. WasStatus("submitted") /\ a \in AssignmentsOf(TheTask)
    BY <1>7 DEF RefusalInv, IsSnapshot, None
  <2> HIDE DEF a
  <2>3. \A q : ClickedAs(q, kind, a, actorId, "employer", Undefined, page[p].status) => IsClick(q)
    BY <1>7, <2>2 DEF ClickedAs, IsClick
  <2>4. QED
    BY <1>0, <1>7, <2>1, <2>3, RefusalClick DEF ClickKind
<1>8. ASSUME NEW p \in Page, HandleRevealSubmit(p) PROVE RefusalInv'
  <2> DEFINE d == page[p].dispute
             worker == page[p].worker
  <2>1. SendClick(p, "reveal", d, worker, "worker", Undefined)
    BY <1>8 DEF HandleRevealSubmit
  <2>2. /\ WasStatus(page[p].status) /\ d \in DisputesOf(TheTask)
        /\ worker = assignments[disputes[d].assignmentId].workerAddress
    BY <1>8 DEF HandleRevealSubmit, CanSubmitReveal, RefusalInv, IsSnapshot
  <2> HIDE DEF d, worker
  <2>3. \A q : ClickedAs(q, "reveal", d, worker, "worker", Undefined, page[p].status) =>
                 IsClick(q)
    BY <2>2 DEF ClickedAs, IsClick, FromWorker
  <2>4. QED
    BY <1>0, <2>1, <2>2, <2>3, RefusalClick DEF ClickKind
<1>9. ASSUME NEW s \in Slot, NEW phase \in {"done", "refused"}, slots[s].phase = "sent",
             Handled(s, phase), [Next]_vars, UNCHANGED <<authConfig, kept, page>>,
             phase = "refused" => Elsewhere(slots[s]) \/ ~ Accepted(slots[s])
      PROVE  RefusalInv'
  <2> DEFINE q == slots[s]
  <2>1. /\ IsRequest(q, RecordedKinds, DisputesOf(TheTask))
        /\ IsClick(q) /\ q.kind \in ClickKind
    <3>1. IsRequest(q, RecordedKinds, DisputesOf(TheTask))
      BY <1>0, <1>9, UnderWay
    <3>2. q # Free /\ ~ IsTurnedAway(q)
      BY <1>9, TurnedAwayPhase DEF Free
    <3>3. QED
      BY <3>1, <3>2 DEF RefusalInv, ExcusedRefusal, IsRequest
  <2>2. phase = "refused" => Excused(q)
    BY <1>0, <1>9, <2>1, AcceptedUnlessExcused DEF RefusalInv, Excused
  <2>3. slots'[s] = [q EXCEPT !.phase = phase] \/ slots'[s] = Free
    BY <1>0, <1>9 DEF Handled, PageInv
  <2>4. \A x \in Slot \ {s} : slots'[x] = slots[x]
    BY <1>0, <1>9 DEF Handled, PageInv
  <2>5. PICK r : r = slots'[s]
    OBVIOUS
  <2> HIDE DEF q
  <2>6. ASSUME r = [q EXCEPT !.phase = phase]
        PROVE  ExcusedRefusal(r)
    <3>1. IsClick(r) /\ r.phase = phase /\ (Excused(q) => Excused(r))
      BY <2>1, <2>6, HandledIsSame
    <3>2. QED
      BY <2>2, <3>1 DEF ExcusedRefusal
  <2>7. slots'[s] = Free \/ ExcusedRefusal(slots'[s])
    BY <2>3, <2>5, <2>6
  <2>8. QED
    BY <1>0, <1>9, <2>4, <2>7, RefusalKeeps
<1>10. ASSUME NEW s \in Slot, Perform(s) PROVE RefusalInv'
  <2>1. slots[s].phase = "sent" /\ Post(slots[s])
    BY <1>10 DEF Perform
  <2>2. IsRequest(slots[s], RecordedKinds, DisputesOf(TheTask))
    BY <1>0, <2>1, UnderWay
  <2>3. Next
    BY <1>0, <2>1, <2>2, PostRecords
  <2>4. authConfig' = authConfig
    BY <2>1 DEF Post, PostBid, PostAssignment, PostSubmit, PostAccept, PostDispute, PostReveal,
                Acts
  <2>5. QED
    BY <1>9, <1>10, <2>1, <2>3, <2>4 DEF Perform
<1>11. ASSUME NEW s \in Slot, Refuse(s) PROVE RefusalInv'
  BY <1>9, <1>11 DEF Refuse, apiVars
<1>12. ASSUME NEW s \in Slot, slots' = [slots EXCEPT ![s] = Free],
              UNCHANGED <<vars, authConfig, kept, page>>
       PROVE  RefusalInv'
  <2>1. \A x \in Slot : slots'[x] = slots[x] \/ slots'[x] = Free
    BY <1>0, <1>12 DEF PageInv
  <2>2. QED
    BY <1>0, <1>12, <2>1, RefusalKeeps
<1>13. ASSUME NEW s \in Slot, Abort(s) PROVE RefusalInv'
  <2>0. PICK no : no = FALSE
    OBVIOUS
  <2>1. UNCHANGED <<vars, authConfig, kept, page>>
    BY <1>13 DEF Abort, apiVars
  <2>2. /\ \A x \in Slot \ {s} : slots'[x] = slots[x]
        /\ \/ slots[s].phase = "sent" /\ slots'[s] = [slots[s] EXCEPT !.awaited = no]
           \/ slots'[s] = Free
    BY <1>0, <1>13, <2>0 DEF Abort, PageInv
  <2>3. slots[s].phase = "sent" =>
          IsRequest(slots[s], RecordedKinds, DisputesOf(TheTask)) /\ IsClick(slots[s])
    <3>1. slots[s].phase = "sent" => slots[s] # Free /\ ~ IsTurnedAway(slots[s])
      BY TurnedAwayPhase DEF Free
    <3>2. QED
      BY <1>0, <3>1, UnderWay DEF RefusalInv, ExcusedRefusal
  <2>4. \/ slots'[s] = Free
        \/ IsClick(slots'[s]) /\ slots'[s].phase = "sent"
    <3>1. PICK q, r : q = slots[s] /\ r = slots'[s]
      OBVIOUS
    <3>2. ASSUME q.phase = "sent", r = [q EXCEPT !.awaited = no]
          PROVE  IsClick(r) /\ r.phase = q.phase
      BY <2>3, <3>1, <3>2, AbortedIsSame
    <3>3. QED
      BY <2>2, <3>1, <3>2
  <2>5. QED
    BY <1>0, <2>1, <2>2, <2>4, RefusalKeeps DEF ExcusedRefusal
<1>14. CASE UNCHANGED pageVars
  BY <1>0, <1>14, RefusalKeeps DEF pageVars, apiVars
<1>15. ASSUME NEW p \in Page, HandleSettle(p) \/ HandleOpenDispute(p) PROVE RefusalInv'
  BY <1>7, <1>15 DEF HandleSettle, HandleOpenDispute, CanOpenDispute
<1>16. ASSUME NEW s \in Slot, Answer(s) \/ Lose(s) PROVE RefusalInv'
  BY <1>12, <1>16 DEF Answer, Lose, apiVars
<1>17. ASSUME NEW s \in Slot, TurnAway(s) PROVE RefusalInv'
  <2>1. DOMAIN slots = Slot
    BY <1>0 DEF PageInv
  <2>2. QED
    BY <1>0, <1>17, <2>1, TurnedAwayAlone, RefusalKeeps DEF apiVars
<1>18. CASE DropWorkspace
  BY <1>0, <1>18, RefusalKeeps DEF DropWorkspace, apiVars
<1>19. QED
  BY <1>1, <1>2, <1>3, <1>4, <1>5, <1>6, <1>8, <1>10, <1>11, <1>13, <1>14, <1>15, <1>16,
     <1>17, <1>18 DEF TaskPageNext

(* A handler refuses a click only if it went to a store without the task,  *)
(* came from somebody else than it should, offered what the task does not  *)
(* ask for, or was overtaken.                                              *)
THEOREM RefusalsAreExcused == TaskPageSpec => []RefusedClickWasOvertaken
<1>1. TaskPageInit => RefusalInv
  <2> SUFFICES ASSUME TaskPageInit PROVE RefusalInv
    OBVIOUS
  <2>1. PageInv /\ BidsServeTheirTasks /\ \E env : authConfig = BuildBetaAuthConfig(env)
    BY PageStart, SeededBidsServe DEF TaskPageInit, ApiInit
  <2>2. (\A p \in Page : page[p] = NoTask) /\ (\A s \in Slot : slots[s] = Free)
    BY DEF TaskPageInit
  <2>3. IsSnapshot(NoTask)
    BY DEF IsSnapshot, NoTask
  <2>4. QED
    BY <2>1, <2>2, <2>3 DEF RefusalInv
<1>2. RefusalInv => RefusedClickWasOvertaken
  <2> SUFFICES ASSUME RefusalInv, NEW s \in Slot, slots[s].phase = "refused"
               PROVE  Excused(slots[s])
    BY DEF RefusedClickWasOvertaken, Excused
  <2>1. slots[s] # Free /\ ~ IsTurnedAway(slots[s])
    BY TurnedAwayPhase DEF Free
  <2>2. QED
    BY <2>1 DEF RefusalInv, ExcusedRefusal
<1>3. QED
  BY <1>1, <1>2, RefusalStep, PTL DEF TaskPageSpec

=============================================================================
