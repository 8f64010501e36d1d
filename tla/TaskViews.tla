------------------------------ MODULE TaskViews ------------------------------
(***************************************************************************)
(* What the API shows of a task: the compact projection (apps/api/src/     *)
(* compact.ts) and the redaction of GET /v1/tasks/:taskId (routes/tasks.ts).*)
(* All of it is computed from the store on each request; an actor is a     *)
(* record [actorId, role], or NoViewer.                                    *)
(*                                                                         *)
(* Fields the store's model leaves out are left out here: of the private   *)
(* witness only the parts that come from the records' existence are kept,  *)
(* and a list sorted by age is a set whose newest member is any of them.   *)
(***************************************************************************)
EXTENDS NightShiftStore

(* A commitment is a digest, never the contract's word for none, and an    *)
(* address is not empty (schemas.ts).                                      *)
ASSUME ViewsAssumption ==
  /\ "nightshift:none:bid" \notin Commitment
  /\ "" \notin Party

BidsOf(t)     == {b \in DOMAIN bids : bids[b].taskId = t}
DisputesOf(t) == {d \in DOMAIN disputes : disputes[d].taskId = t}

UnfinishedOf(t) ==
  {a \in AssignmentsOf(t) : assignments[a].status \notin {"completed", "cancelled"}}

OpenDisputesOf(t) == {d \in DisputesOf(t) : disputes[d].status \in ActiveDispute}

SelectedWhileActive(t) ==     \* slip: forgotten when the assignment completes
  {b \in BidsOf(t) : \E a \in UnfinishedOf(t) : assignments[a].bidId = b}

(* The bid of the unfinished assignment, or else one marked as selected.   *)
SelectedBidsOf(t) ==
  LET assigned == {b \in BidsOf(t) : \E a \in UnfinishedOf(t) : assignments[a].bidId = b}
  IN  IF assigned # {} THEN assigned ELSE {b \in BidsOf(t) : bids[b].status = "selected"}

DerivePhase(status) ==
  [open |-> "sealed-bidding", assigned |-> "assignment-active",
   submitted |-> "receipt-submitted", disputed |-> "dispute-open",
   settled |-> "settled", cancelled |-> "cancelled"][status]

DeriveNextTransition(phase) ==
  CASE phase = "sealed-bidding"    -> {"selectBid"}
    [] phase = "assignment-active" -> {"submitReceipt"}
    [] phase = "receipt-submitted" -> {"settle", "openDispute"}
    [] phase = "dispute-open"      -> {"submitReveal", "resolveDispute"}
    [] OTHER                       -> {}

Labelled(label, values) == {<<label, value>> : value \in values}

(* A label without a value is left out.                                    *)
PublicInputs(t) ==
  Labelled("taskCommitment", {tasks[t].taskCommitment})
  \cup Labelled("bidCommitment", {bids[b].bidCommitment : b \in SelectedBidsOf(t)})
  \cup Labelled("assignmentId", UnfinishedOf(t))
  \cup Labelled("receiptCommitment", {receipts[r].receiptCommitment : r \in ReceiptsOf(t)})
  \cup Labelled("disputeId", OpenDisputesOf(t))

(* A reference to the artifacts comes with the seeded receipt alone.       *)
DerivePrivateWitness(t) ==
  {"receiptArtifactBundle" : r \in ReceiptsOf(t) \cap SeedReceiptIds}
  \cup {"selectiveRevealBundle" :
          d \in {x \in OpenDisputesOf(t) : disputes[x].revealedBy # Undefined}}

CompactProjection(t) ==
  LET phase == DerivePhase(tasks[t].status)
      shown == [phase |-> phase, publicInputs |-> PublicInputs(t),
                privateWitness |-> DerivePrivateWitness(t),
                nextTransition |-> DeriveNextTransition(phase)]
  IN  [shown |-> shown, stateCommitment |-> HashCanonicalJson(<<t, shown>>)]

-----------------------------------------------------------------------------
NoViewer == [actorId |-> "", role |-> ""]

Viewer == {NoViewer} \cup [actorId : Party, role : {"employer", "worker", "admin"}]

OwnsOrAdministers(t, actor) ==
  actor # NoViewer /\ (actor.role = "admin" \/ actor.actorId = tasks[t].employerAddress)

CanViewFullTask(t, actor) ==
  \/ OwnsOrAdministers(t, actor)
  \/ \E a \in AssignmentsOf(t) : assignments[a].workerAddress = actor.actorId

CanViewAnyPrivateRecords(t, actor) ==
  CanViewFullTask(t, actor) \/ \E b \in BidsOf(t) : bids[b].workerAddress = actor.actorId

VisibleBids(t, actor) ==
  IF OwnsOrAdministers(t, actor) THEN BidsOf(t)
  ELSE {b \in BidsOf(t) : bids[b].workerAddress = actor.actorId}

VisibleAssignments(t, actor) ==
  IF OwnsOrAdministers(t, actor) THEN AssignmentsOf(t)
  ELSE {a \in AssignmentsOf(t) : assignments[a].workerAddress = actor.actorId}

PartyAssignments(t, actor) ==
  {a \in AssignmentsOf(t) : actor # NoViewer /\ (actor.role = "admin" \/ IsParty(a, actor.actorId))}

VisibleReceipts(t, actor) ==
  IF OwnsOrAdministers(t, actor) THEN ReceiptsOf(t)
  ELSE {r \in ReceiptsOf(t) : \/ receipts[r].workerId = actor.actorId
                              \/ receipts[r].assignmentId \in PartyAssignments(t, actor)}

VisibleDisputesOpened(t, actor) ==     \* slip: to who opened them
  IF OwnsOrAdministers(t, actor) THEN DisputesOf(t)
  ELSE {d \in DisputesOf(t) : disputes[d].openedBy = actor.actorId}

VisibleDisputes(t, actor) ==
  IF OwnsOrAdministers(t, actor) THEN DisputesOf(t)
  ELSE {d \in DisputesOf(t) : disputes[d].assignmentId \in PartyAssignments(t, actor)}

(* The public part of a task: its status and its projection.               *)
ProjectTaskPublic(t) ==
  [status |-> tasks[t].status, taskCommitment |-> tasks[t].taskCommitment,
   compactProjection |-> CompactProjection(t)]

ProjectTaskDetail(t, actor) ==
  LET Guarded(records) == IF CanViewAnyPrivateRecords(t, actor) THEN records ELSE {}
  IN  [task        |-> IF CanViewFullTask(t, actor) THEN tasks[t] ELSE ProjectTaskPublic(t),
       bids        |-> Guarded(VisibleBids(t, actor)),
       assignments |-> Guarded(VisibleAssignments(t, actor)),
       receipts    |-> Guarded(VisibleReceipts(t, actor)),
       disputes    |-> Guarded(VisibleDisputes(t, actor))]

-----------------------------------------------------------------------------
Inputs(t, label) == {i[2] : i \in {j \in PublicInputs(t) : j[1] = label}}

Held(value, none) == IF value = none THEN {} ELSE {value}

(* The projection published beside a task is the ledger the escrow would   *)
(* have: its bid and its receipt are on show exactly while the escrow      *)
(* holds them, and they are the escrow's - also once the assignment that   *)
(* led to them is completed - and a dispute exactly while one is on        *)
(* (compact.ts:19, tasks.ts:14).                                           *)
ProjectionTracksEscrow ==
  \A t \in DOMAIN tasks :
    /\ Inputs(t, "taskCommitment") = {EscrowTask(t)}
    /\ Inputs(t, "bidCommitment") = Held(EscrowBid(t), "nightshift:none:bid")
    /\ Inputs(t, "receiptCommitment") = Held(EscrowReceipt(t), NoReceipt)
    /\ Inputs(t, "disputeId") # {} <=> EscrowPhase(t) = "DISPUTED"
    /\ Inputs(t, "assignmentId") # {} <=> EscrowPhase(t) \in {"ASSIGNED", "SUBMITTED", "DISPUTED"}

(* Who may act on an assignment can read the case: the full task, the      *)
(* assignment, its bid, its receipts and its disputes, also the other      *)
(* side's; and who may not gets at most its own sealed bids                *)
(* (tasks.ts:96-140, disputes.ts:23).                                      *)
PartiesSeeTheirCase ==
  \A t \in DOMAIN tasks : \A actor \in Viewer :
    LET view == ProjectTaskDetail(t, actor)
    IN  /\ \A a \in AssignmentsOf(t) : IsParty(a, actor.actorId) =>
             /\ view.task = tasks[t]
             /\ a \in view.assignments
             /\ assignments[a].bidId \in view.bids
             /\ \A r \in ReceiptsOf(t) : r \in view.receipts
             /\ \A d \in DisputesOf(t) : d \in view.disputes
        /\ ~ OwnsOrAdministers(t, actor)
           /\ (\A a \in AssignmentsOf(t) : ~ IsParty(a, actor.actorId)) =>
             /\ view.task = ProjectTaskPublic(t)
             /\ view.assignments = {} /\ view.receipts = {} /\ view.disputes = {}
             /\ \A b \in view.bids : bids[b].workerAddress = actor.actorId

=============================================================================
