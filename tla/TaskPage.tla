------------------------------ MODULE TaskPage -------------------------------
(***************************************************************************)
(* The page of one task (apps/web: loadTaskData of lib/api.ts and          *)
(* components/task-detail-actions.tsx) in several browsers, over the API.  *)
(*                                                                         *)
(* A page is a snapshot: its buttons are enabled by what the task was like *)
(* when it was loaded.  runAction starts its work without waiting for it,  *)
(* so a page never waits for one click before the next.  A request is      *)
(* handled some time after it was sent and answered some time after that;  *)
(* after six seconds the page gives up on it, and it may still be handled. *)
(*                                                                         *)
(* The session of the browser and its wallet change at any time, here or in*)
(* another tab (WebSession): a load or a click finds them in any state, the*)
(* workspace of the session included, which the page's own button changes, *)
(* too.  The store modelled is that of the workspace the task was made in; *)
(* a request to another workspace, or to this one after it was dropped     *)
(* (Workspaces), comes to a store without the task.  The bid form lets any *)
(* offer be made, fit for the task or not.                                 *)
(***************************************************************************)
EXTENDS NightShiftApi, TaskViews, FiniteSets

CONSTANTS
  TheTask,      \* the task the pages show
  WorkspaceId, TheWorkspace, DefaultWorkspaceId,   \* workspaces; the task's one
  Page,         \* open pages
  Slot,         \* bounds the requests under way
  BrowserSession   \* sessions a browser may have: [token, actorId, role]

WalletAddress == "0xA11cE"

None == "none"   \* the page's undefined

(* The task is made by a page, for the wallet's address.  An identifier is *)
(* a UUID.                                                                 *)
ASSUME PageAssumption ==
  /\ TheTask \in FreshTaskId
  /\ {TheWorkspace, DefaultWorkspaceId} \subseteq WorkspaceId
  /\ IsFiniteSet(Slot)
  /\ WalletAddress \in Party
  /\ None \notin AssignmentId
  /\ "generated" \in SentStatus

VARIABLES
  kept,         \* whether the task's workspace still has the task's store
  page,         \* the snapshot each page shows
  slots,        \* requests under way
  notice,       \* what each page says of its last click: [tone, kind]
  bidClicks     \* how often a bid was submitted

pageVars == <<apiVars, kept, page, slots, notice, bidClicks>>

NoTask ==
  [status |-> None, requester |-> None, bids |-> {}, active |-> None, worker |-> None,
   dispute |-> None, disputeStatus |-> None]

NoSession == [token |-> "", actorId |-> "", role |-> ""]

Free == [phase |-> "free"]

TaskPageInit ==
  /\ ApiInit
  /\ kept = TRUE
  /\ page = [p \in Page |-> NoTask]
  /\ slots = [s \in Slot |-> Free]
  /\ notice = [p \in Page |-> <<"neutral", None>>]
  /\ bidClicks = 0

-----------------------------------------------------------------------------
(* A record the page shows, or None; the active one comes first.           *)
Shown(active, all) ==
  IF active # {} THEN CHOOSE x \in active : TRUE
  ELSE IF all # {} THEN CHOOSE x \in all : TRUE
  ELSE None

(* loadTaskData: the API's projection, read field by field.                *)
LoadTaskData(actor) ==
  LET view   == ProjectTaskDetail(TheTask, actor)
      active == Shown(view.assignments \cap UnfinishedOf(TheTask), view.assignments)
      latest == Shown(view.disputes \cap OpenDisputesOf(TheTask), view.disputes)
  IN  [status    |-> view.task.status,
       requester |-> IF "employerAddress" \in DOMAIN view.task THEN view.task.employerAddress
                     ELSE "Unknown requester",
       bids      |-> view.bids,
       active    |-> active,
       worker    |-> IF active = None THEN None ELSE assignments[active].workerAddress,
       dispute   |-> latest,
       disputeStatus |-> IF latest = None THEN None ELSE disputes[latest].status]

(* The page asks on behalf of its session, which has a workspace; without  *)
(* a complete one it asks for the default one's task (page.tsx:13-15).     *)
Load(p) ==
  /\ kept /\ TheTask \in DOMAIN tasks
  /\ \E session \in BrowserSession \cup {NoSession} :
       /\ session = NoSession => TheWorkspace = DefaultWorkspaceId
       /\ page' = [page EXCEPT ![p] = LoadTaskData(ParseAuthenticatedActor(session, authConfig))]
  /\ UNCHANGED <<apiVars, kept, slots, notice, bidClicks>>

(* No answer, or no such task in the session's workspace, and none of this *)
(* name among the built-in ones.                                           *)
LoadFails(p) ==
  /\ page' = [page EXCEPT ![p] = NoTask]
  /\ UNCHANGED <<apiVars, kept, slots, notice, bidClicks>>

(* The store expires unused, or makes room.  The next request to the       *)
(* workspace gets a new one, where the task's identifier is never made     *)
(* again.                                                                  *)
DropWorkspace ==
  /\ kept /\ TheWorkspace # DefaultWorkspaceId
  /\ kept' = FALSE
  /\ UNCHANGED <<apiVars, page, slots, notice, bidClicks>>

(* The create form's request, answered at once.                            *)
CreateTheTask(c, e) ==
  /\ kept
  /\ PostTask([token |-> "nightshift-employer-beta-token", actorId |-> WalletAddress,
               role |-> "employer"], TheTask, WalletAddress, c, e)
  /\ UNCHANGED <<kept, page, slots, notice, bidClicks>>

-----------------------------------------------------------------------------
(* The clicks.                                                             *)

(* The wallet is connected or not.                                         *)
EmployerActorId(p) == {WalletAddress, page[p].requester}

CanOpenDisputeAgain(p) ==   \* slip: enabled as long as it is disputed, too
  page[p].status \in {"submitted", "disputed"} /\ page[p].active # None

CanOpenDispute(p) == page[p].status = "submitted" /\ page[p].active # None

CanSubmitReveal(p) ==
  /\ page[p].dispute # None
  /\ \/ page[p].status = "disputed"
     \/ page[p].disputeStatus \in ActiveDispute

(* The session's token goes with the names the page fills in, and to the   *)
(* workspace of the cookie, also without a session.                        *)
SendClick(p, kind, target, actorId, role, offer) ==
  /\ \E s \in Slot, session \in BrowserSession \cup {NoSession}, workspaceId \in WorkspaceId :
       /\ slots[s] = Free
       /\ slots' = [slots EXCEPT ![s] =
            [phase |-> "sent", awaited |-> TRUE, kind |-> kind, page |-> p, target |-> target,
             headers |-> [token |-> session.token, actorId |-> actorId, role |-> role],
             findsTask |-> kept /\ workspaceId = TheWorkspace,
             offer |-> offer, seen |-> page[p].status]]
  /\ UNCHANGED <<apiVars, kept, page, notice>>

ClickAsEmployer(p, kind, target) ==
  \E actorId \in EmployerActorId(p) : SendClick(p, kind, target, actorId, "employer", Undefined)

HandleBidSubmit(p, worker, offer) ==
  /\ page[p].status = "open"
  /\ bidClicks < Cardinality(BidId)
  /\ SendClick(p, "bid", worker, worker, "worker", offer)
  /\ bidClicks' = bidClicks + 1

HandleSelectBid(p, b) ==
  /\ page[p].status = "open"
  /\ b \in page[p].bids
  /\ ClickAsEmployer(p, "select", b)
  /\ UNCHANGED bidClicks

HandleReceiptSubmit(p) ==
  /\ page[p].status = "assigned" /\ page[p].active # None
  /\ SendClick(p, "receipt", page[p].active, page[p].worker, "worker", Undefined)
  /\ UNCHANGED bidClicks

HandleSettle(p) ==
  /\ page[p].status = "submitted" /\ page[p].active # None
  /\ ClickAsEmployer(p, "settle", page[p].active)
  /\ UNCHANGED bidClicks

HandleOpenDispute(p) ==
  /\ CanOpenDispute(p)
  /\ ClickAsEmployer(p, "dispute", page[p].active)
  /\ UNCHANGED bidClicks

HandleRevealSubmit(p) ==
  /\ CanSubmitReveal(p)
  /\ SendClick(p, "reveal", page[p].dispute, page[p].worker, "worker", Undefined)
  /\ UNCHANGED bidClicks

-----------------------------------------------------------------------------
(* The API and the answers.                                                *)

(* buildBrowserBetaSubmission: a receipt of its own for every click.       *)
BrowserSubmission(r, request, result) ==
  [receiptId |-> r, assignmentId |-> request.target, taskId |-> TheTask,
   bidId |-> assignments[request.target].bidId, workerId |-> request.headers.actorId,
   status |-> "generated", resultHash |-> HashCanonicalJson(result)]

Post(request) ==
  \/ /\ request.kind = "bid"
     /\ \E b \in BidId, c \in Commitment :
          PostBid(request.headers, b, TheTask, request.target, c, request.offer)
  \/ /\ request.kind = "select"
     /\ \E a \in AssignmentId : PostAssignment(request.headers, a, TheTask, request.target)
  \/ /\ request.kind = "receipt"
     /\ \E r \in ReceiptId, result \in Content :
          LET receipt == BrowserSubmission(r, request, result)
          IN  PostSubmit(request.headers, request.target, receipt.workerId, receipt, result,
                         CommitReceipt(r, receipt))
  \/ request.kind = "settle" /\ PostAccept(request.headers, TheTask, request.target)
  \/ /\ request.kind = "dispute"
     /\ \E d \in DisputeId : PostDispute(request.headers, d, TheTask, request.target)
  \/ request.kind = "reveal" /\ PostReveal(request.headers, request.target)

(* What the routes and the store ask of a click's request.  The identifier *)
(* that is made for its record is not part of it.                          *)
Accepted(request) ==
  \/ /\ request.kind = "bid"
     /\ Biddable(TheTask, request.offer)
     /\ Admitted(request.headers, {"worker"}, request.target)
  \/ /\ request.kind = "select"
     /\ Selectable(TheTask, request.target)
     /\ Admitted(request.headers, {"employer"}, tasks[TheTask].employerAddress)
  \/ /\ request.kind = "receipt"
     /\ Submittable(request.target)
     /\ assignments[request.target].taskId = TheTask
     /\ assignments[request.target].workerAddress = request.headers.actorId
     /\ Admitted(request.headers, {"worker"}, request.headers.actorId)
  \/ /\ request.kind = "settle"
     /\ Settleable(TheTask, request.target)
     /\ Admitted(request.headers, {"employer"}, tasks[TheTask].employerAddress)
  \/ /\ request.kind = "dispute"
     /\ Disputable(TheTask, request.target)
     /\ AdmittedParty(request.headers, request.target)
  \/ /\ request.kind = "reveal"
     /\ Revealable(request.target)
     /\ AdmittedParty(request.headers, disputes[request.target].assignmentId)

(* A request that nobody waits for any more leaves no trace in a page.     *)
Handled(s, phase) ==
  slots' = [slots EXCEPT ![s] = IF @.awaited THEN [@ EXCEPT !.phase = phase] ELSE Free]

(* A request keeps the store it was given when it came in, also when the   *)
(* workspace is dropped before its handler runs.                           *)
Perform(s) ==
  /\ slots[s].phase = "sent"
  /\ slots[s].findsTask
  /\ Post(slots[s])
  /\ Handled(s, "done")
  /\ UNCHANGED <<kept, page, notice, bidClicks>>

(* An error from before the handler's own checks, at any time: the         *)
(* limiter's 429, or a validation_error for what was typed into the form.  *)
(* What was asked for plays no part any more.                              *)
TurnAway(s) ==
  /\ slots[s].phase = "sent"
  /\ slots' = [slots EXCEPT ![s] =
       IF @.awaited THEN [phase |-> "turned_away", awaited |-> TRUE,
                          kind |-> @.kind, page |-> @.page]
       ELSE Free]
  /\ UNCHANGED <<apiVars, kept, page, notice, bidClicks>>

(* The store without the task knows none of its identifiers.               *)
Elsewhere(request) == ~kept \/ ~request.findsTask

Refuse(s) ==
  /\ slots[s].phase = "sent"
  /\ Elsewhere(slots[s]) \/ ~Accepted(slots[s])
  /\ Handled(s, "refused")
  /\ UNCHANGED <<apiVars, kept, page, notice, bidClicks>>

Notify(s, tone) == notice' = [notice EXCEPT ![slots[s].page] = <<tone, slots[s].kind>>]

AnswerBlindly(s) ==       \* slip: the status of the answer is not looked at
  /\ slots[s].phase \notin {"free", "sent"}
  /\ Notify(s, "success")
  /\ slots' = [slots EXCEPT ![s] = Free]
  /\ UNCHANGED <<apiVars, kept, page, bidClicks>>

(* After a success the page is asked for again: Load.                      *)
Answer(s) ==
  /\ slots[s].phase \notin {"free", "sent"}
  /\ Notify(s, IF slots[s].phase = "done" THEN "success" ELSE "error")
  /\ slots' = [slots EXCEPT ![s] = Free]
  /\ UNCHANGED <<apiVars, kept, page, bidClicks>>

AbortAndRetry(s) ==       \* slip: what was not answered in time is sent again
  /\ slots[s].phase \in {"sent", "done", "refused"}
  /\ slots[s].awaited
  /\ Notify(s, "error")
  /\ slots' = [slots EXCEPT ![s].phase = "sent"]
  /\ UNCHANGED <<apiVars, kept, page, bidClicks>>

(* The timer covers the whole of the answer.                               *)
Abort(s) ==
  /\ slots[s].phase # "free"
  /\ slots[s].awaited
  /\ Notify(s, "error")
  /\ slots' = [slots EXCEPT ![s] = IF @.phase = "sent" THEN [@ EXCEPT !.awaited = FALSE]
                                   ELSE Free]
  /\ UNCHANGED <<apiVars, kept, page, bidClicks>>

(* A request nobody waits for may never have arrived.                      *)
Lose(s) ==
  /\ slots[s].phase = "sent" /\ ~slots[s].awaited
  /\ slots' = [slots EXCEPT ![s] = Free]
  /\ UNCHANGED <<apiVars, kept, page, notice, bidClicks>>

TaskPageNext ==
  \/ \E c \in Commitment, e \in Execution : CreateTheTask(c, e)
  \/ \E p \in Page :
       \/ Load(p) \/ LoadFails(p)
       \/ \E worker \in Party, offer \in Offer : HandleBidSubmit(p, worker, offer)
       \/ \E b \in BidId : HandleSelectBid(p, b)
       \/ HandleReceiptSubmit(p) \/ HandleSettle(p)
       \/ HandleOpenDispute(p) \/ HandleRevealSubmit(p)
  \/ \E s \in Slot :
       \/ Perform(s) \/ TurnAway(s) \/ Refuse(s)
       \/ Answer(s) \/ Abort(s) \/ Lose(s)
  \/ DropWorkspace

TaskPageSpec == TaskPageInit /\ [][TaskPageNext]_pageVars

-----------------------------------------------------------------------------
Recorded(kind) ==
  \/ kind = "bid" /\ BidsOf(TheTask) # {}
  \/ kind = "select" /\ AssignmentsOf(TheTask) # {}
  \/ kind = "receipt" /\ ReceiptsOf(TheTask) # {}
  \/ kind = "settle" /\ tasks[TheTask].status = "settled"
  \/ kind = "dispute" /\ tasks[TheTask].status = "disputed"
  \/ kind = "reveal" /\ \E d \in DisputesOf(TheTask) : disputes[d].status = "revealed"

(* What a page announces is on record in the store that handled it and     *)
(* stays there: whatever was clicked meanwhile, here or elsewhere, "Task   *)
(* settled" is said of a settled task, "Dispute opened" of a disputed one, *)
(* and so on, whether the store is still kept or not.                      *)
AnnouncedIsRecorded ==
  \A p \in Page : notice[p][1] = "success" => Recorded(notice[p][2])

(* Nobody's: the token is unknown or stands for somebody else than the     *)
(* names beside it; or an employer's click that names another than the     *)
(* task's employer.                                                        *)
FromSomebodyElse(request) ==
  \/ ParseAuthenticatedActor(request.headers, authConfig) = NoActor
  \/ /\ request.headers.role = "employer"
     /\ request.headers.actorId # tasks[TheTask].employerAddress

Unfit(request) ==
  request.kind = "bid" /\ ~ Compatible(tasks[TheTask].execution, request.offer)

(* The buttons' conditions say when a handler will accept: a click that it *)
(* refuses came to a store without the task, came from somebody else than  *)
(* it should, offered what the task does not ask for, or was overtaken: the*)
(* task has moved on since the page was loaded                             *)
(* (task-detail-actions.tsx:209).  What the limiter and the validation of  *)
(* the form turn away no handler has refused.                              *)
RefusedClickWasOvertaken ==
  \A s \in Slot : slots[s].phase = "refused" =>
    \/ Elsewhere(slots[s])
    \/ FromSomebodyElse(slots[s])
    \/ Unfit(slots[s])
    \/ StatusOf(TheTask) # slots[s].seen

(* A click that timed out may have been handled, never twice: there are no *)
(* more bids than clicks (api.ts:734).                                     *)
NoClickCountsTwice == Cardinality(BidsOf(TheTask)) <= bidClicks

=============================================================================
