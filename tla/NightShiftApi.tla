---------------------------- MODULE NightShiftApi ----------------------------
(***************************************************************************)
(* The HTTP routes that change a workspace's store (apps/api/src/routes):  *)
(* each handler asks who acts, checks that the actor may, and calls one    *)
(* method of the store.  A handler that replies with an error changes      *)
(* nothing: it is not a step.                                              *)
(*                                                                         *)
(* The configuration is read once, when the server is built.               *)
(***************************************************************************)
EXTENDS NightShiftStore, BetaAuth

CONSTANTS
  Env,        \* environments the server may be started in
  Headers     \* credentials a request may carry

VARIABLES
  authConfig,
  lastActor   \* who the last request that changed the store acted for

apiVars == <<vars, authConfig, lastActor>>

ApiInit ==
  /\ Init
  /\ \E env \in Env : authConfig = BuildBetaAuthConfig(env)
  /\ lastActor = NoActor

(* The actor of a request to a route for these roles.                      *)
Authenticated(headers, roles) == RequireAuthenticatedActor(headers, authConfig, roles)

Acts(actor) == lastActor' = actor /\ UNCHANGED authConfig

(* What the checks of a handler let through: an actor with one of the roles*)
(* who is the one named, or a party of the assignment.                      *)
Admitted(headers, roles, actorId) ==
  \E actor \in Authenticated(headers, roles) : RequireActorMatch(actor, actorId)

AdmittedParty(headers, a) ==
  \E actor \in Authenticated(headers, ActorRole) : IsParty(a, actor.actorId)

-----------------------------------------------------------------------------
PostTask(headers, t, employer, commitment, execution) ==
  \E actor \in Authenticated(headers, {"employer"}) :
    /\ RequireActorMatch(actor, employer)
    /\ CreateTask(t, employer, commitment, execution)
    /\ Acts(actor)

PostBid(headers, b, t, worker, commitment, offer) ==
  /\ t \in DOMAIN tasks
  /\ \E actor \in Authenticated(headers, {"worker"}) :
       /\ RequireActorMatch(actor, worker)
       /\ CreateBid(b, t, worker, commitment, offer)
       /\ Acts(actor)

PostAssignmentUnmatched(headers, a, t, b) ==   \* slip: any employer hires for any task
  /\ t \in DOMAIN tasks
  /\ \E actor \in Authenticated(headers, {"employer"}) :
       /\ b \in DOMAIN bids
       /\ bids[b].taskId = t
       /\ CreateAssignment(a, t, b, bids[b].workerAddress, tasks[t].employerAddress)
       /\ Acts(actor)

(* The parties of the assignment are looked up, never sent.                *)
PostAssignment(headers, a, t, b) ==
  /\ t \in DOMAIN tasks
  /\ \E actor \in Authenticated(headers, {"employer"}) :
       /\ RequireActorMatch(actor, tasks[t].employerAddress)
       /\ b \in DOMAIN bids
       /\ bids[b].taskId = t
       /\ CreateAssignment(a, t, b, bids[b].workerAddress, tasks[t].employerAddress)
       /\ Acts(actor)

PostAccept(headers, t, a) ==
  /\ t \in DOMAIN tasks
  /\ \E actor \in Authenticated(headers, {"employer"}) :
       /\ RequireActorMatch(actor, tasks[t].employerAddress)
       /\ AcceptAssignment(t, a)
       /\ Acts(actor)

PostAck(headers, a) ==
  \E actor \in Authenticated(headers, {"worker"}) :
    /\ a \in DOMAIN assignments
    /\ RequireActorMatch(actor, assignments[a].workerAddress)
    /\ AcknowledgeAssignment(a)
    /\ Acts(actor)

PostSubmit(headers, a, worker, receipt, result, receiptHash) ==
  \E actor \in Authenticated(headers, {"worker"}) :
    /\ receipt.assignmentId = a
    /\ a \in DOMAIN assignments
    /\ RequireActorMatch(actor, assignments[a].workerAddress)
    /\ RequireActorMatch(actor, worker)
    /\ RecordWorkerSubmission(a, worker, receipt, result, receiptHash)
    /\ Acts(actor)

(* Any role may open a dispute, and only a party: an admin is none.        *)
PostDispute(headers, d, t, a) ==
  /\ a \in DOMAIN assignments
  /\ assignments[a].taskId = t
  /\ \E actor \in Authenticated(headers, ActorRole) :
       /\ IsParty(a, actor.actorId)
       /\ CreateDispute(d, t, a, actor.actorId)
       /\ Acts(actor)

PostReveal(headers, d) ==
  /\ d \in DOMAIN disputes
  /\ disputes[d].assignmentId \in DOMAIN assignments
  /\ \E actor \in Authenticated(headers, ActorRole) :
       /\ IsParty(disputes[d].assignmentId, actor.actorId)
       /\ SubmitReveal(d, actor.actorId)
       /\ Acts(actor)

(* A receipt that names another assignment or worker than the request is   *)
(* refused by the route and by the store, a commitment that names another  *)
(* assignment by the route (assignments.ts:45): they are not enumerated,   *)
(* and what a commitment names is left out.                                *)
ReceiptFrom(a, w) ==
  [receiptId : ReceiptId, assignmentId : {a}, taskId : TaskId,
   bidId : BidId, workerId : {w}, status : SentStatus, resultHash : ResultHash]

Route(headers) ==
  \/ \E t \in TaskId, p \in Party, c \in Commitment, e \in Execution \cup {Undefined} :
       PostTask(headers, t, p, c, e)
  \/ \E b \in BidId, t \in TaskId, p \in Party, c \in Commitment, o \in Offer \cup {Undefined} :
       PostBid(headers, b, t, p, c, o)
  \/ \E a \in AssignmentId, t \in TaskId, b \in BidId : PostAssignment(headers, a, t, b)
  \/ \E a \in AssignmentId : PostAck(headers, a)
  \/ \E a \in AssignmentId, w \in Party, c \in Content : \E r \in ReceiptFrom(a, w) :
       \E h \in {CommitReceipt(r.receiptId, r), SeedReceiptCommitment} :
         PostSubmit(headers, a, w, r, c, h)
  \/ \E t \in TaskId, a \in AssignmentId : PostAccept(headers, t, a)
  \/ \E d \in DisputeId, t \in TaskId, a \in AssignmentId : PostDispute(headers, d, t, a)
  \/ \E d \in DisputeId : PostReveal(headers, d)

ApiNext == \E headers \in Headers : Route(headers)

ApiSpec == ApiInit /\ [][ApiNext]_apiVars

-----------------------------------------------------------------------------
Closed(config) ==
  config.required /\ ~config.allowSharedToken /\ ~config.allowAdminRole

BoundTo(actorId, roles) ==
  \E token \in DOMAIN authConfig.credentials :
    /\ authConfig.credentials[token].actorId = actorId
    /\ authConfig.credentials[token].role \in roles

(* In a closed configuration (docs/DEPLOYMENT.md:20) the store only names  *)
(* people the operator issued a credential to, in the role it was issued   *)
(* for: neither a body, a header nor a mixture of them from two requests   *)
(* brings in anybody else (auth.ts:79, 147).                               *)
RecordsNameCredentialHolders ==
  Closed(authConfig) =>
    /\ \A t \in DOMAIN tasks \ SeedTaskIds : BoundTo(tasks[t].employerAddress, {"employer"})
    /\ \A b \in DOMAIN bids \ SeedBidIds : BoundTo(bids[b].workerAddress, {"worker"})
    /\ \A d \in DOMAIN disputes :
         /\ BoundTo(disputes[d].openedBy, ActorRole \ {"admin"})
         /\ disputes[d].revealedBy # Undefined =>
              BoundTo(disputes[d].revealedBy, ActorRole \ {"admin"})

MayHire(t)     == lastActor'.actorId = tasks[t].employerAddress
MayDeliver(a)  == lastActor'.actorId = assignments[a].workerAddress
Administers    == lastActor'.role = "admin"

(* A task moves only at the hand of whom it concerns: its employer hires   *)
(* and settles, the assigned worker acknowledges and delivers, or an admin *)
(* in their place; a dispute is theirs alone, for an admin as well         *)
(* (disputes.ts:23-34).                                                    *)
OnlyPartiesMoveTasks ==
  [][/\ \A t \in DOMAIN tasks : tasks'[t].status # tasks[t].status =>
          CASE tasks'[t].status \in {"assigned", "settled"} -> MayHire(t) \/ Administers
            [] tasks'[t].status = "disputed" ->
                 \E a \in AssignmentsOf(t) : IsParty(a, lastActor'.actorId)
            [] OTHER -> TRUE
     /\ \A a \in DOMAIN assignments : assignments'[a].status # assignments[a].status =>
          CASE assignments'[a].status = "completed" -> MayHire(assignments[a].taskId) \/ Administers
            [] OTHER -> MayDeliver(a) \/ Administers ]_vars

=============================================================================
