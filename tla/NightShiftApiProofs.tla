------------------------ MODULE NightShiftApiProofs -------------------------
(***************************************************************************)
(* The routes for every set of environments, credentials and identifiers.  *)
(*                                                                         *)
(* A handler passes a method of the store what the request says and what   *)
(* it looked up; both are such as the store's next-state relation allows,  *)
(* so every result about the store holds behind the routes.  Who appears   *)
(* in the records, and at whose hand a task moves, follows from the actor  *)
(* that the handler was given: in a closed configuration a request acts    *)
(* for the actor its token was issued to, or for nobody (ActorIsBound).    *)
(*                                                                         *)
(* The second part is about a client of the routes, the smoke script: on a *)
(* board that others use nothing ever stops it.  The third is about the    *)
(* same credentials one step earlier: the browser that keeps them and the  *)
(* proxy that adds them to requests.                                       *)
(***************************************************************************)
EXTENDS NightShiftApi, SmokeTest, WebSession, NightShiftStoreProofs

(* The parties on record are parties.                                      *)
LEMMA PartiesOnRecord ==
  ASSUME TypeOK
  PROVE  /\ \A t \in DOMAIN tasks : tasks[t].employerAddress \in Party
         /\ \A b \in DOMAIN bids : bids[b].workerAddress \in Party
         /\ \A a \in DOMAIN assignments : \A p : IsParty(a, p) => p \in Party
BY DEF TypeOK, MapOf, TaskRecord, BidRecord, AssignmentRecord, IsParty

-----------------------------------------------------------------------------
(* Each route takes a step of the store, whatever its credentials.         *)
LEMMA HandlerStep ==
  ASSUME TypeOK, NEW headers, Route(headers)
  PROVE  Next
<1>2. ASSUME NEW t \in TaskId, NEW p \in Party, NEW c \in Commitment,
             NEW e \in Execution \cup {Undefined}, PostTask(headers, t, p, c, e)
      PROVE  Next
  BY <1>2 DEF PostTask, Next
<1>3. ASSUME NEW b \in BidId, NEW t \in TaskId, NEW p \in Party, NEW c \in Commitment,
             NEW o \in Offer \cup {Undefined}, PostBid(headers, b, t, p, c, o)
      PROVE  Next
  BY <1>3 DEF PostBid, Next
<1>4. ASSUME NEW a \in AssignmentId, NEW t \in TaskId, NEW b \in BidId,
             PostAssignment(headers, a, t, b)
      PROVE  Next
  <2>1. /\ t \in DOMAIN tasks
        /\ b \in DOMAIN bids
        /\ CreateAssignment(a, t, b, bids[b].workerAddress, tasks[t].employerAddress)
    BY <1>4 DEF PostAssignment
  <2>2. bids[b].workerAddress \in Party /\ tasks[t].employerAddress \in Party
    BY <2>1, PartiesOnRecord
  <2>3. QED
    BY <2>1, <2>2 DEF Next
<1>5. ASSUME NEW a \in AssignmentId, PostAck(headers, a) PROVE Next
  BY <1>5 DEF PostAck, Next
<1>6. ASSUME NEW a \in AssignmentId, NEW w \in Party, NEW c \in Content,
             NEW r \in ReceiptFrom(a, w),
             NEW h \in {CommitReceipt(r.receiptId, r), SeedReceiptCommitment},
             PostSubmit(headers, a, w, r, c, h)
      PROVE  Next
  <2>1. r \in ExecutionReceipt
    BY DEF ReceiptFrom, ExecutionReceipt
  <2>2. RecordWorkerSubmission(a, w, r, c, h)
    BY <1>6 DEF PostSubmit
  <2>3. QED
    BY <2>1, <2>2 DEF Next
<1>7. ASSUME NEW t \in TaskId, NEW a \in AssignmentId, PostAccept(headers, t, a) PROVE Next
  BY <1>7 DEF PostAccept, Next
<1>8. ASSUME NEW d \in DisputeId, NEW t \in TaskId, NEW a \in AssignmentId,
             PostDispute(headers, d, t, a)
      PROVE  Next
  <2>1. PICK actor : /\ a \in DOMAIN assignments
                     /\ IsParty(a, actor.actorId)
                     /\ CreateDispute(d, t, a, actor.actorId)
    BY <1>8 DEF PostDispute
  <2>2. actor.actorId \in Party
    BY <2>1, PartiesOnRecord
  <2>3. QED
    BY <2>1, <2>2 DEF Next
<1>9. ASSUME NEW d \in DisputeId, PostReveal(headers, d) PROVE Next
  <2>1. PICK actor : /\ disputes[d].assignmentId \in DOMAIN assignments
                     /\ IsParty(disputes[d].assignmentId, actor.actorId)
                     /\ SubmitReveal(d, actor.actorId)
    BY <1>9 DEF PostReveal
  <2>2. actor.actorId \in Party
    BY <2>1, PartiesOnRecord
  <2>3. QED
    BY <2>1, <2>2 DEF Next
<1>10. QED
  BY <1>2, <1>3, <1>4, <1>5, <1>6, <1>7, <1>8, <1>9 DEF Route

LEMMA RouteKeepsConfig == ASSUME NEW headers, Route(headers) PROVE UNCHANGED authConfig
BY DEF Route, PostTask, PostBid, PostAssignment, PostAck, PostSubmit, PostAccept,
       PostDispute, PostReveal, Acts

(* Any requests, one after the other, with any headers.  Every client of   *)
(* the routes is one of its behaviours: what is proved here once holds     *)
(* whoever sends the requests (ApiSpec, SmokeSpec, TaskPageSpec).          *)
AnyRequest == \E headers : Route(headers)

RequestsSpec == ApiInit /\ [][AnyRequest]_apiVars

LEMMA RequestStep ==
  ASSUME IInv, [AnyRequest]_apiVars
  PROVE  [Next]_vars /\ IInv' /\ UNCHANGED authConfig
<1>1. CASE UNCHANGED apiVars
  <2>1. UNCHANGED vars /\ UNCHANGED authConfig
    BY <1>1 DEF apiVars
  <2>2. QED
    BY <2>1, NextPreserves
<1>2. CASE AnyRequest
  <2>1. Next /\ UNCHANGED authConfig
    BY <1>2, HandlerStep, RouteKeepsConfig DEF IInv, AnyRequest
  <2>2. QED
    BY <2>1, NextPreserves
<1>3. QED
  BY <1>1, <1>2

LEMMA RequestsPreserve == RequestsSpec => []IInv
<1>1. ApiInit => IInv
  BY InitHolds DEF ApiInit
<1>2. IInv /\ [AnyRequest]_apiVars => IInv'
  BY RequestStep
<1>3. QED
  BY <1>1, <1>2, PTL DEF RequestsSpec

(* A request takes a step of the store's, by the definition of the routes: *)
(* what holds of the store holds behind them.                              *)
LEMMA RequestsImplementStore == RequestsSpec => Spec
<1>1. ApiInit => Init
  BY DEF ApiInit
<1>2. IInv /\ [AnyRequest]_apiVars => [Next]_vars
  BY RequestStep
<1>3. QED
  BY <1>1, <1>2, RequestsPreserve, PTL DEF RequestsSpec, Spec

LEMMA RequestsImplementEscrow == RequestsSpec => ImplementsEscrow
BY RequestsImplementStore, StoreImplementsEscrow

LEMMA RoutesTakeRequests == ApiSpec => RequestsSpec
<1>1. [ApiNext]_apiVars => [AnyRequest]_apiVars
  BY DEF ApiNext, AnyRequest
<1>2. QED
  BY <1>1, PTL DEF ApiSpec, RequestsSpec

(* Each task behind the routes lives the contract's life.                  *)
THEOREM RoutesImplementEscrow == ApiSpec => ImplementsEscrow
BY RoutesTakeRequests, RequestsImplementEscrow

-----------------------------------------------------------------------------
(* In a closed configuration an actor is one that a token was issued to,   *)
(* and no admin.                                                           *)
LEMMA ActorIsBound ==
  ASSUME Closed(authConfig),
         NEW headers, NEW roles, NEW actor \in Authenticated(headers, roles)
  PROVE  BoundTo(actor.actorId, roles \ {"admin"}) /\ actor.role # "admin"
<1>1. /\ actor = ParseAuthenticatedActor(headers, authConfig)
      /\ actor # NoActor
      /\ actor.role \in roles \cup {"admin"}
  BY DEF Authenticated, RequireAuthenticatedActor, Closed
<1>2. actor = BoundActor(headers, authConfig) /\ headers.token \in DOMAIN authConfig.credentials
  BY <1>1 DEF ParseAuthenticatedActor, SharedActor, Closed
<1>3. /\ actor = authConfig.credentials[headers.token]
      /\ RoleAllowed(actor.role, authConfig)
  BY <1>1, <1>2 DEF BoundActor
<1>4. actor.role # "admin"
  BY <1>3 DEF RoleAllowed, Closed
<1>5. QED
  BY <1>1, <1>2, <1>3, <1>4 DEF BoundTo

(* It then acts for the identifier that the request names.                 *)
LEMMA MatchIsBound ==
  ASSUME Closed(authConfig), NEW role \in {"employer", "worker"}, NEW expected,
         NEW headers, NEW actor \in Authenticated(headers, {role}),
         RequireActorMatch(actor, expected)
  PROVE  BoundTo(expected, {role})
<1>1. {role} \ {"admin"} = {role}
  OBVIOUS
<1>2. QED
  BY <1>1, ActorIsBound DEF RequireActorMatch

(* What RecordsNameCredentialHolders reads of the records.                 *)
NamesKept ==
  /\ \A t \in DOMAIN tasks' : t \in DOMAIN tasks
                              /\ tasks'[t].employerAddress = tasks[t].employerAddress
  /\ \A b \in DOMAIN bids' : b \in DOMAIN bids
                             /\ bids'[b].workerAddress = bids[b].workerAddress
  /\ \A d \in DOMAIN disputes' : d \in DOMAIN disputes
                                 /\ disputes'[d].openedBy = disputes[d].openedBy
                                 /\ disputes'[d].revealedBy = disputes[d].revealedBy

LEMMA KeptNamesStayBound ==
  ASSUME RecordsNameCredentialHolders, NamesKept, authConfig' = authConfig
  PROVE  RecordsNameCredentialHolders'
BY DEF RecordsNameCredentialHolders, NamesKept, Closed, BoundTo

(* The methods that bring in no name.                                      *)
LEMMA HandlersKeepNames ==
  ASSUME TypeOK,
         \/ \E a, t, b, w, e : CreateAssignment(a, t, b, w, e)
         \/ \E a : AcknowledgeAssignment(a)
         \/ \E a, w, r, c, h : RecordWorkerSubmission(a, w, r, c, h)
         \/ \E t, a : AcceptAssignment(t, a)
  PROVE  NamesKept
<1> USE DEF TypeOK, MapOf
<1>1. ASSUME NEW a, NEW t, NEW b, NEW w, NEW e, CreateAssignment(a, t, b, w, e)
      PROVE  NamesKept
  BY <1>1 DEF CreateAssignment, NamesKept, TaskRecord, BidRecord
<1>2. ASSUME NEW a, AcknowledgeAssignment(a) PROVE NamesKept
  BY <1>2 DEF AcknowledgeAssignment, NamesKept
<1>3. ASSUME NEW a, NEW w, NEW r, NEW c, NEW h, RecordWorkerSubmission(a, w, r, c, h)
      PROVE  NamesKept
  BY <1>3 DEF RecordWorkerSubmission, NamesKept, TaskRecord
<1>4. ASSUME NEW t, NEW a, AcceptAssignment(t, a) PROVE NamesKept
  BY <1>4 DEF AcceptAssignment, NamesKept, TaskRecord
<1>5. QED
  BY <1>1, <1>2, <1>3, <1>4

LEMMA RouteNamesHolders ==
  ASSUME TypeOK, RecordsNameCredentialHolders, NEW headers, Route(headers)
  PROVE  RecordsNameCredentialHolders'
<1>1. authConfig' = authConfig
  BY RouteKeepsConfig
<1>2. SUFFICES ASSUME Closed(authConfig) PROVE RecordsNameCredentialHolders'
  BY <1>1 DEF RecordsNameCredentialHolders, Closed
<1>3. \A actorId, roles : BoundTo(actorId, roles)' <=> BoundTo(actorId, roles)
  BY <1>1 DEF BoundTo
<1>4. ASSUME NEW t \in TaskId, NEW p \in Party, NEW c \in Commitment,
             NEW e \in Execution \cup {Undefined}, PostTask(headers, t, p, c, e)
      PROVE  RecordsNameCredentialHolders'
  <2>1. CreateTask(t, p, c, e) /\ BoundTo(p, {"employer"})
    BY <1>2, <1>4, MatchIsBound DEF PostTask
  <2>2. \A x \in DOMAIN tasks' :
          \/ x = t /\ tasks'[x].employerAddress = p
          \/ x \in DOMAIN tasks /\ tasks'[x] = tasks[x]
    BY <2>1 DEF CreateTask, MapSet
  <2>3. bids' = bids /\ disputes' = disputes
    BY <2>1 DEF CreateTask
  <2>4. QED
    BY <1>1, <1>2, <1>3, <2>1, <2>2, <2>3 DEF RecordsNameCredentialHolders
<1>5. ASSUME NEW b \in BidId, NEW t \in TaskId, NEW p \in Party,
             NEW c \in Commitment, NEW o \in Offer \cup {Undefined},
             PostBid(headers, b, t, p, c, o)
      PROVE  RecordsNameCredentialHolders'
  <2>1. CreateBid(b, t, p, c, o) /\ BoundTo(p, {"worker"})
    BY <1>2, <1>5, MatchIsBound DEF PostBid
  <2>2. \A x \in DOMAIN bids' :
          \/ x = b /\ bids'[x].workerAddress = p
          \/ x \in DOMAIN bids /\ bids'[x] = bids[x]
    BY <2>1 DEF CreateBid, MapSet
  <2>3. tasks' = tasks /\ disputes' = disputes
    BY <2>1 DEF CreateBid
  <2>4. QED
    BY <1>1, <1>2, <1>3, <2>1, <2>2, <2>3 DEF RecordsNameCredentialHolders
<1>6. ASSUME \/ \E a \in AssignmentId, t \in TaskId, b \in BidId : PostAssignment(headers, a, t, b)
             \/ \E a \in AssignmentId : PostAck(headers, a)
             \/ \E a \in AssignmentId, w \in Party, c \in Content : \E r \in ReceiptFrom(a, w) :
                  \E h \in {CommitReceipt(r.receiptId, r), SeedReceiptCommitment} :
                    PostSubmit(headers, a, w, r, c, h)
             \/ \E t \in TaskId, a \in AssignmentId : PostAccept(headers, t, a)
      PROVE  RecordsNameCredentialHolders'
  <2>1. NamesKept
    BY <1>6, HandlersKeepNames DEF PostAssignment, PostAck, PostSubmit, PostAccept
  <2>2. QED
    BY <1>1, <2>1, KeptNamesStayBound
<1>7. ASSUME NEW d \in DisputeId, NEW t \in TaskId,
             NEW a \in AssignmentId, PostDispute(headers, d, t, a)
      PROVE  RecordsNameCredentialHolders'
  <2>1. PICK actor \in Authenticated(headers, ActorRole) : CreateDispute(d, t, a, actor.actorId)
    BY <1>7 DEF PostDispute
  <2>2. BoundTo(actor.actorId, ActorRole \ {"admin"})
    BY <1>2, ActorIsBound
  <2>3. \A x \in DOMAIN disputes' :
          \/ /\ x = d
             /\ disputes'[x].openedBy = actor.actorId
             /\ disputes'[x].revealedBy = Undefined
          \/ x \in DOMAIN disputes /\ disputes'[x] = disputes[x]
    BY <2>1 DEF CreateDispute, MapSet
  <2>4. bids' = bids
    BY <2>1 DEF CreateDispute
  <2>5. \A x \in DOMAIN tasks' :
          x \in DOMAIN tasks /\ tasks'[x].employerAddress = tasks[x].employerAddress
    BY <2>1 DEF CreateDispute, TypeOK, MapOf, TaskRecord
  <2>6. QED
    BY <1>1, <1>2, <1>3, <2>2, <2>3, <2>4, <2>5 DEF RecordsNameCredentialHolders
<1>8. ASSUME NEW d \in DisputeId, PostReveal(headers, d)
      PROVE  RecordsNameCredentialHolders'
  <2>1. PICK actor \in Authenticated(headers, ActorRole) : SubmitReveal(d, actor.actorId)
    BY <1>8 DEF PostReveal
  <2>2. BoundTo(actor.actorId, ActorRole \ {"admin"})
    BY <1>2, ActorIsBound
  <2>3. \A x \in DOMAIN disputes' :
          /\ x \in DOMAIN disputes
          /\ disputes'[x].openedBy = disputes[x].openedBy
          /\ disputes'[x].revealedBy \in {disputes[x].revealedBy, actor.actorId}
    BY <2>1 DEF SubmitReveal, TypeOK, MapOf, DisputeRecord
  <2>4. bids' = bids /\ tasks' = tasks
    BY <2>1 DEF SubmitReveal
  <2>5. QED
    BY <1>1, <1>2, <1>3, <2>2, <2>3, <2>4 DEF RecordsNameCredentialHolders
<1>9. QED
  BY <1>4, <1>5, <1>6, <1>7, <1>8 DEF Route

LEMMA RequestsNameHolders == RequestsSpec => []RecordsNameCredentialHolders
<1>1. ApiInit => RecordsNameCredentialHolders
  BY DEF ApiInit, Init, RecordsNameCredentialHolders, EmptyMap, SeedTasks, SeedBids
<1>2. IInv /\ RecordsNameCredentialHolders /\ [AnyRequest]_apiVars
        => RecordsNameCredentialHolders'
  <2>1. ASSUME IInv, RecordsNameCredentialHolders, AnyRequest
        PROVE  RecordsNameCredentialHolders'
    BY <2>1, RouteNamesHolders DEF IInv, AnyRequest
  <2>2. ASSUME RecordsNameCredentialHolders, UNCHANGED apiVars
        PROVE  RecordsNameCredentialHolders'
    BY <2>2 DEF apiVars, vars, RecordsNameCredentialHolders, Closed, BoundTo
  <2>3. QED
    BY <2>1, <2>2
<1>3. QED
  BY <1>1, <1>2, RequestsPreserve, PTL DEF RequestsSpec

(* In a closed configuration the store names only people the operator      *)
(* issued a credential to, in the role it was issued for (auth.ts:79).     *)
THEOREM OnlyHoldersAreNamed == ApiSpec => []RecordsNameCredentialHolders
BY RoutesTakeRequests, RequestsNameHolders

-----------------------------------------------------------------------------
(* What OnlyPartiesMoveTasks says of one step.                             *)
TaskMoves(t) ==
  tasks'[t].status # tasks[t].status =>
    CASE tasks'[t].status \in {"assigned", "settled"} -> MayHire(t) \/ Administers
      [] tasks'[t].status = "disputed" ->
           \E a \in AssignmentsOf(t) : IsParty(a, lastActor'.actorId)
      [] OTHER -> TRUE

AssignmentMoves(a) ==
  assignments'[a].status # assignments[a].status =>
    CASE assignments'[a].status = "completed" -> MayHire(assignments[a].taskId) \/ Administers
      [] OTHER -> MayDeliver(a) \/ Administers

TasksMoveByParties ==
  /\ \A t \in DOMAIN tasks : TaskMoves(t)
  /\ \A a \in DOMAIN assignments : AssignmentMoves(a)

LEMMA RouteMovesByParties ==
  ASSUME TypeOK, NEW headers, Route(headers)
  PROVE  TasksMoveByParties
<1>2. ASSUME NEW t, NEW p, NEW c, NEW e, PostTask(headers, t, p, c, e)
      PROVE  TasksMoveByParties
  BY <1>2 DEF PostTask, CreateTask, MapSet, TasksMoveByParties, TaskMoves, AssignmentMoves
<1>3. ASSUME NEW b, NEW t, NEW p, NEW c, NEW o, PostBid(headers, b, t, p, c, o)
      PROVE  TasksMoveByParties
  BY <1>3 DEF PostBid, CreateBid, TasksMoveByParties, TaskMoves, AssignmentMoves
<1>4. ASSUME NEW a, NEW t, NEW b, PostAssignment(headers, a, t, b)
      PROVE  TasksMoveByParties
  <2>1. PICK actor : /\ RequireActorMatch(actor, tasks[t].employerAddress)
                     /\ CreateAssignment(a, t, b, bids[b].workerAddress, tasks[t].employerAddress)
                     /\ lastActor' = actor
    BY <1>4 DEF PostAssignment, Acts
  <2>2. MayHire(t) \/ Administers
    BY <2>1 DEF RequireActorMatch, MayHire, Administers
  <2>3. /\ \A x \in DOMAIN tasks \ {t} : tasks'[x] = tasks[x]
        /\ t \in DOMAIN tasks => tasks'[t].status = "assigned"
        /\ \A x \in DOMAIN assignments : assignments'[x] = assignments[x]
    BY <2>1 DEF CreateAssignment, MapSet, TypeOK, MapOf, TaskRecord
  <2>4. QED
    BY <2>2, <2>3 DEF TasksMoveByParties, TaskMoves, AssignmentMoves
<1>5. ASSUME NEW a, PostAck(headers, a) PROVE TasksMoveByParties
  <2>1. PICK actor : /\ RequireActorMatch(actor, assignments[a].workerAddress)
                     /\ AcknowledgeAssignment(a)
                     /\ lastActor' = actor
    BY <1>5 DEF PostAck, Acts
  <2>2. MayDeliver(a) \/ Administers
    BY <2>1 DEF RequireActorMatch, MayDeliver, Administers
  <2>3. /\ tasks' = tasks
        /\ \A x \in DOMAIN assignments \ {a} : assignments'[x] = assignments[x]
        /\ a \in DOMAIN assignments => assignments'[a].status # "completed"
    BY <2>1 DEF AcknowledgeAssignment, TypeOK, MapOf, AssignmentRecord
  <2>4. QED
    BY <2>2, <2>3 DEF TasksMoveByParties, TaskMoves, AssignmentMoves
<1>6. ASSUME NEW a, NEW w, NEW r, NEW c, NEW h, PostSubmit(headers, a, w, r, c, h)
      PROVE  TasksMoveByParties
  <2>1. PICK actor : /\ RequireActorMatch(actor, assignments[a].workerAddress)
                     /\ RecordWorkerSubmission(a, w, r, c, h)
                     /\ lastActor' = actor
    BY <1>6 DEF PostSubmit, Acts
  <2>2. MayDeliver(a) \/ Administers
    BY <2>1 DEF RequireActorMatch, MayDeliver, Administers
  <2>3. /\ \A x \in DOMAIN tasks : tasks'[x].status \in {tasks[x].status, "submitted"}
        /\ \A x \in DOMAIN assignments \ {a} : assignments'[x] = assignments[x]
        /\ a \in DOMAIN assignments => assignments'[a].status # "completed"
    BY <2>1 DEF RecordWorkerSubmission, TypeOK, MapOf, AssignmentRecord, TaskRecord
  <2>4. QED
    BY <2>2, <2>3 DEF TasksMoveByParties, TaskMoves, AssignmentMoves
<1>7. ASSUME NEW t, NEW a, PostAccept(headers, t, a) PROVE TasksMoveByParties
  <2>1. PICK actor : /\ RequireActorMatch(actor, tasks[t].employerAddress)
                     /\ AcceptAssignment(t, a)
                     /\ lastActor' = actor
    BY <1>7 DEF PostAccept, Acts
  <2>2. MayHire(t) \/ Administers
    BY <2>1 DEF RequireActorMatch, MayHire, Administers
  <2>3. /\ \A x \in DOMAIN tasks \ {t} : tasks'[x] = tasks[x]
        /\ t \in DOMAIN tasks => tasks'[t].status = "settled"
        /\ \A x \in DOMAIN assignments \ {a} : assignments'[x] = assignments[x]
        /\ a \in DOMAIN assignments =>
             assignments'[a].status = "completed" /\ assignments[a].taskId = t
    BY <2>1 DEF AcceptAssignment, Settleable, TypeOK, MapOf, AssignmentRecord, TaskRecord
  <2>4. QED
    BY <2>2, <2>3 DEF TasksMoveByParties, TaskMoves, AssignmentMoves
<1>8. ASSUME NEW d, NEW t, NEW a, PostDispute(headers, d, t, a) PROVE TasksMoveByParties
  <2>1. PICK actor : /\ IsParty(a, actor.actorId)
                     /\ CreateDispute(d, t, a, actor.actorId)
                     /\ lastActor' = actor
    BY <1>8 DEF PostDispute, Acts
  <2>2. a \in AssignmentsOf(t)
    BY <2>1 DEF CreateDispute, Disputable, AssignmentsOf
  <2>3. /\ \A x \in DOMAIN tasks \ {t} : tasks'[x] = tasks[x]
        /\ t \in DOMAIN tasks => tasks'[t].status = "disputed"
        /\ assignments' = assignments
    BY <2>1 DEF CreateDispute, TypeOK, MapOf, TaskRecord
  <2>4. QED
    BY <2>1, <2>2, <2>3 DEF TasksMoveByParties, TaskMoves, AssignmentMoves
<1>9. ASSUME NEW d, PostReveal(headers, d) PROVE TasksMoveByParties
  BY <1>9 DEF PostReveal, SubmitReveal, TasksMoveByParties, TaskMoves, AssignmentMoves
<1>10. QED
  BY <1>2, <1>3, <1>4, <1>5, <1>6, <1>7, <1>8, <1>9 DEF Route

LEMMA RequestsMoveByParties == RequestsSpec => OnlyPartiesMoveTasks
<1>1. IInv /\ [AnyRequest]_apiVars => [TasksMoveByParties]_vars
  BY RouteMovesByParties DEF IInv, AnyRequest, apiVars
<1>2. QED
  BY <1>1, RequestsPreserve, PTL
     DEF RequestsSpec, OnlyPartiesMoveTasks, TasksMoveByParties, TaskMoves, AssignmentMoves

(* A task moves only at the hand of whom it concerns, for every            *)
(* configuration and set of credentials (tasks.ts, assignments.ts,         *)
(* disputes.ts:23-34).                                                     *)
THEOREM PartiesAloneMoveTasks == ApiSpec => OnlyPartiesMoveTasks
BY RoutesTakeRequests, RequestsMoveByParties

-----------------------------------------------------------------------------
-----------------------------------------------------------------------------
(* The script on a board in use (SmokeTest).                               *)
(*                                                                         *)
(* Its requests go through the routes like everybody's, so the store, the  *)
(* escrow and the parties are as safe as behind the routes alone.  That    *)
(* nothing stops the script takes an invariant of its own: ScriptInv says, *)
(* for every number of answers, what is on record of its task.             *)

(* Every request on the board goes through one of the routes.              *)
LEMMA ScriptRoutes ==
  ASSUME SmokeStep
  PROVE  UNCHANGED apiVars \/ AnyRequest
<1> USE SmokeAssumption DEF AnyRequest
<1>1. ASSUME NEW n, NEW assertion, Assert(n, assertion) PROVE UNCHANGED apiVars
  BY <1>1 DEF Assert
<1>2. CASE CreateSmokeTask
  <2>1. PICK c \in Commitment : PostTask(EmployerHeaders, Mine.task, "0xA11cE", c, SmokeExecution)
    BY <1>2 DEF CreateSmokeTask, Request
  <2>2. Route(EmployerHeaders)
    BY <2>1 DEF Route
  <2>3. QED
    BY <2>2
<1>3. CASE CreateSmokeBid
  <2>1. PICK c \in Commitment :
          PostBid(WorkerHeaders, Mine.bid, Mine.task, "proof_runner_3", c, SmokeOffer)
    BY <1>3 DEF CreateSmokeBid, Request
  <2>2. Route(WorkerHeaders)
    BY <2>1 DEF Route
  <2>3. QED
    BY <2>2
<1>4. CASE AssignBid
  <2>1. Route(EmployerHeaders)
    BY <1>4 DEF AssignBid, Request, Route
  <2>2. QED
    BY <2>1
<1>5. CASE SubmitResult
  <2>1. PICK result \in Content :
          PostSubmit(WorkerHeaders, Mine.assignment, "proof_runner_3", Submission(result),
                     result, CommitReceipt(Mine.receipt, Submission(result)))
    BY <1>5 DEF SubmitResult, Request
  <2>2. /\ Submission(result) \in ReceiptFrom(Mine.assignment, "proof_runner_3")
        /\ Submission(result).receiptId = Mine.receipt
    BY DEF Submission, ReceiptFrom, ResultHash
  <2>3. Route(WorkerHeaders)
    BY <2>1, <2>2 DEF Route
  <2>4. QED
    BY <2>3
<1>6. CASE OpenDispute
  <2>1. Route(EmployerHeaders)
    BY <1>6 DEF OpenDispute, Request, Route
  <2>2. QED
    BY <2>1
<1>7. CASE Reveal
  <2>1. Route(WorkerHeaders)
    BY <1>7 DEF Reveal, Request, Route
  <2>2. QED
    BY <2>1
<1>8. QED
  BY <1>1, <1>2, <1>3, <1>4, <1>5, <1>6, <1>7
     DEF SmokeStep, ListTasks, SeePrivateTask, SeeOwnBid, SeeAssignment, SeeNoReceipt,
         SettleBlocked, SeeNoDispute

LEMMA BoardRequest ==
  ASSUME [SmokeStep \/ StrangerStep]_smokeVars
  PROVE  [AnyRequest]_apiVars
BY ScriptRoutes DEF StrangerStep, ApiNext, smokeVars, AnyRequest

LEMMA BoardStep ==
  ASSUME IInv, [SmokeStep \/ StrangerStep]_smokeVars
  PROVE  [Next]_vars /\ IInv' /\ UNCHANGED authConfig
BY BoardRequest, RequestStep

(* On the script's board every task, its own and everybody else's, takes   *)
(* the contract's transitions only, is moved by its parties alone, and     *)
(* names holders of credentials: smoke-api.mjs sends nothing that a route  *)
(* would not check, whatever identifiers it or the requests in between     *)
(* name.                                                                   *)
THEOREM ScriptIsOneOfTheClients ==
  SmokeSpec => /\ ImplementsEscrow
               /\ OnlyPartiesMoveTasks
               /\ []RecordsNameCredentialHolders
<1>1. SmokeSpec => RequestsSpec
  <2>1. [SmokeStep \/ StrangerStep]_smokeVars => [AnyRequest]_apiVars
    BY BoardRequest
  <2>2. QED
    BY <2>1, PTL DEF SmokeSpec, SmokeInit, RequestsSpec
<1>2. QED
  BY <1>1, RequestsImplementStore, RequestsImplementEscrow, RequestsMoveByParties,
     RequestsNameHolders

(* Who a request of the script is read as.                                 *)
LEMMA ScriptActs ==
  ASSUME ForSmokeTest, NEW roles
  PROVE  /\ "employer" \in roles =>
              Authenticated(EmployerHeaders, roles) = {Actor("0xA11cE", "employer")}
         /\ "worker" \in roles =>
              Authenticated(WorkerHeaders, roles) = {Actor("proof_runner_3", "worker")}
<1>1. /\ Actor("0xA11cE", "employer") # NoActor
      /\ Actor("0xA11cE", "employer").role = "employer"
      /\ Actor("proof_runner_3", "worker") # NoActor
      /\ Actor("proof_runner_3", "worker").role = "worker"
  BY DEF Actor, NoActor
<1>2. QED
  BY <1>1 DEF ForSmokeTest, AsWorker, Authenticated, RequireAuthenticatedActor

(* The two actors the script's credentials belong to.                      *)
ScriptPeople == {"0xA11cE", "proof_runner_3"}

(* Who a request of anybody else is read as.                               *)
LEMMA StrangersActForOthers ==
  ASSUME ForSmokeTest, NEW headers \in Headers, Route(headers)
  PROVE  /\ lastActor'.actorId \notin ScriptPeople /\ lastActor'.role # "admin"
         /\ \A b \in DOMAIN bids' \ DOMAIN bids : bids'[b].workerAddress = lastActor'.actorId
<1>1. ASSUME NEW roles, NEW actor \in Authenticated(headers, roles), Acts(actor)
      PROVE  lastActor'.actorId \notin ScriptPeople /\ lastActor'.role # "admin"
  <2>1. actor = ParseAuthenticatedActor(headers, authConfig) /\ lastActor' = actor
    BY <1>1 DEF ForSmokeTest, Closed, Authenticated, RequireAuthenticatedActor, Acts
  <2>2. actor.role # "admin"
    BY ActorIsBound DEF ForSmokeTest
  <2>3. QED
    BY <2>1, <2>2 DEF ForSmokeTest, ScriptPeople
<1>2. ASSUME NEW b, NEW t, NEW p, NEW c, NEW o, PostBid(headers, b, t, p, c, o)
      PROVE  /\ lastActor'.actorId \notin ScriptPeople /\ lastActor'.role # "admin"
             /\ \A x \in DOMAIN bids' \ DOMAIN bids : bids'[x].workerAddress = lastActor'.actorId
  <2>1. PICK actor \in Authenticated(headers, {"worker"}) :
          RequireActorMatch(actor, p) /\ CreateBid(b, t, p, c, o) /\ Acts(actor)
    BY <1>2 DEF PostBid
  <2>2. lastActor'.actorId \notin ScriptPeople /\ lastActor'.role # "admin" /\ lastActor' = actor
    BY <1>1, <2>1 DEF Acts
  <2>3. \A x \in DOMAIN bids' \ DOMAIN bids : bids'[x].workerAddress = p
    BY <2>1 DEF CreateBid, MapSet
  <2>4. QED
    BY <2>1, <2>2, <2>3 DEF RequireActorMatch
<1>3. ASSUME NEW roles, NEW actor \in Authenticated(headers, roles), Acts(actor),
             DOMAIN bids' = DOMAIN bids
      PROVE  /\ lastActor'.actorId \notin ScriptPeople /\ lastActor'.role # "admin"
             /\ \A x \in DOMAIN bids' \ DOMAIN bids : bids'[x].workerAddress = lastActor'.actorId
  BY <1>1, <1>3
<1>4. CASE \E t, p, c, e : PostTask(headers, t, p, c, e)
  BY <1>3, <1>4 DEF PostTask, CreateTask
<1>5. CASE \E a, t, b : PostAssignment(headers, a, t, b)
  BY <1>3, <1>5 DEF PostAssignment, CreateAssignment
<1>6. CASE \E a : PostAck(headers, a)
  BY <1>3, <1>6 DEF PostAck, AcknowledgeAssignment
<1>7. CASE \E a, w, r, c, h : PostSubmit(headers, a, w, r, c, h)
  BY <1>3, <1>7 DEF PostSubmit, RecordWorkerSubmission
<1>8. CASE \E t, a : PostAccept(headers, t, a)
  BY <1>3, <1>8 DEF PostAccept, AcceptAssignment
<1>9. CASE \E d, t, a : PostDispute(headers, d, t, a)
  BY <1>3, <1>9 DEF PostDispute, CreateDispute
<1>10. CASE \E d : PostReveal(headers, d)
  BY <1>3, <1>10 DEF PostReveal, SubmitReveal
<1>11. QED
  BY <1>2, <1>4, <1>5, <1>6, <1>7, <1>8, <1>9, <1>10 DEF Route

(* A task of the script's employer whose worker is the script's is moved by*)
(* nobody else: hiring, delivering, settling and disputing each take an    *)
(* actor of the assignment, and a stranger is read as none of the two.     *)
LEMMA StrangersKeepOff ==
  ASSUME IInv, ForSmokeTest, NEW headers \in Headers, Route(headers),
         NEW t \in DOMAIN tasks, tasks[t].employerAddress = "0xA11cE",
         \A a \in AssignmentsOf(t) : assignments[a].workerAddress = "proof_runner_3"
  PROVE  tasks'[t].status = tasks[t].status
<1>1. Next /\ IInv' /\ TypeOK
  BY HandlerStep, NextPreserves DEF IInv
<1>2. lastActor'.actorId \notin ScriptPeople /\ lastActor'.role # "admin"
  BY StrangersActForOthers
<1>3. TaskMoves(t) /\ \A a \in DOMAIN assignments : AssignmentMoves(a)
  BY <1>1, RouteMovesByParties DEF TasksMoveByParties
<1>4. ~ MayHire(t) /\ ~ Administers
  BY <1>2 DEF MayHire, Administers, ScriptPeople
<1>5. \A a \in AssignmentsOf(t) : ~ MayDeliver(a) /\ ~ IsParty(a, lastActor'.actorId)
  BY <1>2 DEF MayDeliver, IsParty, ScriptPeople, IInv, SelectedBidIsAssigned, AssignmentsOf
<1>6. ASSUME tasks'[t].status = "submitted", tasks[t].status # "submitted" PROVE FALSE
  <2>1. EscrowSequence(t)' = EscrowSequence(t) + 1
    BY <1>1, <1>6, StatusMovesOn, TermsAreKept DEF StatusOf, OnlyStatusMoves, TypeOK, MapOf
  <2>2. tasks[t].status # "open"
    BY <1>6, <2>1 DEF EscrowSequence, StatusOf
  <2>3. PICK a \in DOMAIN assignments : assignments[a].taskId = t
    BY <2>2 DEF IInv, OneAssignmentPerTask
  <2>4. /\ t \in DOMAIN tasks' /\ a \in DOMAIN assignments'
        /\ assignments'[a].taskId = t
    BY <1>1, <2>3, TermsAreKept DEF OnlyStatusMoves
  <2>5. assignments'[a].status = "submitted"
    BY <1>1, <1>6, <2>4 DEF IInv, LifecyclesAgree
  <2>6. tasks[t].status # "disputed"
    BY <1>6, <2>1, <2>4 DEF EscrowSequence, StatusOf
  <2>7. assignments[a].status # "submitted"
    BY <1>6, <2>3, <2>6 DEF IInv, LifecyclesAgree
  <2>8. MayDeliver(a) \/ Administers
    BY <1>3, <2>5, <2>7 DEF AssignmentMoves
  <2>9. QED
    BY <1>4, <1>5, <2>3, <2>8 DEF AssignmentsOf
<1>7. QED
  BY <1>1, <1>3, <1>4, <1>5, <1>6, StepGoesForward DEF TaskMoves, LivesGoForward, TaskLife

-----------------------------------------------------------------------------
(* The status of the script's task when it has got n answers.              *)
StatusAt(n) ==
  IF n <= 5 THEN "open" ELSE IF n <= 7 THEN "assigned" ELSE IF n <= 9 THEN "submitted"
  ELSE "disputed"

(* What is on record of the script's task when it has got n answers.       *)
ScriptAt(n) ==
  /\ SeedInitialData => SeedTaskIds \subseteq DOMAIN tasks
  /\ Mine.task \in DOMAIN tasks <=> n > 1
  /\ Mine.bid \in DOMAIN bids <=> n > 3
  /\ Mine.assignment \in DOMAIN assignments <=> n > 5
  /\ Mine.receipt \in DOMAIN receipts <=> n > 7
  /\ Mine.dispute \in DOMAIN disputes <=> n > 9
  /\ n > 1 =>
       /\ tasks[Mine.task].employerAddress = "0xA11cE"
       /\ tasks[Mine.task].execution = SmokeExecution
       /\ tasks[Mine.task].status = StatusAt(n)
       /\ \A b \in BidsOf(Mine.task) : bids[b].workerAddress = "proof_runner_3" => b = Mine.bid
  /\ n > 3 =>
       /\ bids[Mine.bid].taskId = Mine.task
       /\ bids[Mine.bid].workerAddress = "proof_runner_3"
       /\ bids[Mine.bid].executionOffer = SmokeOffer
  /\ n > 5 => assignments[Mine.assignment].bidId = Mine.bid
  /\ n > 9 => disputes[Mine.dispute].assignmentId = Mine.assignment

(* The inductive invariant: the records of the script's task are those of  *)
(* the script's own requests, however many others came between.            *)
ScriptInv == IInv /\ step \in 0..13 /\ ScriptAt(step)

(* The one assignment of the script's task, once there is one.             *)
LEMMA ScriptAssignment ==
  ASSUME IInv, NEW n \in 0..13, ScriptAt(n), n > 1
  PROVE  /\ n <= 5 => AssignmentsOf(Mine.task) = {}
         /\ n > 5 => /\ AssignmentsOf(Mine.task) = {Mine.assignment}
                     /\ assignments[Mine.assignment].taskId = Mine.task
                     /\ assignments[Mine.assignment].workerAddress = "proof_runner_3"
                     /\ assignments[Mine.assignment].employerAddress = "0xA11cE"
         /\ \A a \in AssignmentsOf(Mine.task) : assignments[a].workerAddress = "proof_runner_3"
<1>1. CASE n <= 5
  <2>1. Mine.task \in DOMAIN tasks /\ tasks[Mine.task].status = "open"
    BY <1>1 DEF ScriptAt, StatusAt
  <2>2. AssignmentsOf(Mine.task) = {}
    BY <2>1 DEF IInv, OneAssignmentPerTask, AssignmentsOf
  <2>3. QED
    BY <1>1, <2>2
<1>2. CASE n > 5
  <2>1. /\ Mine.assignment \in DOMAIN assignments
        /\ assignments[Mine.assignment].bidId = Mine.bid
        /\ bids[Mine.bid].taskId = Mine.task
        /\ bids[Mine.bid].workerAddress = "proof_runner_3"
        /\ tasks[Mine.task].employerAddress = "0xA11cE"
    BY <1>2 DEF ScriptAt
  <2>2. /\ assignments[Mine.assignment].taskId = Mine.task
        /\ assignments[Mine.assignment].workerAddress = "proof_runner_3"
        /\ assignments[Mine.assignment].employerAddress = "0xA11cE"
    BY <2>1 DEF IInv, SelectedBidIsAssigned
  <2>3. AssignmentsOf(Mine.task) = {Mine.assignment}
    BY <2>1, <2>2 DEF IInv, OneAssignmentPerTask, AssignmentsOf
  <2>4. QED
    BY <1>2, <2>2, <2>3
<1>3. QED
  BY <1>1, <1>2

(* Nothing of it changes but at the script's hands.                        *)
LEMMA CourseKept ==
  ASSUME IInv, NEW n \in 0..13, ScriptAt(n), [Next]_vars, NewIds \cap MineOnly = {},
         n > 1 => tasks'[Mine.task].status = tasks[Mine.task].status,
         \A b \in DOMAIN bids' \ DOMAIN bids : bids'[b].workerAddress # "proof_runner_3"
  PROVE  ScriptAt(n)'
<1>1. OnlyStatusMoves
  BY TermsAreKept DEF IInv
<1>2. /\ Mine.task \in DOMAIN tasks' <=> n > 1
      /\ Mine.bid \in DOMAIN bids' <=> n > 3
      /\ Mine.assignment \in DOMAIN assignments' <=> n > 5
      /\ Mine.receipt \in DOMAIN receipts' <=> n > 7
      /\ Mine.dispute \in DOMAIN disputes' <=> n > 9
  BY <1>1 DEF ScriptAt, OnlyStatusMoves, NewIds, MineOnly
<1>3. SeedInitialData => SeedTaskIds \subseteq DOMAIN tasks'
  BY <1>1 DEF ScriptAt, OnlyStatusMoves
<1>4. ASSUME n > 1
      PROVE  /\ tasks'[Mine.task].employerAddress = "0xA11cE"
             /\ tasks'[Mine.task].execution = SmokeExecution
             /\ tasks'[Mine.task].status = StatusAt(n)
  BY <1>1, <1>4 DEF ScriptAt, OnlyStatusMoves
<1>5. ASSUME n > 1, NEW b \in DOMAIN bids', bids'[b].taskId = Mine.task,
             bids'[b].workerAddress = "proof_runner_3"
      PROVE  b = Mine.bid
  <2>1. b \in DOMAIN bids
    BY <1>5
  <2>2. b \in BidsOf(Mine.task) /\ bids[b].workerAddress = "proof_runner_3"
    BY <1>1, <1>5, <2>1 DEF OnlyStatusMoves, BidsOf
  <2>3. QED
    BY <1>5, <2>2 DEF ScriptAt
<1>6. ASSUME n > 3
      PROVE  /\ bids'[Mine.bid].taskId = Mine.task
             /\ bids'[Mine.bid].workerAddress = "proof_runner_3"
             /\ bids'[Mine.bid].executionOffer = SmokeOffer
  BY <1>1, <1>6 DEF ScriptAt, OnlyStatusMoves
<1>7. n > 5 => assignments'[Mine.assignment].bidId = Mine.bid
  BY <1>1 DEF ScriptAt, OnlyStatusMoves
<1>8. n > 9 => disputes'[Mine.dispute].assignmentId = Mine.assignment
  BY <1>1 DEF ScriptAt, OnlyStatusMoves
<1>9. QED
  BY <1>2, <1>3, <1>4, <1>5, <1>6, <1>7, <1>8 DEF ScriptAt, BidsOf, StatusAt

(* A request of anybody else, with an identifier of its own.               *)
LEMMA StrangersKeepCourse ==
  ASSUME ForSmokeTest, ScriptInv, StrangerStep
  PROVE  ScriptInv'
<1>1. PICK headers \in Headers : Route(headers)
  BY DEF StrangerStep, ApiNext
<1>2. NewIds \cap MineOnly = {} /\ step' = step
  BY DEF StrangerStep
<1>3. [Next]_vars /\ IInv'
  BY <1>1, HandlerStep, NextPreserves DEF ScriptInv, IInv
<1>4. \A b \in DOMAIN bids' \ DOMAIN bids : bids'[b].workerAddress # "proof_runner_3"
  BY <1>1, StrangersActForOthers DEF ScriptPeople
<1>5. ASSUME step > 1 PROVE tasks'[Mine.task].status = tasks[Mine.task].status
  <2>1. Mine.task \in DOMAIN tasks /\ tasks[Mine.task].employerAddress = "0xA11cE"
    BY <1>5 DEF ScriptInv, ScriptAt
  <2>2. \A a \in AssignmentsOf(Mine.task) : assignments[a].workerAddress = "proof_runner_3"
    BY <1>5, ScriptAssignment DEF ScriptInv
  <2>3. QED
    BY <1>1, <2>1, <2>2, StrangersKeepOff DEF ScriptInv
<1>6. PICK n \in 0..13 : n = step
  BY DEF ScriptInv
<1>7. ScriptAt(n)'
  BY <1>2, <1>3, <1>4, <1>5, <1>6, CourseKept DEF ScriptInv
<1>8. step' = n
  BY <1>2, <1>6
<1>9. ScriptAt(step)'
  BY <1>7, <1>8 DEF ScriptAt
<1>10. QED
  BY <1>2, <1>3, <1>9 DEF ScriptInv

(* An answer that was only looked at.                                      *)
LEMMA AssertKeepsCourse ==
  ASSUME ScriptInv, NEW n \in {0, 2, 4, 6, 8, 10, 12}, NEW assertion, Assert(n, assertion)
  PROVE  ScriptInv'
<1>1. step = n /\ step' = n + 1 /\ UNCHANGED vars
  BY DEF Assert, apiVars
<1>2. IInv'
  BY <1>1, NextPreserves DEF ScriptInv
<1>3. ScriptAt(n)
  BY <1>1 DEF ScriptInv
<1>4. ScriptAt(n)'
  BY <1>1, <1>3 DEF ScriptAt, vars, BidsOf, StatusAt
<1>5. ScriptAt(n + 1)'
  BY <1>4 DEF ScriptAt, StatusAt
<1>6. ScriptAt(step)'
  BY <1>1, <1>5 DEF ScriptAt
<1>7. QED
  BY <1>1, <1>2, <1>6 DEF ScriptInv

(* The script's requests, one by one: each puts on record what the next    *)
(* number of answers calls for.                                            *)
LEMMA CreateKeepsCourse ==
  ASSUME ScriptInv, IInv', CreateSmokeTask
  PROVE  ScriptInv'
<1>1. PICK c : CreateTask(Mine.task, "0xA11cE", c, SmokeExecution) /\ step = 1 /\ step' = 2
  BY DEF CreateSmokeTask, Request, PostTask
<1>2. /\ DOMAIN tasks' = DOMAIN tasks \cup {Mine.task}
      /\ tasks'[Mine.task].employerAddress = "0xA11cE"
      /\ tasks'[Mine.task].execution = SmokeExecution
      /\ tasks'[Mine.task].status = "open"
      /\ UNCHANGED <<bids, assignments, receipts, disputes>>
  BY <1>1 DEF CreateTask, MapSet
<1>3. \A b \in DOMAIN bids : bids[b].taskId # Mine.task
  BY <1>1 DEF CreateTask, ScriptInv, IInv, ReferencesResolve
<1>4. ScriptAt(2)'
  BY <1>1, <1>2, <1>3 DEF ScriptInv, ScriptAt, StatusAt, BidsOf
<1>5. ScriptAt(step)'
  BY <1>1, <1>4 DEF ScriptAt
<1>6. QED
  BY <1>1, <1>5 DEF ScriptInv

LEMMA BidKeepsCourse ==
  ASSUME ScriptInv, IInv', CreateSmokeBid
  PROVE  ScriptInv'
<1>1. PICK c : /\ CreateBid(Mine.bid, Mine.task, "proof_runner_3", c, SmokeOffer)
               /\ step = 3 /\ step' = 4
  BY DEF CreateSmokeBid, Request, PostBid
<1>2. /\ DOMAIN bids' = DOMAIN bids \cup {Mine.bid} /\ Mine.bid \notin DOMAIN bids
      /\ bids'[Mine.bid].taskId = Mine.task
      /\ bids'[Mine.bid].workerAddress = "proof_runner_3"
      /\ bids'[Mine.bid].executionOffer = SmokeOffer
      /\ \A b \in DOMAIN bids : bids'[b] = bids[b]
      /\ UNCHANGED <<tasks, assignments, receipts, disputes>>
  BY <1>1 DEF CreateBid, MapSet
<1>3. \A b \in DOMAIN bids' :
        bids'[b].taskId = Mine.task /\ bids'[b].workerAddress = "proof_runner_3" => b = Mine.bid
  BY <1>1, <1>2 DEF ScriptInv, ScriptAt, BidsOf
<1>4. ScriptAt(4)'
  BY <1>1, <1>2, <1>3 DEF ScriptInv, ScriptAt, StatusAt, BidsOf
<1>5. ScriptAt(step)'
  BY <1>1, <1>4 DEF ScriptAt
<1>6. QED
  BY <1>1, <1>5 DEF ScriptInv

LEMMA AssignKeepsCourse ==
  ASSUME ScriptInv, IInv', AssignBid
  PROVE  ScriptInv'
<1>1. /\ CreateAssignment(Mine.assignment, Mine.task, Mine.bid, bids[Mine.bid].workerAddress,
                          tasks[Mine.task].employerAddress)
      /\ step = 5 /\ step' = 6
  BY DEF AssignBid, Request, PostAssignment
<1>2. OnlyStatusMoves
  <2>1. [Next]_vars
    BY BoardStep DEF SmokeStep, ScriptInv
  <2>2. QED
    BY <2>1, TermsAreKept DEF ScriptInv, IInv
<1>3. /\ DOMAIN tasks' = DOMAIN tasks /\ tasks'[Mine.task].status = "assigned"
      /\ DOMAIN bids' = DOMAIN bids
      /\ DOMAIN assignments' = DOMAIN assignments \cup {Mine.assignment}
      /\ assignments'[Mine.assignment].bidId = Mine.bid
      /\ UNCHANGED <<receipts, disputes>>
  BY <1>1 DEF CreateAssignment, Selectable, MapSet, ScriptInv, IInv, TypeOK, MapOf, TaskRecord
<1>4. ScriptAt(6)'
  BY <1>1, <1>2, <1>3 DEF ScriptInv, ScriptAt, StatusAt, BidsOf, OnlyStatusMoves
<1>5. ScriptAt(step)'
  BY <1>1, <1>4 DEF ScriptAt
<1>6. QED
  BY <1>1, <1>5 DEF ScriptInv

LEMMA SubmitKeepsCourse ==
  ASSUME ScriptInv, IInv', SubmitResult
  PROVE  ScriptInv'
<1>1. PICK result \in Content :
        /\ RecordWorkerSubmission(Mine.assignment, "proof_runner_3", Submission(result), result,
                                  CommitReceipt(Mine.receipt, Submission(result)))
        /\ step = 7 /\ step' = 8
  BY DEF SubmitResult, Request, PostSubmit
<1>2. /\ Submission(result).receiptId = Mine.receipt
      /\ Submission(result).taskId = Mine.task
  BY DEF Submission
<1>3. PICK receipt, hash :
        /\ receipt = Submission(result)
        /\ hash = CommitReceipt(Mine.receipt, Submission(result))
  OBVIOUS
<1>4. /\ DOMAIN tasks' = DOMAIN tasks
      /\ tasks'[Mine.task].status = "submitted"
      /\ tasks'[Mine.task].employerAddress = "0xA11cE"
      /\ tasks'[Mine.task].execution = SmokeExecution
      /\ DOMAIN assignments' = DOMAIN assignments
      /\ assignments'[Mine.assignment].bidId = Mine.bid
      /\ DOMAIN receipts' = DOMAIN receipts \cup {Mine.receipt}
      /\ UNCHANGED <<bids, disputes>>
  <2>1. RecordWorkerSubmission(Mine.assignment, "proof_runner_3", receipt, result, hash)
    BY <1>1, <1>3
  <2>2. receipt.receiptId = Mine.receipt /\ receipt.taskId = Mine.task
    BY <1>2, <1>3
  <2>3. /\ Mine.task \in DOMAIN tasks /\ Mine.assignment \in DOMAIN assignments
        /\ tasks[Mine.task].employerAddress = "0xA11cE"
        /\ tasks[Mine.task].execution = SmokeExecution
        /\ assignments[Mine.assignment].bidId = Mine.bid
        /\ tasks \in [DOMAIN tasks -> TaskRecord]
        /\ assignments \in [DOMAIN assignments -> AssignmentRecord]
    BY <1>1 DEF ScriptInv, ScriptAt, IInv, TypeOK, MapOf
  <2>4. QED
    BY <2>1, <2>2, <2>3 DEF RecordWorkerSubmission, MapSet, TaskRecord, AssignmentRecord
<1>5. ScriptAt(8)'
  BY <1>1, <1>4 DEF ScriptInv, ScriptAt, StatusAt, BidsOf
<1>6. ScriptAt(step)'
  BY <1>1, <1>5 DEF ScriptAt
<1>7. QED
  BY <1>1, <1>6 DEF ScriptInv

LEMMA DisputeKeepsCourse ==
  ASSUME ScriptInv, IInv', OpenDispute
  PROVE  ScriptInv'
<1>1. PICK actor : /\ CreateDispute(Mine.dispute, Mine.task, Mine.assignment, actor)
                   /\ step = 9 /\ step' = 10
  BY DEF OpenDispute, Request, PostDispute
<1>2. /\ DOMAIN tasks' = DOMAIN tasks
      /\ tasks'[Mine.task].status = "disputed"
      /\ tasks'[Mine.task].employerAddress = "0xA11cE"
      /\ tasks'[Mine.task].execution = SmokeExecution
      /\ DOMAIN disputes' = DOMAIN disputes \cup {Mine.dispute}
      /\ disputes'[Mine.dispute].assignmentId = Mine.assignment
      /\ UNCHANGED <<bids, assignments, receipts>>
  BY <1>1 DEF CreateDispute, MapSet, ScriptInv, ScriptAt, IInv, TypeOK, MapOf, TaskRecord
<1>3. ScriptAt(10)'
  BY <1>1, <1>2 DEF ScriptInv, ScriptAt, StatusAt, BidsOf
<1>4. ScriptAt(step)'
  BY <1>1, <1>3 DEF ScriptAt
<1>5. QED
  BY <1>1, <1>4 DEF ScriptInv

LEMMA RevealKeepsCourse ==
  ASSUME ScriptInv, IInv', Reveal
  PROVE  ScriptInv'
<1>1. PICK actor : SubmitReveal(Mine.dispute, actor) /\ step = 11 /\ step' = 12
  BY DEF Reveal, Request, PostReveal
<1>2. /\ DOMAIN disputes' = DOMAIN disputes
      /\ disputes'[Mine.dispute].assignmentId = Mine.assignment
      /\ UNCHANGED <<tasks, bids, assignments, receipts>>
  BY <1>1 DEF SubmitReveal, ScriptInv, ScriptAt, IInv, TypeOK, MapOf, DisputeRecord
<1>3. ScriptAt(12)'
  BY <1>1, <1>2 DEF ScriptInv, ScriptAt, StatusAt, BidsOf
<1>4. ScriptAt(step)'
  BY <1>1, <1>3 DEF ScriptAt
<1>5. QED
  BY <1>1, <1>4 DEF ScriptInv

(* Every step on the board keeps the script's records on course.           *)
LEMMA ScriptStep ==
  ASSUME ForSmokeTest, ScriptInv, [SmokeStep \/ StrangerStep]_smokeVars
  PROVE  ScriptInv'
<1>1. IInv'
  BY BoardStep DEF ScriptInv
<1>2. CASE UNCHANGED smokeVars
  <2>1. UNCHANGED vars /\ step' = step
    BY <1>2 DEF smokeVars, apiVars
  <2>2. QED
    BY <1>1, <2>1 DEF ScriptInv, ScriptAt, vars, BidsOf
<1>3. CASE SmokeStep
  BY <1>1, <1>3, AssertKeepsCourse, CreateKeepsCourse, BidKeepsCourse, AssignKeepsCourse,
     SubmitKeepsCourse, DisputeKeepsCourse, RevealKeepsCourse
     DEF SmokeStep, ListTasks, SeePrivateTask, SeeOwnBid, SeeAssignment, SeeNoReceipt,
         SettleBlocked, SeeNoDispute
<1>4. QED
  BY <1>2, <1>3, StrangersKeepCourse

-----------------------------------------------------------------------------
(* The script's bid can serve the script's task although it offers neither *)
(* the preferred provider nor the preferred model (execution.ts:126-140).  *)
LEMMA SmokeOfferServes == Compatible(SmokeExecution, SmokeOffer)
<1> DEFINE llm == SmokeExecution.llm
           given == SmokeOffer
<1>1. given # Undefined /\ IsCatalog(given.providers)
  BY SmokeAssumption, OfferAssumption DEF IsCatalog
<1>2. /\ SmokeExecution.transport = "http-poller"
      /\ llm.providerAllowlist = {"mock", "ollama", "openai-compatible"}
      /\ llm.modelAllowlist = {}
      /\ llm.requiredCapabilities = {"text", "json"}
  BY DEF SmokeExecution, LlmPolicy
<1>3. /\ given.transports = {"http-poller"}
      /\ 1 \in DOMAIN given.providers
      /\ given.providers[1].provider = "openai-compatible"
      /\ given.providers[1].capabilities = {"text", "json"}
  BY DEF SmokeOffer, OneProvider
<1> HIDE DEF llm, given
<1>4. 1 \in Capable(llm, given.providers)
  BY <1>2, <1>3 DEF Capable, Candidates, Admits, ProviderSatisfiesCapabilities
<1>5. Serviceable(SmokeExecution, given)
  BY <1>1, <1>2, <1>3, <1>4 DEF Serviceable, llm
<1>6. QED
  BY <1>1, <1>5, CompatibilityIsServiceability DEF given

(* Who has not signed in sees no record and no party of any task.          *)
LEMMA NobodySeesRecords ==
  ASSUME IInv, NEW t \in DOMAIN tasks
  PROVE  LET view == ProjectTaskDetail(t, NoViewer)
         IN  IsRedacted(view.task) /\ HidesRecords(view)
<1>1. ~ CanViewFullTask(t, NoViewer) /\ ~ CanViewAnyPrivateRecords(t, NoViewer)
  <2>1. NoViewer.actorId \notin Party
    BY ViewsAssumption DEF NoViewer
  <2>2. ~ CanViewFullTask(t, NoViewer)
    BY <2>1 DEF CanViewFullTask, OwnsOrAdministers, AssignmentsOf, IInv, TypeOK, MapOf,
                AssignmentRecord
  <2>3. QED
    BY <2>1, <2>2 DEF CanViewAnyPrivateRecords, BidsOf, IInv, TypeOK, MapOf, BidRecord
<1>2. IsRedacted(ProjectTaskPublic(t))
  BY DEF IsRedacted, ProjectTaskPublic
<1>3. QED
  BY <1>1, <1>2 DEF ProjectTaskDetail, HidesRecords

(* What the script's worker sees of its task, before and after the award.  *)
LEMMA WorkerView ==
  ASSUME ForSmokeTest, IInv, NEW n \in 0..13, ScriptAt(n)
  PROVE  /\ n = 4 => OwnBidOnly
         /\ n = 6 => AssignmentShown
<1> DEFINE t == Mine.task
<1>1. /\ AsWorker.actorId = "proof_runner_3" /\ AsWorker.role = "worker"
      /\ n > 1 => ~ OwnsOrAdministers(t, AsWorker)
  BY DEF ForSmokeTest, Actor, ScriptAt, OwnsOrAdministers
<1>2. ASSUME n = 4 PROVE OwnBidOnly
  <2>1. AssignmentsOf(t) = {}
    BY <1>2, ScriptAssignment
  <2>2. ~ CanViewFullTask(t, AsWorker)
    BY <1>1, <1>2, <2>1 DEF CanViewFullTask
  <2>3. Mine.bid \in BidsOf(t) /\ bids[Mine.bid].workerAddress = "proof_runner_3"
    BY <1>2 DEF ScriptAt, BidsOf
  <2>4. \A b \in BidsOf(t) : bids[b].workerAddress = "proof_runner_3" => b = Mine.bid
    BY <1>2 DEF ScriptAt
  <2>5. CanViewAnyPrivateRecords(t, AsWorker) /\ VisibleBids(t, AsWorker) = {Mine.bid}
    BY <1>1, <1>2, <2>3, <2>4 DEF CanViewAnyPrivateRecords, VisibleBids
  <2>6. IsRedacted(ProjectTaskPublic(t))
    BY DEF IsRedacted, ProjectTaskPublic
  <2>7. QED
    BY <2>2, <2>5, <2>6 DEF OwnBidOnly, ProjectTaskDetail
<1>3. ASSUME n = 6 PROVE AssignmentShown
  <2>1. /\ AssignmentsOf(t) = {Mine.assignment}
        /\ assignments[Mine.assignment].workerAddress = "proof_runner_3"
    BY <1>3, ScriptAssignment
  <2>2. CanViewFullTask(t, AsWorker) /\ CanViewAnyPrivateRecords(t, AsWorker)
    BY <1>1, <2>1 DEF CanViewFullTask, CanViewAnyPrivateRecords
  <2>3. Mine.assignment \in VisibleAssignments(t, AsWorker)
    BY <1>1, <1>3, <2>1 DEF VisibleAssignments
  <2>4. "employerAddress" \in DOMAIN tasks[t]
    BY <1>3 DEF ScriptAt, IInv, TypeOK, MapOf, TaskRecord
  <2>5. QED
    BY <2>2, <2>3, <2>4 DEF AssignmentShown, ProjectTaskDetail, IsRedacted
<1>4. QED
  BY <1>2, <1>3

LEMMA ScriptAdmitted ==
  ASSUME ForSmokeTest
  PROVE  /\ Admitted(EmployerHeaders, {"employer"}, "0xA11cE")
         /\ Admitted(WorkerHeaders, {"worker"}, "proof_runner_3")
         /\ \A a : assignments[a].employerAddress = "0xA11cE" => AdmittedParty(EmployerHeaders, a)
         /\ \A a : assignments[a].workerAddress = "proof_runner_3" => AdmittedParty(WorkerHeaders, a)
<1>1. /\ Actor("0xA11cE", "employer").actorId = "0xA11cE"
      /\ Actor("proof_runner_3", "worker").actorId = "proof_runner_3"
  BY DEF Actor
<1>2. /\ Authenticated(EmployerHeaders, {"employer"}) = {Actor("0xA11cE", "employer")}
      /\ Authenticated(EmployerHeaders, ActorRole) = {Actor("0xA11cE", "employer")}
      /\ Authenticated(WorkerHeaders, {"worker"}) = {Actor("proof_runner_3", "worker")}
      /\ Authenticated(WorkerHeaders, ActorRole) = {Actor("proof_runner_3", "worker")}
  BY ScriptActs DEF ActorRole
<1>3. QED
  BY <1>1, <1>2 DEF Admitted, AdmittedParty, RequireActorMatch, IsParty

(* With these records the script's next step is one that passes.           *)
LEMMA OnCoursePasses == ASSUME ForSmokeTest, ScriptInv PROVE NextStepPasses
<1>1. IInv /\ step \in 0..13 /\ ScriptAt(step)
  BY DEF ScriptInv
<1>2. step > 5 =>
        /\ Mine.assignment \in DOMAIN assignments
        /\ assignments[Mine.assignment].taskId = Mine.task
        /\ assignments[Mine.assignment].workerAddress = "proof_runner_3"
        /\ assignments[Mine.assignment].employerAddress = "0xA11cE"
        /\ assignments[Mine.assignment].bidId = Mine.bid
        /\ assignments[Mine.assignment].status \in AssignmentStatus
  BY <1>1, ScriptAssignment DEF ScriptAt, IInv, TypeOK, MapOf, AssignmentRecord
<1>3. step > 1 => Mine.task \in DOMAIN tasks /\ tasks[Mine.task].status = StatusAt(step)
                  /\ tasks[Mine.task].employerAddress = "0xA11cE"
                  /\ tasks[Mine.task].execution = SmokeExecution
  BY <1>1 DEF ScriptAt
<1>4. step = 0 => TasksListed
  BY <1>1, NobodySeesRecords DEF TasksListed, ScriptAt, SeedTaskIds, EmptyMap
<1>5. step = 1 => /\ Admitted(EmployerHeaders, {"employer"}, "0xA11cE")
                  /\ Mine.task \notin DOMAIN tasks
  BY <1>1, ScriptAdmitted DEF ScriptAt
<1>6. step = 2 => TaskIsPrivate
  BY <1>1, <1>3, NobodySeesRecords DEF TaskIsPrivate, HidesRecords
<1>7. step = 3 => /\ Admitted(WorkerHeaders, {"worker"}, "proof_runner_3")
                  /\ Biddable(Mine.task, SmokeOffer)
                  /\ Mine.bid \notin DOMAIN bids
  BY <1>1, <1>3, ScriptAdmitted, SmokeOfferServes DEF ScriptAt, StatusAt, Biddable
<1>8. (step = 4 => OwnBidOnly) /\ (step = 6 => AssignmentShown)
  BY <1>1, WorkerView
<1>9. step = 5 => /\ Admitted(EmployerHeaders, {"employer"}, tasks[Mine.task].employerAddress)
                  /\ Selectable(Mine.task, Mine.bid)
                  /\ Mine.assignment \notin DOMAIN assignments
  BY <1>1, <1>3, ScriptAdmitted, SmokeOfferServes DEF ScriptAt, StatusAt, Selectable
<1>10. step = 7 => /\ Admitted(WorkerHeaders, {"worker"}, "proof_runner_3")
                   /\ Submittable(Mine.assignment)
                   /\ assignments[Mine.assignment].workerAddress = "proof_runner_3"
                   /\ \A result \in Content : ReceiptMatches(Mine.assignment, Submission(result))
  <2> SUFFICES ASSUME step = 7
               PROVE  Submittable(Mine.assignment) /\ Mine.receipt \notin DOMAIN receipts
    BY <1>2, ScriptAdmitted DEF ReceiptMatches, Submission
  <2>1. assignments[Mine.assignment].status \in ActiveAssignment
    BY <1>1, <1>2, <1>3 DEF StatusAt, IInv, LifecyclesAgree
  <2>2. QED
    BY <1>1, <1>2, <2>1 DEF Submittable, ActiveAssignment, ScriptAt
<1>11. step \in {8, 12} => ReceiptHidden /\ DisputeHidden
  BY <1>1, <1>3, NobodySeesRecords DEF ReceiptHidden, DisputeHidden, HidesRecords
<1>12. step = 9 => /\ AdmittedParty(EmployerHeaders, Mine.assignment)
                   /\ Disputable(Mine.task, Mine.assignment)
                   /\ Mine.dispute \notin DOMAIN disputes
  <2> SUFFICES ASSUME step = 9
               PROVE  Disputable(Mine.task, Mine.assignment) /\ Mine.dispute \notin DOMAIN disputes
    BY <1>2, ScriptAdmitted
  <2>1. tasks[Mine.task].status = "submitted" /\ Mine.task \in DOMAIN tasks
    BY <1>3 DEF StatusAt
  <2>2. assignments[Mine.assignment].status = "submitted"
    BY <1>1, <1>2, <2>1 DEF IInv, LifecyclesAgree
  <2>3. ActiveDisputes(Mine.task, Mine.assignment) = {}
    BY <1>1, <2>1 DEF IInv, DisputeFreezesSettlement, ActiveDisputes
  <2>4. QED
    BY <1>1, <1>2, <2>1, <2>2, <2>3 DEF Disputable, ScriptAt
<1>13. step > 9 => /\ Mine.dispute \in DOMAIN disputes
                   /\ disputes[Mine.dispute].assignmentId = Mine.assignment
                   /\ disputes[Mine.dispute].taskId = Mine.task
                   /\ disputes[Mine.dispute].status \in ActiveDispute
  BY <1>1, <1>2 DEF ScriptAt, IInv, ReferencesResolve, DisputeFreezesSettlement
<1>14. step = 10 => UnderDispute
  BY <1>13 DEF UnderDispute, ActiveDisputes, Settleable
<1>15. step = 11 => /\ Revealable(Mine.dispute)
                    /\ AdmittedParty(WorkerHeaders, disputes[Mine.dispute].assignmentId)
  BY <1>2, <1>13, ScriptAdmitted DEF Revealable
<1>16. QED
  BY <1>4, <1>5, <1>6, <1>7, <1>8, <1>9, <1>10, <1>11, <1>12, <1>14, <1>15 DEF NextStepPasses

(* Whatever people with other credentials do meanwhile, and whatever is on *)
(* the board: the script's next assertion holds and its next request is    *)
(* accepted.                                                               *)
THEOREM ScriptIsNeverStopped == SmokeSpec => []ScriptNeverFails
<1>1. SmokeInit => IInv /\ (ForSmokeTest => ScriptInv)
  <2> SUFFICES ASSUME SmokeInit PROVE ScriptInv
    BY DEF ScriptInv
  <2>1. IInv /\ Init /\ step = 0
    BY InitHolds DEF SmokeInit, ApiInit
  <2>2. ScriptAt(0)
    BY <2>1, SmokeAssumption
       DEF ScriptAt, Init, EmptyMap, SeedTasks, SeedBids, SeedAssignments, SeedReceipts
  <2>3. QED
    BY <2>1, <2>2 DEF ScriptInv
<1>2. /\ IInv /\ (ForSmokeTest => ScriptInv)
      /\ [SmokeStep \/ StrangerStep]_smokeVars
      => IInv' /\ (ForSmokeTest => ScriptInv)'
  <2> SUFFICES ASSUME IInv, ForSmokeTest => ScriptInv, [SmokeStep \/ StrangerStep]_smokeVars
               PROVE  IInv' /\ (ForSmokeTest' => ScriptInv')
    OBVIOUS
  <2>1. IInv' /\ authConfig' = authConfig
    BY BoardStep
  <2>2. ForSmokeTest' <=> ForSmokeTest
    BY <2>1 DEF ForSmokeTest, Closed, AsWorker
  <2>3. QED
    BY <2>1, <2>2, ScriptStep
<1>3. (ForSmokeTest => ScriptInv) => ScriptNeverFails
  BY OnCoursePasses DEF ScriptNeverFails
<1>4. QED
  BY <1>1, <1>2, <1>3, PTL DEF SmokeSpec

-----------------------------------------------------------------------------
(* The browser in front of the routes (WebSession).                        *)

(* A configured credential stands for an actor.                            *)
LEMMA CredentialsNameActors ==
  ASSUME NEW env, NEW token \in DOMAIN BuildBetaAuthConfig(env).credentials
  PROVE  \E actorId, role :
           BuildBetaAuthConfig(env).credentials[token] = Actor(actorId, role)
<1> DEFINE found == BuildBetaAuthConfig(env).credentials[token]
<1>1. CASE ValidEntries(env.credentials) = {}
  <2>1. BuildBetaAuthConfig(env).credentials = DefaultActorCredentials
    BY <1>1 DEF BuildBetaAuthConfig
  <2>2. found = Actor("0xA11cE", "employer") \/ found = Actor("proof_runner_3", "worker")
    BY <2>1 DEF DefaultActorCredentials
  <2>3. QED
    BY <2>2, Zenon
<1>2. CASE ValidEntries(env.credentials) # {}
  <2>1. BuildBetaAuthConfig(env).credentials = BuildCredentialIndex(env.credentials)
    BY <1>2 DEF BuildBetaAuthConfig
  <2> DEFINE entry == env.credentials[LastEntry(env.credentials, token)]
  <2>2. found = Actor(entry.actorId, entry.role)
    BY <2>1 DEF BuildCredentialIndex
  <2> HIDE DEF entry, found
  <2>3. \E actorId, role : found = Actor(actorId, role)
    BY <2>2, Zenon
  <2>4. QED
    BY <2>3 DEF found
<1>3. QED
  BY <1>1, <1>2

(* Headers that name somebody are read as that actor, or as nobody.        *)
LEMMA NamedOrNobody ==
  ASSUME NEW env, NEW headers, headers.actorId # "", headers.role \in ActorRole
  PROVE  ParseAuthenticatedActor(headers, BuildBetaAuthConfig(env))
           \in {NoActor, Actor(headers.actorId, headers.role)}
<1> DEFINE config == BuildBetaAuthConfig(env)
           actor == ParseAuthenticatedActor(headers, config)
<1>0. ReadActorRole(headers.role) = headers.role /\ headers.role # ""
  BY DEF ReadActorRole, ActorRole
<1>1. CASE actor = BoundActor(headers, config) /\ headers.token \in DOMAIN config.credentials
  <2>1. PICK actorId, role : config.credentials[headers.token] = Actor(actorId, role)
    BY <1>1, CredentialsNameActors
  <2> HIDE DEF config, actor
  <2>2. \/ actor = NoActor
        \/ actor = Actor(actorId, role) /\ HeadersFit(headers, Actor(actorId, role))
    BY <1>1, <2>1 DEF BoundActor
  <2>3. Actor(actorId, role).actorId = actorId /\ Actor(actorId, role).role = role
    BY DEF Actor
  <2>4. HeadersFit(headers, Actor(actorId, role)) =>
          headers.actorId = actorId /\ headers.role = role
    BY <1>0, <2>3 DEF HeadersFit
  <2>5. actor \in {NoActor, Actor(headers.actorId, headers.role)}
    BY <2>2, <2>4
  <2>6. QED
    BY <2>5 DEF actor, config
<1>2. CASE actor = SharedActor(headers, config)
  <2> HIDE DEF config, actor
  <2>1. actor \in {NoActor, Actor(headers.actorId, headers.role)}
    BY <1>0, <1>2 DEF SharedActor
  <2>2. QED
    BY <2>1 DEF actor, config
<1>3. CASE actor = NoActor
  BY <1>3
<1>4. QED
  BY <1>1, <1>2, <1>3 DEF ParseAuthenticatedActor

LEMMA PageActorsAreNamed ==
  ASSUME NEW actor \in PageActor
  PROVE  /\ actor.actorId # ""
         /\ actor.role \in ActorRole
         /\ actor = Actor(actor.actorId, actor.role)
<1>1. PICK actorId, role : /\ actor = Actor(actorId, role)
                           /\ actorId # "" /\ role \in {"employer", "worker"}
  <2>1. CASE actor \in {Actor("0xA11cE", "employer"), Actor("proof_runner_3", "worker")}
    BY <2>1
  <2>2. CASE \E e \in Entered : actor = Actor(e.actorId, e.role)
    BY <2>2, EnteredAssumption
  <2>3. QED
    BY <2>1, <2>2 DEF PageActor
<1>2. actor.actorId = actorId /\ actor.role = role
  BY <1>1 DEF Actor
<1>3. QED
  BY <1>1, <1>2 DEF ActorRole

(* The proxy lets what a page says stand.                                  *)
LEMMA PageNamesItself ==
  ASSUME NEW actor \in PageActor
  PROVE  /\ UpstreamHeaders(BuildBetaAuthHeaders(actor)).actorId = actor.actorId
         /\ UpstreamHeaders(BuildBetaAuthHeaders(actor)).role = actor.role
<1>1. actor.actorId # "" /\ actor.role # ""
  BY PageActorsAreNamed DEF ActorRole
<1>2. QED
  BY <1>1 DEF UpstreamHeaders, BuildBetaAuthHeaders, Credential, OrElse

ConfigBuilt == \E env \in ApiEnv : apiConfig = BuildBetaAuthConfig(env)

(* No mixture of a page's actor, its token and the session makes the API   *)
(* take the page's request for somebody else's.                            *)
THEOREM PagesActForThemselves == WebSpec => []NeverActsForAnother
<1>1. WebInit => ConfigBuilt /\ NeverActsForAnother
  <2> SUFFICES ASSUME WebInit PROVE ConfigBuilt /\ NeverActsForAnother
    OBVIOUS
  <2>1. acted.did = NoActor
    BY DEF WebInit
  <2>2. QED
    BY <2>1 DEF WebInit, ConfigBuilt, NeverActsForAnother
<1>2. ConfigBuilt /\ NeverActsForAnother /\ [WebNext]_webVars
        => (ConfigBuilt /\ NeverActsForAnother)'
  <2> SUFFICES ASSUME ConfigBuilt, NeverActsForAnother, [WebNext]_webVars
      PROVE  ConfigBuilt' /\ NeverActsForAnother'
    OBVIOUS
  <2>1. ASSUME NEW actor \in PageActor, ActAs(actor)
        PROVE  ConfigBuilt' /\ NeverActsForAnother'
    <3>1. /\ acted'.meant = actor
          /\ acted'.did = ParseAuthenticatedActor(
                            UpstreamHeaders(BuildBetaAuthHeaders(actor)), apiConfig)
          /\ apiConfig' = apiConfig
      BY <2>1 DEF ActAs
    <3>2. PICK env \in ApiEnv : apiConfig = BuildBetaAuthConfig(env)
      BY DEF ConfigBuilt
    <3> DEFINE headers == UpstreamHeaders(BuildBetaAuthHeaders(actor))
    <3>3. acted'.did \in {NoActor, actor}
      <4>1. headers.actorId = actor.actorId /\ headers.role = actor.role
        BY PageNamesItself
      <4>2. acted'.did = ParseAuthenticatedActor(headers, BuildBetaAuthConfig(env))
        BY <3>1, <3>2
      <4> HIDE DEF headers
      <4>3. acted'.did \in {NoActor, Actor(actor.actorId, actor.role)}
        BY <4>1, <4>2, PageActorsAreNamed, NamedOrNobody
      <4>4. QED
        BY <4>3, PageActorsAreNamed
    <3>4. QED
      BY <3>1, <3>3 DEF ConfigBuilt, NeverActsForAnother
  <2>2. CASE UNCHANGED <<apiConfig, acted>>
    BY <2>2 DEF ConfigBuilt, NeverActsForAnother
  <2>3. (\E actor \in PageActor : ActAs(actor)) \/ UNCHANGED <<apiConfig, acted>>
    BY DEF WebNext, webVars, StartSession, ResetWorkspace, ActivateSession, AnswerDelete,
           DeleteIgnored, GoOn, AnswerPost, FailRequest
  <2>4. QED
    BY <2>1, <2>2, <2>3
<1>3. QED
  BY <1>1, <1>2, PTL DEF WebSpec

-----------------------------------------------------------------------------
Kind  == {"none", "start", "reset", "activate"}
Stage == {"idle", "deleting", "deleted", "posting", "done", "failed"}
Body  == Entered \cup {Credential(Actor("", role), "") : role \in {"", "employer", "worker"}}

ClickState ==
  [kind : Kind, stage : Stage, body : Body,
   carried : Nat, madeBefore : Nat, disturbed : BOOLEAN, answer : Nat]

(* A reset that nothing disturbs is the only click under way: once its     *)
(* DELETE is answered there is no workspace cookie, and its POST carries   *)
(* none, so that it is given a number that was never given before.         *)
ResetProgress(c) ==
  /\ clicks[c].madeBefore <= made
  /\ ~clicks[c].disturbed /\ InProgress(c) => ~OthersInProgress(c)
  /\ clicks[c].kind = "reset" /\ ~clicks[c].disturbed =>
       /\ clicks[c].stage = "deleted" => cookies.workspaceId = 0
       /\ clicks[c].stage = "posting" => clicks[c].carried = 0
       /\ clicks[c].stage = "done" => clicks[c].answer > clicks[c].madeBefore

SessionInv ==
  /\ made \in Nat
  /\ cookies.workspaceId \in Nat
  /\ clicks \in [Click -> ClickState]
  /\ \A c \in Click : ResetProgress(c)

(* A click that starts or moves leaves its own record and marks the others.*)
LEMMA ClickMoves ==
  ASSUME SessionInv, NEW c \in Click, NEW record \in ClickState, SetClick(c, record),
         made' \in Nat, made' >= made, cookies'.workspaceId \in Nat,
         record.madeBefore <= made',
         ~record.disturbed => ~OthersInProgress(c),
         record.kind = "reset" /\ ~record.disturbed =>
           /\ record.stage = "deleted" => cookies'.workspaceId = 0
           /\ record.stage = "posting" => record.carried = 0
           /\ record.stage = "done" => record.answer > record.madeBefore
  PROVE  SessionInv'
<1>1. /\ clicks' \in [Click -> ClickState]
      /\ clicks'[c] = record
      /\ \A d \in Click \ {c} :
           clicks'[d] = [clicks[d] EXCEPT !.disturbed = @ \/ InProgress(d)]
  BY DEF SetClick, SessionInv, ClickState
<1>2. \A d \in Click \ {c} :
        /\ clicks'[d].kind = clicks[d].kind /\ clicks'[d].stage = clicks[d].stage
        /\ clicks'[d].carried = clicks[d].carried /\ clicks'[d].answer = clicks[d].answer
        /\ clicks'[d].madeBefore = clicks[d].madeBefore
        /\ clicks'[d].disturbed = (clicks[d].disturbed \/ InProgress(d))
  BY <1>1 DEF SessionInv, ClickState
<1>3. \A d \in Click \ {c} : InProgress(d)' <=> InProgress(d)
  BY <1>2 DEF InProgress
<1>4. ResetProgress(c)'
  <2>1. OthersInProgress(c)' <=> OthersInProgress(c)
    BY <1>3 DEF OthersInProgress
  <2>2. QED
    BY <1>1, <2>1 DEF ResetProgress
<1>5. ASSUME NEW d \in Click \ {c} PROVE ResetProgress(d)'
  <2>1. ResetProgress(d) /\ made \in Nat /\ clicks[d].madeBefore \in Nat
    BY DEF SessionInv, ClickState
  <2>2. ~clicks'[d].disturbed => ~InProgress(d) /\ ~clicks[d].disturbed
    BY <1>2
  <2>3. clicks'[d].madeBefore <= made'
    BY <1>2, <2>1 DEF ResetProgress
  <2>4. QED
    BY <1>2, <1>3, <2>1, <2>2, <2>3 DEF ResetProgress, InProgress
<1>6. QED
  BY <1>1, <1>4, <1>5 DEF SessionInv

LEMMA IdleTyped == Idle \in ClickState /\ Idle.stage = "idle" /\ Idle.kind = "none"
<1>1. Credential(NoActor, "") \in Body
  BY DEF Body, NoActor, Actor
<1>2. QED
  BY <1>1 DEF Idle, ClickState, Kind, Stage

LEMMA ClickedTyped ==
  ASSUME SessionInv, NEW c \in Click, NEW kind \in {"start", "reset", "activate"},
         NEW body \in Body
  PROVE  /\ Clicked(c, kind, body) \in ClickState
         /\ Clicked(c, kind, body).kind = kind
         /\ Clicked(c, kind, body).madeBefore = made
         /\ Clicked(c, kind, body).disturbed = OthersInProgress(c)
         /\ Clicked(c, kind, body).stage = "idle"
<1>1. Idle \in ClickState /\ Idle.stage = "idle"
  BY IdleTyped
<1>2. OthersInProgress(c) \in BOOLEAN
  BY DEF OthersInProgress
<1>3. QED
  BY <1>1, <1>2 DEF Clicked, ClickState, SessionInv, Kind

LEMMA SendPostTyped ==
  ASSUME SessionInv, NEW record \in ClickState
  PROVE  /\ SendPost(record) \in ClickState
         /\ SendPost(record).stage = "posting"
         /\ SendPost(record).carried = cookies.workspaceId
         /\ SendPost(record).kind = record.kind
         /\ SendPost(record).disturbed = record.disturbed
         /\ SendPost(record).madeBefore = record.madeBefore
BY DEF SendPost, ClickState, SessionInv, Stage

LEMMA StepKeepsSession ==
  ASSUME SessionInv, [WebNext]_webVars
  PROVE  SessionInv'
<1> USE DEF SessionInv
<1>0. \A c \in Click :
        /\ clicks[c] \in ClickState
        /\ clicks[c].madeBefore \in Nat /\ clicks[c].madeBefore <= made
        /\ ~clicks[c].disturbed /\ InProgress(c) => ~OthersInProgress(c)
  BY DEF ResetProgress, ClickState
<1>1. ASSUME NEW c \in Click, NEW role \in {"employer", "worker"}, StartSession(c, role)
      PROVE  SessionInv'
  <2> DEFINE body == Credential(Actor("", role), "")
             clicked == Clicked(c, "start", body)
  <2>1. body \in Body
    BY DEF Body
  <2> HIDE DEF body
  <2>2. /\ SetClick(c, SendPost(clicked)) /\ made' = made /\ cookies' = cookies
    BY <1>1 DEF StartSession, body
  <2>3. /\ clicked \in ClickState /\ clicked.kind = "start"
        /\ clicked.madeBefore = made /\ clicked.disturbed = OthersInProgress(c)
    BY <2>1, ClickedTyped
  <2> HIDE DEF clicked
  <2>4. QED
    BY <2>2, <2>3, SendPostTyped, ClickMoves
<1>2. ASSUME NEW c \in Click, NEW role \in {"employer", "worker"}, ResetWorkspace(c, role)
      PROVE  SessionInv'
  <2> DEFINE body == Credential(Actor("", role), "")
             clicked == Clicked(c, "reset", body)
             record == [clicked EXCEPT !.stage = "deleting"]
  <2>1. body \in Body
    BY DEF Body
  <2> HIDE DEF body
  <2>2. /\ SetClick(c, record) /\ made' = made /\ cookies' = cookies
    BY <1>2 DEF ResetWorkspace, body
  <2>3. /\ clicked \in ClickState
        /\ clicked.madeBefore = made /\ clicked.disturbed = OthersInProgress(c)
    BY <2>1, ClickedTyped
  <2> HIDE DEF clicked
  <2>4. /\ record \in ClickState /\ record.stage = "deleting"
        /\ record.madeBefore = made /\ record.disturbed = OthersInProgress(c)
    BY <2>3 DEF ClickState, Stage
  <2> HIDE DEF record
  <2>5. QED
    BY <2>2, <2>4, ClickMoves
<1>3. ASSUME NEW c \in Click, NEW e \in Entered, ActivateSession(c, e)
      PROVE  SessionInv'
  <2> DEFINE clicked == Clicked(c, "activate", e)
             deleting == [clicked EXCEPT !.stage = "deleting"]
  <2>1. e \in Body
    BY DEF Body
  <2>2. /\ SetClick(c, deleting) \/ SetClick(c, SendPost(clicked))
        /\ made' = made /\ cookies' = cookies
    BY <1>3 DEF ActivateSession
  <2>3. /\ clicked \in ClickState /\ clicked.kind = "activate"
        /\ clicked.madeBefore = made /\ clicked.disturbed = OthersInProgress(c)
    BY <2>1, ClickedTyped
  <2> HIDE DEF clicked
  <2>4. /\ deleting \in ClickState /\ deleting.kind = "activate"
        /\ deleting.madeBefore = made /\ deleting.disturbed = OthersInProgress(c)
    BY <2>3 DEF ClickState, Stage
  <2> HIDE DEF deleting
  <2>5. QED
    BY <2>2, <2>3, <2>4, SendPostTyped, ClickMoves
<1>4. ASSUME NEW c \in Click
      PROVE  LET next == Continued(c)
             IN  /\ next \in ClickState
                 /\ next.kind = clicks[c].kind /\ next.madeBefore = clicks[c].madeBefore
                 /\ next.disturbed = clicks[c].disturbed
                 /\ clicks[c].kind = "reset" => next.stage = "deleted"
  BY <1>0 DEF Continued, ClickState, Stage
<1>5. ASSUME NEW c \in Click, AnswerDelete(c) PROVE SessionInv'
  <2>1. /\ SetClick(c, Continued(c)) /\ made' = made /\ cookies'.workspaceId = 0
        /\ InProgress(c)
    BY <1>5 DEF AnswerDelete, ClearSessionCookies, NoCookies, InProgress
  <2>2. QED
    BY <1>0, <1>4, <2>1, ClickMoves
<1>6. ASSUME NEW c \in Click, DeleteIgnored(c) PROVE SessionInv'
  <2> DEFINE record == [Continued(c) EXCEPT !.disturbed = TRUE]
  <2>1. /\ SetClick(c, record) /\ made' = made /\ cookies' = cookies
    BY <1>6 DEF DeleteIgnored
  <2>2. /\ record \in ClickState /\ record.disturbed
        /\ record.madeBefore = clicks[c].madeBefore
    BY <1>4 DEF ClickState
  <2> HIDE DEF record
  <2>3. QED
    BY <1>0, <2>1, <2>2, ClickMoves
<1>7. ASSUME NEW c \in Click, GoOn(c) PROVE SessionInv'
  <2>1. /\ SetClick(c, SendPost(clicks[c])) /\ made' = made /\ cookies' = cookies
        /\ InProgress(c) /\ clicks[c].stage = "deleted"
    BY <1>7 DEF GoOn, InProgress
  <2>2. clicks[c].kind = "reset" /\ ~clicks[c].disturbed => cookies.workspaceId = 0
    BY <2>1 DEF ResetProgress
  <2>3. QED
    BY <1>0, <2>1, <2>2, SendPostTyped, ClickMoves
<1>8. ASSUME NEW c \in Click, AnswerPost(c) PROVE SessionInv'
  <2> DEFINE record == [clicks[c] EXCEPT !.stage = "done", !.answer = WorkspaceOf(c)]
  <2>1. WorkspaceOf(c) \in Nat
    BY <1>0 DEF WorkspaceOf, ClickState
  <2>2. cookies'.workspaceId = WorkspaceOf(c)
    BY <1>8 DEF AnswerPost, Session
  <2>3. /\ SetClick(c, record) /\ InProgress(c) /\ clicks[c].stage = "posting"
        /\ made' = IF WorkspaceOf(c) > made THEN WorkspaceOf(c) ELSE made
    BY <1>8 DEF AnswerPost, InProgress
  <2>4. made' \in Nat /\ made' >= made
    BY <2>1, <2>3
  <2>5. /\ record \in ClickState /\ record.kind = clicks[c].kind
        /\ record.madeBefore = clicks[c].madeBefore /\ record.stage = "done"
        /\ record.disturbed = clicks[c].disturbed /\ record.answer = WorkspaceOf(c)
    BY <1>0, <2>1 DEF ClickState, Stage
  <2>6. clicks[c].kind = "reset" /\ ~clicks[c].disturbed =>
          WorkspaceOf(c) > clicks[c].madeBefore
    BY <1>0, <2>3 DEF ResetProgress, WorkspaceOf
  <2> HIDE DEF record
  <2>7. record.madeBefore <= made'
    BY <1>0, <2>4, <2>5
  <2>8. QED
    BY <1>0, <2>1, <2>2, <2>3, <2>4, <2>5, <2>6, <2>7, ClickMoves
<1>9. ASSUME NEW c \in Click, FailRequest(c) PROVE SessionInv'
  <2> DEFINE record == [clicks[c] EXCEPT !.stage = "failed"]
  <2>1. /\ SetClick(c, record) /\ made' = made /\ cookies' = cookies /\ InProgress(c)
    BY <1>9 DEF FailRequest, InProgress
  <2>2. /\ record \in ClickState /\ record.stage = "failed"
        /\ record.madeBefore = clicks[c].madeBefore
        /\ record.disturbed = clicks[c].disturbed
    BY <1>0 DEF ClickState, Stage
  <2> HIDE DEF record
  <2>3. QED
    BY <1>0, <2>1, <2>2, ClickMoves
<1>10. CASE UNCHANGED <<made, cookies, clicks>>
  BY <1>10 DEF ResetProgress, InProgress, OthersInProgress
<1>11. QED
  BY <1>1, <1>2, <1>3, <1>5, <1>6, <1>7, <1>8, <1>9, <1>10 DEF WebNext, webVars, ActAs

(* A reset that nothing interferes with starts in a workspace of its own,  *)
(* however many clicks and failing requests there are (api.ts:330).        *)
THEOREM UndisturbedResetsAreFresh == WebSpec => []UndisturbedResetIsFresh
<1>1. WebInit => SessionInv
  <2> SUFFICES ASSUME WebInit PROVE SessionInv
    OBVIOUS
  <2>1. made = 0 /\ cookies.workspaceId = 0 /\ clicks = [c \in Click |-> Idle]
    BY DEF WebInit, NoCookies
  <2>2. Idle.madeBefore = 0
    BY DEF Idle
  <2>3. QED
    BY <2>1, <2>2, IdleTyped DEF SessionInv, ResetProgress, InProgress
<1>2. SessionInv => UndisturbedResetIsFresh
  BY DEF SessionInv, ResetProgress, UndisturbedResetIsFresh
<1>3. QED
  BY <1>1, <1>2, StepKeepsSession, PTL DEF WebSpec

=============================================================================
