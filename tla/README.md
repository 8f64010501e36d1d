# NightShift: formal models

TLA+ models of OpenShell NightShift, a marketplace where employers post tasks,
workers bid with sealed commitments, one bid is selected, the worker delivers a
receipt and the employer settles or disputes. The models are translated from
the source; TLC checks them on small instances and TLAPS proves the properties
that matter most for every instance.

    tlc -config StoreTwoTasks.cfg MCTaskViews           # any run of PROJECT.json
    tlapm NightShiftStoreProofs.tla                     # any module *Proofs

## The system

| part | state it keeps | operations | talks to |
|---|---|---|---|
| Marketplace store, `apps/api/src/store.ts` | five Maps: tasks, bids, assignments, receipts, disputes | create task / bid / assignment, acknowledge, record submission, accept, dispute, reveal, poll | called by the routes, one synchronous method per request |
| Workspace cache, same file | id -> (store, last touch) | get (expire, evict, create) | one store per workspace; the hook of the server picks it per request |
| Routes and authentication, `apps/api/src/routes`, `auth.ts` | credentials by token (fixed at start) | one handler per endpoint | store, Compact projection |
| Server, `apps/api/src/server.ts` | rate-limit windows per bucket and address | two `onRequest` hooks, error mapping | all routes |
| Compact projection, `apps/api/src/compact.ts` | none (derived) | build the on-chain view of a task | names phases of the contract |
| Execution compatibility, `packages/common/src/execution.ts`, `packages/worker/src/model-adapters.ts` | none (pure) | judge an offer; select an adapter | store (bid, selection, poll); worker (execution) |
| Escrow contract, `contracts/compact` | a public ledger of eight fields | six circuits; a Python simulation | nothing calls it yet; the projection mirrors it |
| Worker runtime, `packages/worker/src` | none between polls | poll, acknowledge, execute, submit | API over HTTP |
| Web application, `apps/web` | session cookies, page snapshots, tokens in local storage | proxy, session, forms | API over HTTP with timeouts |
| Scripts, `scripts` | child processes | start, watch and stop a local demo; smoke test | everything |

Where it is hard. The store is in memory and every method is synchronous, so
there is no race inside a method; but requests of several parties interleave
between methods, are prepared against an older view, are repeated after lost
answers, and the four status fields of one piece of work live in different
Maps written by different methods, some without reading the old value
(`recordWorkerSubmission` overwrites the task's status). The compatibility of a
worker is decided by three chains of early returns in two packages. The
workspace a request writes to can be evicted while its body arrives. Who a
request acts for is put together from a page, the token it kept and the
session's cookies. The pages enable their buttons from a snapshot and give up
requests that may still be handled. The worker holds nothing durable: every
recovery goes through the next poll. `hazards` in PROJECT.json lists these with
their lines and the properties that guard them.

What makes each part correct:

- store: references resolve; a task is handed out once; task, bid, assignment
  and receipt tell one story; a delivery has one receipt, which its commitment
  opens to; disputes freeze settlement; settlement closes the book; every task
  takes only the steps of the escrow contract;
- views: the published projection is the ledger the contract would have; the
  parties of a case read all of it and others nothing;
- compatibility: the verdict means what it says, for every order of the
  catalog, and the worker's own selection agrees with it;
- contract: whatever its circuits are called with, the ledger fits the phase and
  nothing is paid out on a key nobody holds; no step is skipped, the terms are
  fixed while a task lives, of a settlement and a dispute the first is final; the
  Python machine takes only its steps;
- routes: a task moves only at the hand of whom it concerns;
- workspaces: what is written in one is never seen in another; a request's
  store stays its workspace's while it is used; a workspace is given up only
  when it was idle for long, or the least recently used when there is no room;
- rate limiter: windows that meet do not double the quota, and the header that
  says when to return keeps its word;
- worker: its processes deliver nothing twice or unacknowledged however often
  work is repeated; requests are refused only for work already delivered; what a worker
  can serve is delivered in the end;
- web: no request acts for somebody else than its page named; a reset that
  nothing disturbs is fresh; what a page announces is on record; a click
  that a handler refuses was overtaken, or came to a store without the task;
- smoke test: it passes on a board that others use meanwhile.

## The modules

    TaskEscrow <--implements-- EscrowSimulation
        ^ implements
    NightShiftStore <--steps of it-- NightShiftApi <-- SmokeTest, TaskPage
        ^ steps of it                  |                 (processes over it)
    WorkerRuntime                    BetaAuth <-- WebSession
    TaskViews (reads the store)
    NightShiftServer = RateLimiter + Workspaces + requests in flight
    WorkerCatalog -> ExecutionCompatibility (used by NightShiftStore)

### Compatibility and contract

`ExecutionCompatibility` (constant operators) translates
`evaluateWorkerExecutionCompatibility` with all its early returns, the two-stage
preference, and `ModelAdapterRegistry.select`. Allowlists, capabilities and
transports are sets, since the code only asks for emptiness and membership; the
providers stay a sequence since `Array.find` takes the first match.
`Serviceable` is the reference definition.

`WorkerCatalog` lets a worker's advertisement grow by a transport or by a
provider at a time and judges it against one task's policy, by the API's
operator and by the worker's. `AdvertiseNothing` is the poll route's default.

`TaskEscrow` is the contract, one action per circuit. A secret key is its
holder; `deriveOwnerKey` and `deriveWorkerKey` are free constructors with
different tags, as the code hashes under different domains. The other arguments
are bytes that no circuit looks at: a key may be an owner's, a worker's or the
word for none, a digest may be the word for none, too (`AnyKey`, `AnyBid`, ...).
With such a key the selection can only be disputed; that it is never delivered
or settled is part of `SelectionFitsPhase`.

`EscrowSimulation` is `simulate_state_machine.py`, the Python machine that the
repository's checks run in the contract's place, one action per method; the
action's assignments stand where the method has them. `ImplementsContract` maps
it onto `TaskEscrow`: a plain key stands for its holder, in either role.

### The store and what is shown of it

`SeedData` holds the records of `seedInitialData`, as they are written there: an
assignment is not computed from its bid and its task but transcribed with all its
fields, so that `store_seeded` compares what was written by hand.

`NightShiftStore` is the store. A Map is a function on the set of its keys, a
fresh `randomUUID()` is an unused member of a pool, a method that throws is a
disabled action, and each state-changing method is one action with all its
writes. The guards have names (`Selectable`, `Submittable`, `Settleable`,
`Disputable`, ...) and stand in the order of the code. Digests are free
constructors: `ReceiptVerifies` demands that the result hash is the digest of
the delivered result and the commitment the digest of the receipt as it was
sent, its status included; the record kept beside the commitment has the status
"submitted" whatever was sent. `SentStatus` bounds the status words a client may
send. The action log and the artifacts, hashed the same way, are left out. Timestamps, texts, prices
and references are left out: no guard reads them (deadlines are stored and never
enforced). Tasks and assignments are never cancelled and disputes never
resolved or dismissed by any code, so no action does it, although the types
name those states.

| action | code |
|---|---|
| `CreateTask`, `CreateBid`, `CreateAssignment` | `createTask`, `createBid`, `createAssignment` |
| `AcknowledgeAssignment`, `RecordWorkerSubmission` | `acknowledgeAssignment`, `recordWorkerSubmission` |
| `AcceptAssignment` | `acceptAssignment` |
| `CreateDispute`, `SubmitReveal` | `createDispute`, `submitReveal` |

At its end the store is mapped onto the contract: `Escrow(t)` is an instance of
`TaskEscrow` whose phase is the task's status, whose keys come from the
addresses and whose commitments come from the task, its assignment and its
receipt. `ImplementsEscrow` says that every task takes only contract steps.

`TaskViews` is what the API computes from the store on a read: the compact
projection (`compact.ts`, and `getTaskRelatedRecords` of `routes/tasks.ts`, which
picks the selected bid, the receipt and the dispute) and the redaction of
`GET /v1/tasks/:taskId` with its four filters. A list sorted by age is a set,
and its newest member any of them.

### The routes

`BetaAuth` translates `auth.ts`: the configuration built from the environment
(credentials that lack a part are dropped, of two with one token the later
counts, an empty list means the default credentials) and the actor read from a
request's headers. The actor a handler works for comes in a set that is empty
when the handler refuses.

`NightShiftApi` has one action per route that changes the store, with the
checks of the handler in their order around the store's action. The history
variable `lastActor` remembers for whom the last change was made.

| action | code |
|---|---|
| `PostTask`, `PostBid`, `PostAssignment`, `PostAccept` | `routes/tasks.ts` |
| `PostAck`, `PostSubmit` | `routes/assignments.ts` |
| `PostDispute`, `PostReveal` | `routes/disputes.ts` |

`Route(headers)` is any of them with these headers. `ApiSpec` has the headers of
the configuration's `Headers`; the script, its strangers and the pages send
others.

`SmokeTest` is `scripts/smoke-api.mjs`: thirteen steps, a request or an
assertion over a GET each, against the default workspace, which others use at
the same time (`StrangerStep` is any request of the API with other
identifiers). Each assertion is a named condition (`TasksListed`,
`UnderDispute`, ...); one that fails disables its step, so that the script
stands still: `ScriptNeverFails` says that it does not (safety) and
`SmokeTestPasses` that it comes to its end (liveness).

### The server

`Workspaces` is the cache of stores. Stores are numbered in the order they are
made, which is the order in which the Map iterates: `Oldest` breaks ties by it,
as the scan does. `CreateWorkspace` is the whole of `getWorkspace` for an
identifier without a store: cleanup, eviction, creation, touch.

`RateLimiter` is the first hook: `OpenWindow`, `CountInWindow` and `Refuse`,
with `ResolveRateLimitBucket` and the `retry-after` header. `admitted` and
`promised` are history variables.

`NightShiftServer` composes the two with requests in flight. The hooks of a
request run when its headers arrive (`Arrive`, `ArriveLimited`), its handler
after the body (`Handle`), with anything in between; it works on the store the
hook picked. What a handler writes is the matter of `NightShiftStore`, so a
store is known here by the requests that wrote to it.

### The worker

`WorkerRuntime` puts worker processes over the store. A process is a record: the
await it stands at (`step`), what is left of its polled batch, the assignment it
is at, the submission it sends and the receipts its run would report.
The API handles a request in one synchronous step, so a request and its answer
are one action (`Acknowledged`, `Submitted`), which makes the same step of the
store as `NightShiftStore`, behind the guards of the route and of the schema
(`AckAccepted`, `SubmissionAccepted`). Losing an answer is that step followed by
`Failed`; a request that the process gives up may also become `stray` and be
handled by the API at any later time (`StrayArrives`), also after newer requests
of the restarted process. All of the employers' and bidders' requests are
`Clients`.

| action | code |
|---|---|
| `Poll` | `runWorkerOnce` up to the answer, `GET /assignments/poll`, `buildPollResponse` |
| `Acknowledged` | `await client.acknowledgeAssignment`, `POST .../ack` |
| `Executed` | `runSingleAssignment`: executor, `createReceipt`, `commitReceipt`, `buildAssignmentSubmission` |
| `Submitted` | `await client.submitAssignmentResult`, `POST .../submit`, `results.push` |
| `Refused` | `handleResponse` throws for an answer that is not ok |
| `Failed` | model server or connection fails, or the process is restarted; the exception leaves the loop over the batch |

`listing` is the order in which the store lists assignments: newest first, but
within one millisecond (`tied`) a stable sort leaves the older one first. A batch
is a set of identifiers worked off in that order (`Reached`); positions never
change relative to each other. Receipts copy fields of the polled assignment
that no method writes, so the model reads them where they are.

### The web application

`WebSession` is one browser: the session cookies, which all its tabs share, the
tokens it keeps, and clicks on the session buttons, each a sequence of requests
that carry the cookies of the moment they are sent.

| action | code |
|---|---|
| `StartSession`, `ActivateSession`, `ResetWorkspace` | `activateLocalBetaSession`, `activateBetaActorSession`, `resetBetaWorkspace` (`lib/api.ts`), up to the first request |
| `AnswerDelete`, `DeleteIgnored` | `DELETE` of `app/api/beta/session/route.ts`; an error that nobody looks at |
| `GoOn`, `AnswerPost` | the `POST` after it, and its handler |
| `FailRequest` | the request or its answer is lost |
| `ActAs` | a page's request through the proxy `app/api/nightshift/[...path]/route.ts`, judged by `BetaAuth` |

`TaskPage` is the page of a task, in front of `NightShiftApi`. A page is the
snapshot of its last `Load`; a click (`HandleBidSubmit`, `HandleSelectBid`,
`HandleReceiptSubmit`, `HandleSettle`, `HandleOpenDispute`,
`HandleRevealSubmit`, enabled as the buttons are) sends a request with the
names the page fills in and the token of whatever session the browser has at
that moment. The request is performed or refused by the API at some time
(`Perform`, `Refuse`), or turned away before its
handler runs (`TurnAway`: the limiter's 429, the form's validation), answered
later (`Answer`), given up after the timeout
(`Abort`), in which case it may still be performed, or lost (`Lose`). Nothing
in the page waits for one click before the next. What the API would refuse at
the moment (`Accepted`) is put together from the guards of route and store.

A definition marked as a *slip* is not part of any model. It is a plausible bug
in the definition after it; `mutants` in PROJECT.json pairs each with the
property that notices it.

## The runs

| run | instance | what it shows |
|---|---|---|
| `worker_catalog` | catalogs of up to 3 descriptors in every order, every combination of lists and preferences of `MCPolicy` | verdict = serviceability; the worker finds an adapter and honours preferences; reasons are right |
| `task_escrow` | 2 key holders and the word for none, 2 tasks, 2 bids, 2 receipts, each or the word for none, up to 7 calls; the contract and the Python machine | the contract's invariants and step properties; the machine implements the contract |
| `store_two_tasks` | 2 tasks, 3 bids, 2 assignments, receipts, disputes, 3 parties | all relations between the Maps; settlement is final; the projection is the ledger; who sees what |
| `store_one_task` | the script's task and one of others, a good offer and a weak one, 3 people, 4 configurations of the server, mixed-up credentials | behind the routes every task takes the contract's steps; commitments; who may move a task; the script passes |
| `store_seeded` | the seeded records and one new assignment | the hand-written records satisfy what the handlers maintain |
| `runtime_safety` | 2 processes of one worker, one with the catalog of its bid and one with a weaker one, 2 tasks, 2 assignments, batches of 2, 4 receipts, 1 stray request | no request of a worker is refused but for work already delivered; a batch holds only what the catalog can run; reports are true |
| `runtime_backlog` | 1 process with the weaker catalog, 1 assignment per poll, tasks with and without a policy, 4 receipts | an assignment it serves is delivered although a newer one it cannot serve stays in the list |
| `runtime_recovery` | 1 process, results within and beyond the budget, 1 dispute, 4 receipts | every assignment is delivered after any finite or infinite number of failures |
| `server` | 6 requests of one address to 4 workspaces with room for 3, a time to live of 3, windows of 2, 2 requests per window | isolation, in-flight stores, what may be dropped, bursts, `retry-after` |
| `web_session` | 3 overlapping clicks, 3 credentials entered by hand, 2 configurations of the API | no request acts for another; undisturbed resets are fresh |
| `task_page` | 1 page, 2 requests under way, 2 bids, both sessions or none, in the task's workspace, which may be dropped, or in the default one | announcements are true; what a handler refuses was overtaken, unfit, somebody else's or went elsewhere; no click counts twice |
| `store_reveal` | an unseeded board with one task | *violation*: a reveal does not unfreeze settlement, which `apps/api/README.md:42` says it does |

Why the bounds are enough to be interesting. Two tasks are needed for crossed
references and three bids for two bids racing on one task while the other has
one; three people for two parties and an outsider, who may also be a losing
bidder; two assignments per pool suffice since a task takes one; two receipts
and two disputes per pool allow a duplicate of each, which the guards must
refuse. Three providers make a preferred provider occur twice with a capable
third, where the two selection algorithms disagree. Seven calls of the contract
cover a cancelled task created again and brought to its end. Party, commitment
and identifier sets are symmetric where a run says so: no definition orders
them, and the runs with symmetry check only safety. The store may run out of
identifiers, the contract may end and the server's requests are used up, so
deadlock is not checked there; the other runs check it, as an idle worker can
always poll and a page can always be loaded.

Two tasks and two assignments let one assignment stand in the way of another;
four receipts leave two for repeated executions beside the two deliveries, and
an abandoned receipt is free again, so failures may repeat for ever; one stray
request can be overtaken by every step of a later run.

In `server` a clock that ends at 3 (`MaxClock`) has a window that ends and one
that follows at once, a workspace that expires while its request is in flight,
and a retry that comes exactly when it was told to; one private workspace more
than there is room for forces evictions; the second of the header is two clock
units, so that rounding matters. In `web_session` three clicks are a reset, one
that comes between its two requests, and one whose session it began with. In
`task_page` two requests let every request be overtaken by another one; with
the bids bounded by the pool of identifiers (`bidClicks`), the settled task is
the end of what a page can do. Bids and requests under way are symmetric there.

Fairness. Of the workers (`Fairness` of `WorkerRuntime`): the endless loop of
`index.ts` (`WORKER_LOOP=1`) catches every exception and polls again after a
pause, and `handleResponse` always throws for a refusal: weak fairness of `Poll`
and `Refused`. That a request is answered, and that an execution returns a result
within the budget, is an assumption on the network, the API and the model
server; since `Failed` keeps disabling these steps it is strong fairness, per
process and not per assignment. Clients, stray requests and failures have none.
With more than one assignment per worker the assumption on executions is
not innocent: the list is newest first and a failure abandons the batch, so an
assignment whose execution always fails hides all older ones. `Executed` may
succeed for any assignment, which excludes that case; `hazards` records it. A
run with `WORKER_AUTO_RUN` or `WORKER_LOOP_ITERATIONS` ends at its first failure:
it has the safety properties and not the liveness one. Of the smoke test: weak
fairness of its own next step, since the script awaits one answer after the
other and the API answers every request; the others on the board have none.

## The proofs

TLAPS proves, for every set of identifiers, parties, policies, offers,
contents, credentials and configurations, with and without the seeded records:

- `ExecutionCompatibilityProofs`: the verdict is serviceability and the
  registry's choice is capable, for every catalog whose positions are positive
  integers. The only fact about data it needs is that a non-empty set of
  naturals has a least element (`FirstIsAMember`, from the well-foundedness of
  the naturals), so `Array.find` is never unspecified.
- `WorkerCatalogProofs`: the same for every reachable catalog; that a refusal
  names the first obstacle; that preferences are honoured: a provider that may
  serve the task and is the preferred one is chosen whenever there is one, also
  where the API's own pick was another, and else one of the preferred model (a
  match of the provider overrides the model, `model-adapters.ts:30-45`); and that
  a longer catalog never loses a task.
- `TaskEscrowProofs`: the contract's properties for arguments that no circuit
  checks, and `SimulationImplementsContract`. That a settled task's key is a
  worker's is not a fact about the argument of `selectBid` but about
  `submitReceipt`, which only the holder of the key can call.
- `NightShiftStoreProofs`: the inductive invariant `IInv` is `TypeOK` and six
  relations. None is inductive alone. The central step is
  `SubmissionComesFromAssigned`: `recordWorkerSubmission` reads only the
  assignment's status, and it needs `LifecyclesAgree` to know that the task is
  "assigned", `DeliveryHasOneReceipt` to know that there is no receipt, and
  `DisputeFreezesSettlement` to know that there is no dispute.

  Two more facts are about all of the store's life. `TermsNeverChange`: of a
  record only its status moves, and of a dispute its reveal. `LivesNeverTurnBack`:
  a task goes from open over assigned and submitted to settled or disputed and
  never back, although a submission writes the task's status unread and
  `acceptAssignment` lets a disputed task pass its last check. The first is what
  `BidsServe` rests on, that every bid on record serves its task, and with
  `IInv` that gives `AssignedWorkersCanServe`.

  `StoreImplementsEscrow` has one lemma per method: it takes the matching circuit
  on its own task and leaves the view of every other task unchanged
  (`ViewUnchanged`). From `IInv` also what is shown: `ProjectionIsTheLedger` and
  `CasesAreForTheirParties`.
- `NightShiftApiProofs` argues once about `RequestsSpec`, requests to any route
  with any headers whatever. They take only steps of the store (a lemma: each
  handler calls one method), and so every task only those of the contract; they
  name only holders of credentials; and a task moves only by the
  hand of a party, whose core is that the actor a route gets is the holder of
  the token it was sent with (`ActorIsBound`). The configured clients
  (`RoutesImplementEscrow`, `OnlyHoldersAreNamed`, `PartiesAloneMoveTasks`), the script with its strangers
  (`ScriptIsOneOfTheClients`) and the pages (`PagesAreClients`, in the next
  module) behave as `RequestsSpec` does, so the three facts hold of each.

  `ScriptIsNeverStopped`: no assertion of the smoke test fails and none of its
  requests is refused, in whatever state the strangers have left the board, if
  the server knows its two people and nobody else acts for them (`ForSmokeTest`).
  `ScriptAt` says what is on record when the script is at a step, and `ScriptInv`
  adds the store's invariant; that others keep off the script's task
  is `StrangersKeepOff`, since the next move of it is always a party's and no
  stranger has the parties' tokens. Of `SmokeTestPasses` only the fairness
  argument is then left to TLC.

  `PagesActForThemselves` is `ActorIsBound` for the headers that the proxy puts
  together, and `UndisturbedResetsAreFresh` needs the invariant `SessionInv`:
  while a reset is undisturbed and its DELETE was answered, the workspace cookie
  is absent, and the one its POST carries as well.
- `TaskPageProofs`: `AnnouncementsAreTrue` needs that what a click records stays
  recorded (`RecordedStays`: settled is final, a revealed dispute stays revealed)
  and that every request under way is a whole request whose success is on record
  (`PageInv`). `ClicksCountOnce` needs more than it says, that bids and bid
  requests not yet handled together are no more than the clicks (`CountInv`).
  `RefusalsAreExcused` is the page's own promise, that the buttons' conditions
  are the API's: a snapshot is a state the task was in (`IsSnapshot`, where the
  task's status only goes forward), a click carries what such a snapshot allowed
  (`IsClick`), and if its request finds the task, which has not moved since, the
  API's guards hold for it (`Excused`, kept by every later step in `RefusalInv`:
  a dropped workspace never comes back, nor does a status). Requests that are
  turned away before a handler sees them (`IsTurnedAway`) are not refusals.
- `NightShiftServerProofs`: for the rate limiter the inductive `LimiterInv`
  keeps the account of a window (the entry counts what was let through since it
  opened) and the promise made to a refused client; `BurstsStayBounded` follows
  from it by counting the two windows a stretch can meet. For the workspaces it
  is where stores live: each is in one place at most and is its workspace's own
  (`WorkspacesStayIsolated`), and a request's workspace is either kept or was
  pushed out by enough others used since (`InFlightStoreStaysCurrent`);
  `WorkspacesAreDroppedForAReason` says of every step which workspaces it may
  give up, and that a live one goes only where `MAX_WORKSPACES` are in use.
- `WorkerRuntimeProofs`: `RuntimeImplementsStore` first: every step of the
  composition is a step of the store or leaves it alone, so all of the theorems
  about the store hold with retries, restarts and late requests
  (`DeliveredOnceUnderRetries` is one of them, `RuntimeImplementsEscrow` another). The inductive invariant `RInv`
  adds what every request under way carries: its assignment exists and is its
  sender's, its receipt copies the assignment's identifiers and its digests
  verify, a submission's assignment is not queued any more, and receipt
  identifiers are unused and pairwise different. From it follow
  `RefusalsAreDeliveries`, `ReportsAreTrue` and `AcknowledgedBeforeDelivery`;
  `ModelsAreCapable` adds `SelectAdapterIsCapable` of the compatibility proofs.
  `RuntimeTypeCorrect` needs facts about `SubSeq` for the list.

Assumptions, each evaluated by TLC on its runs:

| assumption | what it says | why |
|---|---|---|
| `SeedAssumption` | the seeded records lie in the pools | they are there from the start |
| `OfferAssumption` | an offer lists its providers at positive positions and is not the missing offer | it is an array, or undefined |
| `EscrowAssumption` | the bound on the calls is positive | a bound of the model |
| `SimulationAssumption` | so is the machine's; no caller's key is a word for none | nobody derives it |
| `ReceiptAssumption` | the status words sent are ones of the type | the schema |
| `CatalogAssumption` | descriptors are well-formed | the schema |
| `RuntimeAssumption`, `SubmissionAssumption` | a process has a worker identifier and a catalog, a batch at most ten; a submission is not the missing one, its receipt says "generated" | the poll's schema; an object; `executor.ts` |
| `ViewsAssumption` | a commitment is not the word for no bid, an address is not empty | a digest; the schemas |
| `EnteredAssumption` | who is entered by hand has a name and is an employer or a worker | the schemas; the form |
| `PageAssumption` | the task is not a seeded one, its workspace and the default one are workspaces, the requests under way are finitely many, the wallet's address is a party, no assignment has the name for none, the page's receipts say "generated" | it is made by the create form; a browser; a UUID; `task-detail-actions.tsx` |
| `SmokeAssumption` | the script's identifiers are new; its people, its execution, its offer and its receipt's status "submitted" lie in the pools | random UUIDs; the script sends them |
| `RateLimiterAssumption`, `WorkspacesAssumption`, `RequestAssumption` | limits, windows and lives are positive, there is room for two workspaces, requests carry what HTTP requests carry | constants of `server.ts` and `store.ts` |

Proved and no run of its own: `ReferencesCorrect`, `AdvertisingIsMonotone`,
`WindowsKeepQuota`, `WorkspacesStayBounded`, `TermsNeverChange`, `BidsServe`,
`LivesNeverTurnBack`, `ScriptIsNeverStopped` and the type invariants of the
worker and the server.

Only model-checked: `ServedIsDelivered` and `SmokeTestPasses`, which are liveness
under fairness. Liveness, ENABLED and induction over data are out of TLAPS'
reach. (`RevealUnfreezesSettlement` is what a document says and the code does
not do.)

## What was seen in the code

Disputes: `store_reveal` shows that a revealed dispute keeps settlement frozen;
nothing in the code ever resolves or dismisses one (`findings`).

Four more places that a reader should know, for which no run is kept:

- The commitment of a receipt covers its status (`store.ts:334`). The worker and
  the page hash "generated" (`executor.ts:124`), the store keeps "submitted"
  beside the commitment (`store.ts:348`): the stored record does not open its
  commitment as it stands, only with the status that was sent, which is not kept.
  `CommitmentOpensReceipt` therefore asks for some status of `SentStatus`.
- A reset whose DELETE fails, or that another click comes between, keeps the old
  workspace and still reports a fresh one (`task-detail-actions.tsx:276`,
  against `docs/BETA_WALKTHROUGH.md:28`); `UndisturbedResetIsFresh` is therefore
  about undisturbed resets.
- The public projection names a `selectiveRevealBundle` once a dispute was
  revealed, where `security_best_practices_report.md:59` says that reveal
  metadata is redacted.
- `nextTransition` of the projection (`compact.ts:88`) names `settle`,
  `openDispute`, `submitReveal` and `resolveDispute`; the contract's circuits are
  `acceptReceiptAndSettle` and `raiseDispute`, and it has no way out of a dispute.

## Not modelled

- Request schemas, and how the JSON budget walks a value: declarative shapes and
  a recursion over data, without state. The record types of the store are what
  passes them; that a result beyond the budget is refused is in `WorkerRuntime`.
- What a worker's request is refused for beside the store's and the route's own
  guards: the limiter's 429, a token that is not the worker's, texts the schema
  trims before the digests are recomputed. `RefusedOnlyIfDelivered` is about a
  worker with its own credentials whose texts have no outer spaces. Nor are pages
  among the clients of `WorkerRuntime`: a page may deliver an assignment that
  nobody acknowledged (`task-detail-actions.tsx:487`), so that
  `DeliveredAfterAcknowledgement` is a promise of the worker processes.
- CORS, and how exceptions become status codes: no state. An error reply is a
  step that does not happen.
- The dashboard's counts and the list endpoints, which filter every record like
  `TaskViews` does and are read by nothing that acts.
- SHA-256 and key sorting: digests are free constructors, which is the idealised
  hash.
- Worker configuration and calls to model servers: the environment's parsing is
  string handling, and a call's outcome is the choice between `Executed` and
  `Failed`.
- In the web application: rendering, styles, built-in demo data, the listings,
  the wallet adapter, and the fields of the create form (its request is in
  `TaskPage`).
- The scripts that start, watch and stop a local demo: they act on the
  operating system's processes. The end of the smoke test (an oversized
  submission and two workspaces) is covered by `WorkerRuntime` and
  `NightShiftServer` instead.
- Type declarations and pure reshaping of records in the shared packages;
  deployment files.

What could follow: the store's handlers put into the server's requests in flight
in place of the marks they leave.
