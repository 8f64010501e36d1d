--------------------------- MODULE WorkerCatalog ---------------------------
(***************************************************************************)
(* A worker builds the catalog it advertises (its transports and its model *)
(* providers, in configuration order) and the API judges it against one    *)
(* task's execution requirements.  The same providers, in the same order,  *)
(* are the adapters the worker selects from when it executes the task      *)
(* (createExecutorFromConfig and createWorkerIdentity read one config).    *)
(***************************************************************************)
EXTENDS ExecutionCompatibility

CONSTANTS
  Transport,      \* transport kinds
  Descriptor,     \* provider descriptors a catalog may list
  Policy,         \* execution requirements of tasks
  MaxProviders    \* bound: length of the catalog

ASSUME CatalogAssumption ==
  /\ "http-poller" \in Transport
  /\ MaxProviders \in Nat
  /\ Undefined \notin [transports : SUBSET Transport, providers : Seq(Descriptor)]
  /\ \A d \in Descriptor : d.provider # Undefined /\ d.model # Undefined

VARIABLES requirements, offer

vars == <<requirements, offer>>

TypeOK ==
  /\ requirements \in Policy \cup {Undefined}
  /\ \/ offer = Undefined
     \/ /\ offer \in [transports : SUBSET Transport, providers : Seq(Descriptor)]
        /\ Len(offer.providers) <= MaxProviders

Init ==
  /\ requirements \in Policy \cup {Undefined}
  /\ offer = Undefined

(* A poll without transports and catalog: the route's own defaults. *)
AdvertiseNothing ==
  /\ offer = Undefined
  /\ offer' = [transports |-> {"http-poller"}, providers |-> <<>>]
  /\ UNCHANGED requirements

AdvertiseTransport(t) ==
  /\ offer # Undefined
  /\ offer' = [offer EXCEPT !.transports = @ \cup {t}]
  /\ UNCHANGED requirements

AdvertiseProvider(d) ==
  /\ offer # Undefined
  /\ Len(offer.providers) < MaxProviders
  /\ offer' = [offer EXCEPT !.providers = Append(@, d)]
  /\ UNCHANGED requirements

Next ==
  \/ AdvertiseNothing
  \/ \E t \in Transport : AdvertiseTransport(t)
  \/ \E d \in Descriptor : AdvertiseProvider(d)

Spec == Init /\ [][Next]_vars

-----------------------------------------------------------------------------
verdict == EvaluateWorkerExecutionCompatibility(requirements, offer)

NeedsModel == requirements # Undefined /\ requirements.llm # Undefined

(* The chain of early returns and the two-stage preference accept exactly  *)
(* the serviceable offers: no preference ever turns a worker away that has *)
(* an allowed and able provider, or lets one in that has none              *)
(* (execution.ts:73-167).                                                  *)
CompatibleIffServiceable ==
  verdict.compatible <=> Serviceable(requirements, offer)

(* An assignment the API hands out can be executed: when it judged the     *)
(* catalog compatible, the worker's registry finds an adapter that passes  *)
(* the allowlists and has the capabilities (model-adapters.ts:30-52), so   *)
(* defaultExecutionOutcome never runs a model task without a model.        *)
CompatibleWorkerFindsAdapter ==
  verdict.compatible /\ NeedsModel =>
    SelectAdapter(requirements.llm, offer.providers)
      \in Capable(requirements.llm, offer.providers)

(* What the employer prefers is what runs, for every assignment the API    *)
(* hands out: the worker runs a model of the preferred provider whenever   *)
(* one of its providers that may serve the task is of it - also where the  *)
(* API, which tests only the first candidate of that provider, matched     *)
(* another - and else one of the preferred model whenever it has one.  A   *)
(* match of the provider overrides the preferred model (model-adapters.ts: *)
(* 30-45).                                                                 *)
WorkerHonoursPreference ==
  verdict.compatible /\ NeedsModel =>
    LET llm    == requirements.llm
        able   == {offer.providers[i] : i \in Capable(llm, offer.providers)}
        chosen == offer.providers[SelectAdapter(llm, offer.providers)]
    IN  IF \E d \in able : d.provider = llm.preferredProvider
        THEN chosen.provider = llm.preferredProvider
        ELSE (\E d \in able : d.model = llm.preferredModel)
               => chosen.model = llm.preferredModel

(* The reason a worker is given names the first obstacle: each reason is   *)
(* returned only when every earlier condition is met, and a model mismatch *)
(* is never reported to a worker none of whose providers is allowed.       *)
ReasonNamesFirstObstacle ==
  /\ verdict.reason \in {"provider-mismatch", "model-mismatch", "capability-mismatch"} =>
       NeedsModel /\ requirements.transport \in offer.transports
  /\ verdict.reason = "provider-mismatch" =>
       \A i \in DOMAIN offer.providers :
         offer.providers[i].provider \notin requirements.llm.providerAllowlist
  /\ verdict.reason = "model-mismatch" =>
       \E i \in DOMAIN offer.providers :
         /\ Admits(requirements.llm.providerAllowlist, offer.providers[i].provider)
         /\ offer.providers[i].model \notin requirements.llm.modelAllowlist
  /\ verdict.reason = "capability-mismatch" =>
       \A i \in Candidates(requirements.llm, offer.providers) :
         ~(requirements.llm.requiredCapabilities \subseteq offer.providers[i].capabilities)

(* Advertising more never loses a task: a worker that was compatible stays *)
(* compatible when it adds a transport or a provider, whatever the order   *)
(* in which the providers stand.                                           *)
AdvertisingMoreNeverHurts ==
  [][verdict.compatible => verdict'.compatible]_vars

=============================================================================
