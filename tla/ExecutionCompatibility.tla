----------------------- MODULE ExecutionCompatibility -----------------------
(***************************************************************************)
(* How a task's execution requirements meet a worker's execution offer:    *)
(* evaluateWorkerExecutionCompatibility of packages/common/src/execution.ts*)
(* as the API evaluates it (at bid, at assignment and at poll time), and   *)
(* ModelAdapterRegistry.select of packages/worker/src/model-adapters.ts as *)
(* the worker evaluates it when it runs the assignment.                    *)
(*                                                                         *)
(* Constant-level operators only; NightShiftStore and WorkerCatalog extend *)
(* this module.  A definition marked as a slip is not part of the model: it*)
(* is the definition after it with one plausible bug, and shows that the   *)
(* properties notice it.                                                   *)
(*                                                                         *)
(*   requirements : Undefined, or a record [transport, llm]                *)
(*   llm          : Undefined, or a record [providerAllowlist,             *)
(*                  modelAllowlist, requiredCapabilities,                  *)
(*                  preferredProvider, preferredModel]                     *)
(*   offer        : Undefined, or a record [transports, providers] whose   *)
(*                  providers are a sequence of descriptors                *)
(*                  [provider, model, capabilities]                        *)
(*                                                                         *)
(* The two allowlists, the capabilities and the transports are sets: the   *)
(* code only asks whether they are empty and what they include.  providers *)
(* stays a sequence, because Array.find returns the first match.  An       *)
(* absent list is the empty one (the code's `?? []`).                      *)
(***************************************************************************)
EXTENDS Integers, Sequences

CONSTANT Undefined   \* the code's undefined: an optional field left out

NotFound == 0        \* Array.find on a list without a match

(* An allowlist that is empty or left out admits everything. *)
Admits(allowlist, x) == allowlist = {} \/ x \in allowlist

ProviderSatisfiesCapabilities(descriptor, required) ==
  required \subseteq descriptor.capabilities

(* The positions of the offered providers that pass both allowlists. *)
Candidates(llm, providers) ==
  {i \in DOMAIN providers :
     /\ Admits(llm.providerAllowlist, providers[i].provider)
     /\ Admits(llm.modelAllowlist, providers[i].model)}

(* The candidates that have every required capability. *)
Capable(llm, providers) ==
  {i \in Candidates(llm, providers) :
     ProviderSatisfiesCapabilities(providers[i], llm.requiredCapabilities)}

(* Array.find: the first of a set of positions. *)
First(positions) ==
  IF positions = {} THEN NotFound
  ELSE CHOOSE i \in positions : \A j \in positions : i <= j

(* The positions among `positions` of the preferred provider and model;    *)
(* none when the policy states no preference.                              *)
OfPreferredProvider(positions, llm, providers) ==
  {i \in positions : /\ llm.preferredProvider # Undefined
                     /\ providers[i].provider = llm.preferredProvider}

OfPreferredModel(positions, llm, providers) ==
  {i \in positions : /\ llm.preferredModel # Undefined
                     /\ providers[i].model = llm.preferredModel}

-----------------------------------------------------------------------------
(* The API's side.                                                         *)

(* The preference only ever looks at the FIRST candidate with the preferred*)
(* provider, then at the first with the preferred model.                   *)
SelectPreferredProvider(llm, providers) ==
  LET capable    == Capable(llm, providers)
      byProvider == First(OfPreferredProvider(Candidates(llm, providers), llm, providers))
      byModel    == First(OfPreferredModel(Candidates(llm, providers), llm, providers))
  IN  IF byProvider \in capable THEN byProvider
      ELSE IF byModel \in capable THEN byModel
      ELSE NotFound

MatchingProviderStrict(llm, providers) ==   \* slip: a stated preference excludes
  IF llm.preferredProvider # Undefined
  THEN SelectPreferredProvider(llm, providers)
  ELSE First(Capable(llm, providers))

MatchingProviderUnchecked(llm, providers) ==   \* slip: capabilities not asked for
  First(Candidates(llm, providers))

MatchingProviderFirst(llm, providers) ==   \* slip: only the first candidate is looked at
  LET first == First(Candidates(llm, providers))
  IN  IF first \in Capable(llm, providers) THEN first ELSE NotFound

MatchingProvider(llm, providers) ==
  LET preferred == SelectPreferredProvider(llm, providers)
  IN  IF preferred # NotFound THEN preferred ELSE First(Capable(llm, providers))

Verdict(compatible, reason, selectedProvider) ==
  [compatible |-> compatible, reason |-> reason, selectedProvider |-> selectedProvider]

(* Every early return in its order.  After a provider has been matched the *)
(* code recomputes its missing capabilities; it has none.                  *)
EvaluateWorkerExecutionCompatibility(requirements, offer) ==
  IF requirements = Undefined THEN Verdict(TRUE, "no-requirements", NotFound)
  ELSE IF offer = Undefined THEN Verdict(FALSE, "missing-worker-offer", NotFound)
  ELSE IF requirements.transport \notin offer.transports
    THEN Verdict(FALSE, "transport-mismatch", NotFound)
  ELSE IF requirements.llm = Undefined THEN Verdict(TRUE, "compatible", NotFound)
  ELSE IF Candidates(requirements.llm, offer.providers) = {}
    THEN IF \E i \in DOMAIN offer.providers :
              Admits(requirements.llm.providerAllowlist, offer.providers[i].provider)
         THEN Verdict(FALSE, "model-mismatch", NotFound)
         ELSE Verdict(FALSE, "provider-mismatch", NotFound)
  ELSE LET matching == MatchingProvider(requirements.llm, offer.providers)
       IN  IF matching = NotFound
           THEN Verdict(FALSE, "capability-mismatch", NotFound)
           ELSE Verdict(TRUE, "compatible", matching)

Compatible(requirements, offer) ==
  EvaluateWorkerExecutionCompatibility(requirements, offer).compatible

-----------------------------------------------------------------------------
(* The worker's side.                                                      *)

SelectAdapterUnsupported(llm, adapters) ==   \* slip: prefers before it filters
  IF llm = Undefined THEN First(DOMAIN adapters)
  ELSE LET byProvider == First(OfPreferredProvider(DOMAIN adapters, llm, adapters))
       IN  IF byProvider # NotFound THEN byProvider ELSE First(Capable(llm, adapters))

SelectAdapterByModel(llm, adapters) ==   \* slip: the model is preferred first
  IF llm = Undefined THEN First(DOMAIN adapters)
  ELSE LET supporting == Capable(llm, adapters)
           byModel    == First(OfPreferredModel(supporting, llm, adapters))
       IN  IF byModel # NotFound THEN byModel ELSE First(supporting)

(* ModelAdapterRegistry.select: filters on support first, then prefers.    *)
(* A task without an llm policy is supported by every adapter.             *)
SelectAdapter(llm, adapters) ==
  IF llm = Undefined THEN First(DOMAIN adapters)
  ELSE LET supporting == Capable(llm, adapters)
           byProvider == First(OfPreferredProvider(supporting, llm, adapters))
           byModel    == First(OfPreferredModel(supporting, llm, adapters))
       IN  IF byProvider # NotFound THEN byProvider
           ELSE IF byModel # NotFound THEN byModel
           ELSE First(supporting)

-----------------------------------------------------------------------------
(* What compatibility is meant to say, without the order of the checks and *)
(* without preferences: the worker speaks the transport and one of its     *)
(* providers is allowed and able.                                          *)
Serviceable(requirements, offer) ==
  \/ requirements = Undefined
  \/ /\ offer # Undefined
     /\ requirements.transport \in offer.transports
     /\ \/ requirements.llm = Undefined
        \/ Capable(requirements.llm, offer.providers) # {}

=============================================================================
