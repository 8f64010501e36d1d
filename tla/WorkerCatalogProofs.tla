------------------------- MODULE WorkerCatalogProofs -------------------------
(***************************************************************************)
(* The properties of WorkerCatalog for every set of transports,            *)
(* descriptors and policies and every bound on the catalog.                *)
(***************************************************************************)
EXTENDS WorkerCatalog, ExecutionCompatibilityProofs

LEMMA TypeCorrect == Spec => []TypeOK
<1>1. Init => TypeOK
  BY DEF Init, TypeOK
<1>2. TypeOK /\ [Next]_vars => TypeOK'
  <2> SUFFICES ASSUME TypeOK, [Next]_vars PROVE TypeOK'
    OBVIOUS
  <2>1. CASE AdvertiseNothing
    BY <2>1, CatalogAssumption DEF TypeOK, AdvertiseNothing
  <2>2. ASSUME NEW t \in Transport, AdvertiseTransport(t) PROVE TypeOK'
    BY <2>2 DEF TypeOK, AdvertiseTransport
  <2>3. ASSUME NEW d \in Descriptor, AdvertiseProvider(d) PROVE TypeOK'
    <3>1. /\ offer.transports \in SUBSET Transport
          /\ offer.providers \in Seq(Descriptor)
          /\ offer \in [transports : SUBSET Transport, providers : Seq(Descriptor)]
      BY <2>3 DEF TypeOK, AdvertiseProvider
    <3>2. /\ Append(offer.providers, d) \in Seq(Descriptor)
          /\ Len(Append(offer.providers, d)) = Len(offer.providers) + 1
      BY <3>1
    <3>3. /\ offer' = [transports |-> offer.transports,
                      providers |-> Append(offer.providers, d)]
          /\ requirements' = requirements
      BY <2>3, <3>1 DEF AdvertiseProvider
    <3>4. Len(offer.providers) < MaxProviders /\ Len(offer.providers) \in Nat
      BY <2>3, <3>1 DEF AdvertiseProvider
    <3>5. QED
      BY <3>1, <3>2, <3>3, <3>4, CatalogAssumption DEF TypeOK
  <2>4. CASE UNCHANGED vars
    BY <2>4 DEF TypeOK, vars
  <2>5. QED
    BY <2>1, <2>2, <2>3, <2>4 DEF Next
<1>3. QED
  BY <1>1, <1>2, PTL DEF Spec

LEMMA OfferIsCatalog ==
  ASSUME TypeOK, offer # Undefined
  PROVE  IsCatalog(offer.providers)
BY DEF TypeOK, IsCatalog

LEMMA VerdictIsServiceability == TypeOK => CompatibleIffServiceable
<1> SUFFICES ASSUME TypeOK PROVE CompatibleIffServiceable
  OBVIOUS
<1>1. Compatible(requirements, offer) <=> Serviceable(requirements, offer)
  BY OfferIsCatalog, CompatibilityIsServiceability
<1>2. QED
  BY <1>1 DEF CompatibleIffServiceable, verdict, Compatible

(* Whatever a worker advertises, the API's chain of checks accepts exactly *)
(* the offers that can serve the task (execution.ts:73-167).               *)
THEOREM CompatibilityCorrect == Spec => []CompatibleIffServiceable
BY TypeCorrect, VerdictIsServiceability, PTL

(* Every assignment the API hands to a worker can be executed by it: the   *)
(* registry built from the advertised catalog has a supporting adapter.    *)
THEOREM HandedOutIsExecutable == Spec => []CompatibleWorkerFindsAdapter
<1>1. TypeOK => CompatibleWorkerFindsAdapter
  <2> SUFFICES ASSUME TypeOK, verdict.compatible, NeedsModel
               PROVE  SelectAdapter(requirements.llm, offer.providers)
                        \in Capable(requirements.llm, offer.providers)
    BY DEF CompatibleWorkerFindsAdapter
  <2>1. Serviceable(requirements, offer)
    BY VerdictIsServiceability DEF CompatibleIffServiceable
  <2>2. offer # Undefined /\ Capable(requirements.llm, offer.providers) # {}
    BY <2>1 DEF Serviceable, NeedsModel
  <2>3. QED
    BY <2>2, OfferIsCatalog, SelectAdapterIsCapable DEF NeedsModel
<1>2. QED
  BY <1>1, TypeCorrect, PTL

(* A worker that advertises more never loses a task it could have had.     *)
THEOREM AdvertisingIsMonotone == Spec => AdvertisingMoreNeverHurts
<1>0. TypeOK' => CompatibleIffServiceable'
  BY VerdictIsServiceability, PTL
<1>1. TypeOK /\ TypeOK' /\ [Next]_vars => [verdict.compatible => verdict'.compatible]_vars
  <2> SUFFICES ASSUME TypeOK, TypeOK', Next, verdict.compatible
               PROVE  verdict'.compatible
    BY DEF vars
  <2>1. Serviceable(requirements, offer)
    BY VerdictIsServiceability DEF CompatibleIffServiceable
  <2>2. Serviceable(requirements, offer)'
    <3>1. CASE AdvertiseNothing
      BY <2>1, <3>1 DEF AdvertiseNothing, Serviceable
    <3>2. ASSUME NEW t \in Transport, AdvertiseTransport(t)
          PROVE  Serviceable(requirements, offer)'
      <4>1. offer' # Undefined /\ requirements' = requirements
        BY <3>2, CatalogAssumption DEF AdvertiseTransport, TypeOK
      <4>2. /\ offer.transports \subseteq offer'.transports
            /\ offer'.providers = offer.providers
        BY <3>2 DEF AdvertiseTransport, TypeOK
      <4>3. QED
        BY <2>1, <4>1, <4>2, <3>2 DEF Serviceable, AdvertiseTransport
    <3>3. ASSUME NEW d \in Descriptor, AdvertiseProvider(d)
          PROVE  Serviceable(requirements, offer)'
      <4>1. Capable(requirements.llm, offer.providers)
              \subseteq Capable(requirements.llm, offer'.providers)
        BY <3>3 DEF AdvertiseProvider, TypeOK, Capable, Candidates
      <4>2. /\ offer' # Undefined
            /\ offer'.transports = offer.transports
            /\ requirements' = requirements
        <5>1. offer \in [transports : SUBSET Transport, providers : Seq(Descriptor)]
          BY <3>3 DEF AdvertiseProvider, TypeOK
        <5>2. offer' = [transports |-> offer.transports,
                        providers |-> Append(offer.providers, d)]
          BY <3>3, <5>1 DEF AdvertiseProvider
        <5>3. Append(offer.providers, d) \in Seq(Descriptor)
          BY <5>1
        <5>4. QED
          BY <3>3, <5>1, <5>2, <5>3, CatalogAssumption DEF AdvertiseProvider
      <4>3. QED
        BY <2>1, <3>3, <4>1, <4>2 DEF Serviceable, AdvertiseProvider
    <3>4. QED
      BY <3>1, <3>2, <3>3 DEF Next
  <2>3. CompatibleIffServiceable'
    BY <1>0
  <2>4. QED
    BY <2>2, <2>3 DEF CompatibleIffServiceable
<1>2. QED
  BY <1>1, TypeCorrect, PTL DEF Spec, AdvertisingMoreNeverHurts

-----------------------------------------------------------------------------
(* What the API says of an offer for a model task, reason by reason.       *)
LEMMA VerdictOnModelTask ==
  ASSUME NeedsModel, offer # Undefined
  PROVE  LET llm == requirements.llm
             providers == offer.providers
         IN  /\ requirements.transport \notin offer.transports =>
                  verdict = Verdict(FALSE, "transport-mismatch", NotFound)
             /\ requirements.transport \in offer.transports
                  /\ Candidates(llm, providers) = {} =>
                  verdict = Verdict(FALSE,
                    IF \E i \in DOMAIN providers :
                         Admits(llm.providerAllowlist, providers[i].provider)
                    THEN "model-mismatch" ELSE "provider-mismatch", NotFound)
             /\ requirements.transport \in offer.transports
                  /\ Candidates(llm, providers) # {} =>
                  verdict = IF MatchingProvider(llm, providers) = NotFound
                            THEN Verdict(FALSE, "capability-mismatch", NotFound)
                            ELSE Verdict(TRUE, "compatible", MatchingProvider(llm, providers))
BY DEF NeedsModel, verdict, EvaluateWorkerExecutionCompatibility

LEMMA VerdictWithoutModel ==
  ASSUME ~NeedsModel \/ offer = Undefined
  PROVE  /\ verdict.selectedProvider = NotFound
         /\ verdict.reason \in
              {"no-requirements", "missing-worker-offer", "transport-mismatch", "compatible"}
BY DEF NeedsModel, verdict, EvaluateWorkerExecutionCompatibility, Verdict

(* For every catalog in every order: of the providers that may serve a task*)
(* the worker runs one of the preferred provider if there is any, else one *)
(* of the preferred model if there is any (model-adapters.ts:30-45).       *)
THEOREM PreferenceIsHonoured == Spec => []WorkerHonoursPreference
<1>1. TypeOK => WorkerHonoursPreference
  <2> SUFFICES ASSUME TypeOK, verdict.compatible, NeedsModel PROVE WorkerHonoursPreference
    BY DEF WorkerHonoursPreference
  <2> DEFINE llm == requirements.llm
             providers == offer.providers
             capable == Capable(llm, providers)
             able == {providers[i] : i \in capable}
             ofProvider == OfPreferredProvider(capable, llm, providers)
             ofModel == OfPreferredModel(capable, llm, providers)
             chosen == SelectAdapter(llm, providers)
  <2>1. offer # Undefined
    BY VerdictIsServiceability DEF CompatibleIffServiceable, Serviceable, NeedsModel
  <2>2. IsCatalog(providers)
    BY <2>1, OfferIsCatalog
  <2>3. \A i \in capable : /\ providers[i].provider # Undefined
                            /\ providers[i].model # Undefined
    <3>1. providers \in Seq(Descriptor)
      BY <2>1 DEF TypeOK
    <3>2. capable \subseteq DOMAIN providers
      BY DEF Capable, Candidates
    <3>3. \A i \in capable : providers[i] \in Descriptor
      BY <3>1, <3>2
    <3>4. QED
      BY <3>3, CatalogAssumption
  <2>4. /\ ofProvider \in SUBSET (Nat \ {0})
        /\ ofModel \in SUBSET (Nat \ {0})
    BY <2>2, CapablePositions DEF OfPreferredProvider, OfPreferredModel
  <2>5. CASE \E d \in able : d.provider = llm.preferredProvider
    <3>1. ofProvider # {}
      BY <2>3, <2>5 DEF OfPreferredProvider
    <3>2. First(ofProvider) \in ofProvider /\ First(ofProvider) # NotFound
      BY <2>4, <3>1, FirstFound
    <3>3. chosen = First(ofProvider)
      BY <3>2 DEF SelectAdapter, NeedsModel
    <3>4. providers[chosen].provider = llm.preferredProvider
      BY <3>2, <3>3 DEF OfPreferredProvider
    <3>5. QED
      BY <2>5, <3>4 DEF WorkerHonoursPreference
  <2>6. ASSUME \A d \in able : d.provider # llm.preferredProvider,
               \E d \in able : d.model = llm.preferredModel
        PROVE  providers[chosen].model = llm.preferredModel
    <3>1. ofProvider = {}
      BY <2>6 DEF OfPreferredProvider
    <3>2. ofModel # {}
      BY <2>3, <2>6 DEF OfPreferredModel
    <3>3. First(ofModel) \in ofModel /\ First(ofModel) # NotFound
      BY <2>4, <3>2, FirstFound
    <3>4. chosen = First(ofModel)
      BY <3>1, <3>3 DEF SelectAdapter, NeedsModel, First
    <3>5. QED
      BY <3>3, <3>4 DEF OfPreferredModel
  <2>7. QED
    BY <2>5, <2>6 DEF WorkerHonoursPreference
<1>2. QED
  BY <1>1, TypeCorrect, PTL

(* Each reason is only given when every earlier obstacle is out of the way,*)
(* for every policy and every catalog (execution.ts:73-167).               *)
THEOREM ReasonIsTheFirstObstacle == Spec => []ReasonNamesFirstObstacle
<1>1. TypeOK => ReasonNamesFirstObstacle
  <2> SUFFICES ASSUME TypeOK PROVE ReasonNamesFirstObstacle
    OBVIOUS
  <2> DEFINE llm == requirements.llm
             providers == offer.providers
  <2>1. CASE ~NeedsModel \/ offer = Undefined
    BY <2>1, VerdictWithoutModel DEF ReasonNamesFirstObstacle
  <2>2. CASE NeedsModel /\ offer # Undefined
    <3>1. CASE requirements.transport \notin offer.transports
      BY <2>2, <3>1, VerdictOnModelTask DEF Verdict, ReasonNamesFirstObstacle
    <3>2. CASE requirements.transport \in offer.transports /\ Candidates(llm, providers) = {}
      <4>1. verdict.reason =
              IF \E i \in DOMAIN providers : Admits(llm.providerAllowlist, providers[i].provider)
              THEN "model-mismatch" ELSE "provider-mismatch"
        BY <2>2, <3>2, VerdictOnModelTask DEF Verdict
      <4>2. \A i \in DOMAIN providers :
              Admits(llm.providerAllowlist, providers[i].provider) =>
                providers[i].model \notin llm.modelAllowlist
        BY <3>2 DEF Candidates, Admits
      <4>3. \A i \in DOMAIN providers :
              ~Admits(llm.providerAllowlist, providers[i].provider) =>
                providers[i].provider \notin llm.providerAllowlist
        BY DEF Admits
      <4>4. QED
        BY <2>2, <3>2, <4>1, <4>2, <4>3 DEF ReasonNamesFirstObstacle
    <3>3. CASE requirements.transport \in offer.transports /\ Candidates(llm, providers) # {}
      <4>1. verdict.reason = IF MatchingProvider(llm, providers) = NotFound
                             THEN "capability-mismatch" ELSE "compatible"
        BY <2>2, <3>3, VerdictOnModelTask DEF Verdict
      <4>2. IsCatalog(providers)
        BY <2>2, OfferIsCatalog
      <4>3. MatchingProvider(llm, providers) = NotFound => Capable(llm, providers) = {}
        BY <4>2, MatchingProviderIsCapable
      <4>4. Capable(llm, providers) = {} =>
              \A i \in Candidates(llm, providers) :
                ~(llm.requiredCapabilities \subseteq providers[i].capabilities)
        BY DEF Capable, ProviderSatisfiesCapabilities
      <4>5. QED
        BY <2>2, <3>3, <4>1, <4>3, <4>4 DEF ReasonNamesFirstObstacle
    <3>4. QED
      BY <3>1, <3>2, <3>3
  <2>3. QED
    BY <2>1, <2>2
<1>2. QED
  BY <1>1, TypeCorrect, PTL

=============================================================================
