-------------------- MODULE ExecutionCompatibilityProofs --------------------
(***************************************************************************)
(* What the operators of ExecutionCompatibility return, for every policy   *)
(* and every catalog.  Used by WorkerCatalogProofs and                     *)
(* NightShiftStoreProofs.                                                  *)
(***************************************************************************)
EXTENDS ExecutionCompatibility, WellFoundedInduction, TLAPS

(* Array.find on a non-empty list of matches returns one of them.  The     *)
(* least position exists because the positions are natural numbers.        *)
LEMMA FirstIsAMember ==
  ASSUME NEW positions \in SUBSET Nat, positions # {}
  PROVE  First(positions) \in positions
<1> DEFINE Less == OpToRel(<, Nat)
<1>1. PICK n \in positions : \A m \in positions : ~(<<m, n>> \in Less)
  <2>1. IsWellFoundedOn(Less, Nat)
    BY NatLessThanWellFounded
  <2>2. QED
    BY <2>1, WFMin
<1>2. \A m \in positions : n <= m
  <2> SUFFICES ASSUME NEW m \in positions PROVE n <= m
    OBVIOUS
  <2>1. m \in Nat /\ n \in Nat
    OBVIOUS
  <2>2. ~(m < n)
    BY <1>1, <2>1 DEF OpToRel
  <2>3. QED
    BY <2>1, <2>2
<1>3. QED
  BY <1>2 DEF First

(* A catalog, as far as the lemmas need it: a function of positions 1..n.  *)
IsCatalog(providers) == DOMAIN providers \in SUBSET (Nat \ {0})

LEMMA CapablePositions ==
  ASSUME NEW llm, NEW providers, IsCatalog(providers)
  PROVE  /\ Candidates(llm, providers) \in SUBSET (Nat \ {0})
         /\ Capable(llm, providers) \subseteq Candidates(llm, providers)
BY DEF IsCatalog, Candidates, Capable

(* First of a set of positions is NotFound exactly when the set is empty.  *)
LEMMA FirstFound ==
  ASSUME NEW positions \in SUBSET (Nat \ {0})
  PROVE  /\ positions # {} => First(positions) \in positions
         /\ positions = {} => First(positions) = NotFound
         /\ First(positions) # NotFound <=> positions # {}
<1>1. positions # {} => First(positions) \in positions
  BY FirstIsAMember
<1>2. positions = {} => First(positions) = NotFound
  BY DEF First
<1>3. QED
  BY <1>1, <1>2 DEF NotFound

(* The API settles on a provider exactly when some provider is allowed and *)
(* able, and then on such a one: the preferences only rank, they never     *)
(* exclude (execution.ts:126-140, 169-188).                                *)
LEMMA MatchingProviderIsCapable ==
  ASSUME NEW llm, NEW providers, IsCatalog(providers)
  PROVE  /\ MatchingProvider(llm, providers) # NotFound <=> Capable(llm, providers) # {}
         /\ Capable(llm, providers) # {} =>
              MatchingProvider(llm, providers) \in Capable(llm, providers)
<1> DEFINE capable == Capable(llm, providers)
<1> DEFINE preferred == SelectPreferredProvider(llm, providers)
<1>1. capable \in SUBSET (Nat \ {0})
  BY CapablePositions
<1>2. NotFound \notin capable
  BY <1>1 DEF NotFound
<1>3. preferred = NotFound \/ preferred \in capable
  BY DEF SelectPreferredProvider
<1>4. CASE preferred = NotFound
  <2>1. MatchingProvider(llm, providers) = First(capable)
    BY <1>4 DEF MatchingProvider
  <2>2. QED
    BY <2>1, <1>1, FirstFound
<1>5. CASE preferred # NotFound
  <2>1. MatchingProvider(llm, providers) = preferred
    BY <1>5 DEF MatchingProvider
  <2>2. preferred \in capable
    BY <1>3, <1>5
  <2>3. QED
    BY <2>1, <2>2, <1>5
<1>6. QED
  BY <1>4, <1>5

(* The compatibility check accepts an offer exactly when the worker can    *)
(* serve the task, for every policy and every catalog (execution.ts:73).   *)
THEOREM CompatibilityIsServiceability ==
  ASSUME NEW reqs, NEW given,
         reqs # Undefined /\ given # Undefined => IsCatalog(given.providers)
  PROVE  Compatible(reqs, given) <=> Serviceable(reqs, given)
<1> DEFINE verd == EvaluateWorkerExecutionCompatibility(reqs, given)
<1>1. CASE reqs = Undefined
  BY <1>1 DEF Compatible, EvaluateWorkerExecutionCompatibility, Verdict, Serviceable
<1>2. CASE reqs # Undefined /\ given = Undefined
  BY <1>2 DEF Compatible, EvaluateWorkerExecutionCompatibility, Verdict, Serviceable
<1>3. CASE reqs # Undefined /\ given # Undefined /\ reqs.transport \notin given.transports
  BY <1>3 DEF Compatible, EvaluateWorkerExecutionCompatibility, Verdict, Serviceable
<1>4. CASE /\ reqs # Undefined /\ given # Undefined
           /\ reqs.transport \in given.transports
           /\ reqs.llm = Undefined
  BY <1>4 DEF Compatible, EvaluateWorkerExecutionCompatibility, Verdict, Serviceable
<1>5. CASE /\ reqs # Undefined /\ given # Undefined
           /\ reqs.transport \in given.transports
           /\ reqs.llm # Undefined
  <2> DEFINE candidates == Candidates(reqs.llm, given.providers)
  <2> DEFINE capable == Capable(reqs.llm, given.providers)
  <2> DEFINE matching == MatchingProvider(reqs.llm, given.providers)
  <2>1. IsCatalog(given.providers)
    BY <1>5
  <2>2. capable \subseteq candidates
    BY <2>1, CapablePositions
  <2>3. matching # NotFound <=> capable # {}
    BY <2>1, MatchingProviderIsCapable
  <2>4. verd.compatible <=> candidates # {} /\ matching # NotFound
    BY <1>5 DEF EvaluateWorkerExecutionCompatibility, Verdict
  <2>5. Serviceable(reqs, given) <=> capable # {}
    BY <1>5 DEF Serviceable
  <2>6. QED
    BY <2>2, <2>3, <2>4, <2>5 DEF Compatible
<1>6. QED
  BY <1>1, <1>2, <1>3, <1>4, <1>5

(* The worker's registry finds an allowed and able adapter whenever there  *)
(* is one (model-adapters.ts:30-52).                                       *)
THEOREM SelectAdapterIsCapable ==
  ASSUME NEW llm, NEW adapters, IsCatalog(adapters),
         llm # Undefined, Capable(llm, adapters) # {}
  PROVE  SelectAdapter(llm, adapters) \in Capable(llm, adapters)
<1> DEFINE supporting == Capable(llm, adapters)
<1> DEFINE ofProvider == OfPreferredProvider(supporting, llm, adapters)
<1> DEFINE ofModel == OfPreferredModel(supporting, llm, adapters)
<1>1. supporting \in SUBSET (Nat \ {0})
  BY CapablePositions
<1>2. ofProvider \subseteq supporting /\ ofModel \subseteq supporting
  BY DEF OfPreferredProvider, OfPreferredModel
<1>3. First(ofProvider) # NotFound => First(ofProvider) \in supporting
  BY <1>1, <1>2, FirstFound
<1>4. First(ofModel) # NotFound => First(ofModel) \in supporting
  BY <1>1, <1>2, FirstFound
<1>5. First(supporting) \in supporting
  BY <1>1, FirstFound
<1>6. QED
  BY <1>3, <1>4, <1>5 DEF SelectAdapter

=============================================================================
