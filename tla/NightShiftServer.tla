-------------------------- MODULE NightShiftServer ---------------------------
(***************************************************************************)
(* The life of a request in apps/api/src/server.ts: the rate limiter, the  *)
(* hook that picks the store of the workspace and checks for an actor, and,*)
(* once the body is there, the handler.  The hooks of a request run when   *)
(* its headers arrive, its handler later: other requests come in between,  *)
(* and the handler works on the store that the hook picked.                *)
(*                                                                         *)
(* What a handler writes is the matter of NightShiftStore; here a store is *)
(* known by the requests whose handlers wrote to it.                       *)
(***************************************************************************)
EXTENDS RateLimiter, Workspaces

CONSTANTS
  Request,       \* request identifiers, each used once
  MethodOf, UrlOf, IpOf, HeaderOf,   \* what each request carries
  HasActor       \* whether its credentials name an actor

ASSUME RequestAssumption ==
  /\ MethodOf \in [Request -> Method]
  /\ UrlOf \in [Request -> Url]
  /\ IpOf \in [Request -> Ip]
  /\ HeaderOf \in [Request -> Header]
  /\ HasActor \in [Request -> BOOLEAN]

VARIABLE requests   \* where each request stands

serverVars == <<limiterVars, workspaceVars, requests>>

NoStore == 0

RequestState ==
  [phase : {"coming", "held", "done", "limited", "denied"},
   workspaceId : WorkspaceId, store : Nat, arrivedAt : Nat]

ServerTypeOK ==
  /\ LimiterTypeOK
  /\ WorkspacesTypeOK
  /\ requests \in [Request -> RequestState]

ServerInit ==
  /\ LimiterInit
  /\ WorkspacesInit
  /\ requests = [r \in Request |->
       [phase |-> "coming", workspaceId |-> DefaultWorkspaceId,
        store |-> NoStore, arrivedAt |-> 0]]

-----------------------------------------------------------------------------
RouteRequiresActorAuth(method, url) ==
  /\ url # "/health"
  /\ method = "POST" \/ url = "/v1/assignments/poll"

Denied(r) == RouteRequiresActorAuth(MethodOf[r], UrlOf[r]) /\ ~HasActor[r]

(* A limited request is answered before its workspace is looked at.        *)
ArriveLimited(r) ==
  /\ requests[r].phase = "coming"
  /\ TurnAway(MethodOf[r], UrlOf[r], IpOf[r])
  /\ requests' = [requests EXCEPT ![r].phase = "limited"]
  /\ UNCHANGED <<clock, workspaceVars>>

(* The workspace is touched or made before the actor is asked for: a denied*)
(* request leaves its trace in the Map.                                    *)
Arrive(r) ==
  /\ requests[r].phase = "coming"
  /\ LetThrough(MethodOf[r], UrlOf[r], IpOf[r])
  /\ LET w == NormalizeWorkspaceId(HeaderOf[r])
     IN  /\ GetWorkspace(w, clock)
         /\ requests' = [requests EXCEPT ![r] =
              [phase |-> IF Denied(r) THEN "denied" ELSE "held",
               workspaceId |-> w, store |-> workspaces'[w].store, arrivedAt |-> clock]]
  /\ UNCHANGED clock

Handle(r) ==
  /\ requests[r].phase = "held"
  /\ requests' = [requests EXCEPT ![r].phase = "done"]
  /\ UNCHANGED <<limiterVars, workspaceVars>>

ServerTick == Tick /\ UNCHANGED <<workspaceVars, requests>>

ServerNext ==
  \/ \E r \in Request : ArriveLimited(r) \/ Arrive(r) \/ Handle(r)
  \/ ServerTick

ServerSpec == ServerInit /\ [][ServerNext]_serverVars

-----------------------------------------------------------------------------
InFlight(r) == requests[r].phase = "held"

(* The requests whose handlers wrote to a store.                           *)
WrittenTo(store) ==
  {r \in Request : /\ MethodOf[r] = "POST"
                   /\ requests[r].phase = "done"
                   /\ requests[r].store = store}

(* Workspaces are isolated (docs/DEPLOYMENT.md:38): what a request of one  *)
(* workspace wrote is never in a store that serves, or in flight could     *)
(* still serve, another one, however workspaces come and go meanwhile.     *)
WorkspacesAreIsolated ==
  /\ \A w \in DOMAIN workspaces : \A r \in WrittenTo(workspaces[w].store) :
       requests[r].workspaceId = w
  /\ \A r \in Request : InFlight(r) =>
       \A q \in WrittenTo(requests[r].store) : requests[q].workspaceId = requests[r].workspaceId

(* The others used since a request arrived.                                *)
UsedSince(r) ==
  {w \in DOMAIN workspaces \ {DefaultWorkspaceId, requests[r].workspaceId} :
     workspaces[w].touchedAt >= requests[r].arrivedAt}

(* A request between its hook and its handler holds the store that later   *)
(* requests of its workspace get as well, as long as it took less than the *)
(* time to live and fewer than MAX_WORKSPACES - 2 others were used since:  *)
(* only then may its write go to a store nobody sees (server.ts:164).      *)
InFlightStoreIsCurrent ==
  \A r \in Request :
    /\ InFlight(r)
    /\ clock < requests[r].arrivedAt + WorkspaceTtl
    /\ Cardinality(UsedSince(r)) < MaxWorkspaces - 2
    => /\ requests[r].workspaceId \in DOMAIN workspaces
       /\ workspaces[requests[r].workspaceId].store = requests[r].store

(* The Map never outgrows its bound (store.ts:772).                        *)
WorkspacesAreBounded == Cardinality(DOMAIN workspaces) <= MaxWorkspaces

Idle(w) == w # DefaultWorkspaceId /\ workspaces[w].touchedAt + WorkspaceTtl <= clock

(* Idle for its time to live; or room is needed even once the idle ones are*)
(* gone, and each of the others was used since.                            *)
MayBeDropped(w) ==
  /\ w # DefaultWorkspaceId
  /\ \/ Idle(w)
     \/ /\ Cardinality({v \in DOMAIN workspaces : ~Idle(v)}) >= MaxWorkspaces
        /\ \A v \in DOMAIN workspaces \ {DefaultWorkspaceId} :
             Idle(v) \/ workspaces[v].touchedAt >= workspaces[w].touchedAt

(* A workspace is never given up for less, the default one never at all:   *)
(* somebody else's first visit takes a store away only from the workspace  *)
(* unused for longest, and only where MAX_WORKSPACES are in use            *)
(* (store.ts:772-818).                                                     *)
DroppedForAReason ==
  [][\A w \in DOMAIN workspaces :
       \/ /\ w \in DOMAIN workspaces'
          /\ workspaces'[w].store = workspaces[w].store
       \/ MayBeDropped(w)]_serverVars

=============================================================================
