------------------------------ MODULE BetaAuth -------------------------------
(***************************************************************************)
(* Who a request comes from (apps/api/src/auth.ts): the configuration built*)
(* from the environment and the actor read from a request's headers.       *)
(*                                                                         *)
(* Header values and credential fields come trimmed; "" stands for one that*)
(* is missing or blank.                                                    *)
(***************************************************************************)
EXTENDS Integers, Sequences

ActorRole == {"employer", "worker", "admin"}

NoActor == [actorId |-> "", role |-> ""]

Actor(actorId, role) == [actorId |-> actorId, role |-> role]

(* Who acts when authentication is switched off.                           *)
AnonymousAdmin == Actor("beta-auth-disabled", "admin")

DefaultSharedToken == "nightshift-local-beta-token"

DefaultActorCredentials ==
  [token \in {"nightshift-employer-beta-token", "nightshift-worker-beta-token"} |->
     IF token = "nightshift-employer-beta-token"
     THEN Actor("0xA11cE", "employer")
     ELSE Actor("proof_runner_3", "worker")]

(* An entry of the list lacking a part, or with another role, is dropped;  *)
(* of two entries with one token the later counts.                         *)
ValidEntries(list) ==
  {i \in DOMAIN list :
     /\ list[i].actorId # ""
     /\ list[i].token # ""
     /\ list[i].role \in ActorRole}

LastEntry(list, token) ==
  CHOOSE i \in ValidEntries(list) :
    /\ list[i].token = token
    /\ \A j \in ValidEntries(list) : list[j].token = token => j <= i

BuildCredentialIndex(list) ==
  [token \in {list[i].token : i \in ValidEntries(list)} |->
     LET entry == list[LastEntry(list, token)]
     IN  Actor(entry.actorId, entry.role)]

(* env.credentials is the parsed list; one that cannot be parsed is empty. *)
BuildBetaAuthConfig(env) ==
  [required         |-> env.required # "0",
   sharedToken      |-> IF env.sharedToken = "" THEN DefaultSharedToken ELSE env.sharedToken,
   allowSharedToken |-> env.allowSharedToken = "1",
   allowAdminRole   |-> env.allowAdminRole = "1",
   credentials      |-> IF ValidEntries(env.credentials) = {} THEN DefaultActorCredentials
                        ELSE BuildCredentialIndex(env.credentials)]

-----------------------------------------------------------------------------
ReadActorRole(role) == IF role \in ActorRole THEN role ELSE ""

HeadersFit(headers, actor) ==
  /\ headers.actorId \in {"", actor.actorId}
  /\ ReadActorRole(headers.role) \in {"", actor.role}

RoleAllowed(role, config) == role = "admin" => config.allowAdminRole

BoundActorTrusting(headers, config) ==   \* slip: the headers name the actor
  LET actor == config.credentials[headers.token]
  IN  IF RoleAllowed(actor.role, config)
      THEN Actor(IF headers.actorId = "" THEN actor.actorId ELSE headers.actorId, actor.role)
      ELSE NoActor

(* A known token stands for its actor; headers that say otherwise void it. *)
BoundActor(headers, config) ==
  LET actor == config.credentials[headers.token]
  IN  IF HeadersFit(headers, actor) /\ RoleAllowed(actor.role, config) THEN actor ELSE NoActor

(* With the shared token the headers say who acts.                         *)
SharedActor(headers, config) ==
  LET role == ReadActorRole(headers.role)
  IN  IF /\ config.allowSharedToken
         /\ headers.token = config.sharedToken
         /\ headers.actorId # ""
         /\ role # ""
         /\ RoleAllowed(role, config)
      THEN Actor(headers.actorId, role)
      ELSE NoActor

ParseAuthenticatedActor(headers, config) ==
  IF headers.token = "" THEN NoActor
  ELSE IF headers.token \in DOMAIN config.credentials THEN BoundActor(headers, config)
  ELSE SharedActor(headers, config)

(* The actor a handler works for, in a set that is empty if it refuses.    *)
RequireAuthenticatedActor(headers, config, roles) ==
  LET actor == ParseAuthenticatedActor(headers, config)
  IN  IF actor = NoActor
      THEN IF config.required THEN {} ELSE {AnonymousAdmin}
      ELSE IF actor.role \in roles \cup {"admin"} THEN {actor} ELSE {}

RequireActorMatch(actor, expectedActorId) ==
  actor.role = "admin" \/ actor.actorId = expectedActorId

=============================================================================
