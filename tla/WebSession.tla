----------------------------- MODULE WebSession ------------------------------
(***************************************************************************)
(* The beta session of one browser (apps/web): the cookies that its pages  *)
(* share, the clicks that start, switch and reset a session (lib/api.ts),  *)
(* the route that answers them (app/api/beta/session/route.ts), and the    *)
(* proxy that adds the session to a page's requests                        *)
(* (app/api/nightshift/[...path]/route.ts).                                *)
(*                                                                         *)
(* A request carries the cookies of the moment it is sent; an answer's     *)
(* cookies are there when it arrives.  Clicks of several tabs, or of one   *)
(* impatient user, overlap in between.  Workspaces made by randomUUID are  *)
(* numbered; 0 is no workspace cookie.                                     *)
(***************************************************************************)
EXTENDS BetaAuth, FiniteSets

CONSTANTS
  Click,        \* clicks on the session buttons, each happens once
  Entered,      \* actors and tokens that users enter by hand
  ApiEnv        \* environments the API behind the proxy may be started in

(* A page acts for somebody with a name: the schemas refuse a blank one.    *)
ASSUME EnteredAssumption ==
  Entered \subseteq [actorId : STRING \ {""}, role : {"employer", "worker"}, token : STRING]

VARIABLES
  cookies,      \* the four session cookies
  tokens,       \* localStorage: the token kept for each actor
  clicks,       \* how far each click got
  made,         \* workspaces made so far
  apiConfig,    \* the API's configuration
  acted         \* the last request of a page: whom it was meant to act for,
                \* and whom the API takes it to come from

webVars == <<cookies, tokens, clicks, made, apiConfig, acted>>

Credential(actor, token) == [actorId |-> actor.actorId, role |-> actor.role, token |-> token]

NoCookies == [actorId |-> "", role |-> "", token |-> "", workspaceId |-> 0]

Session(credential, workspaceId) ==
  [actorId |-> credential.actorId, role |-> credential.role,
   token |-> credential.token, workspaceId |-> workspaceId]

(* Who can be meant by a page: the two presets and who is entered by hand. *)
PageActor ==
  {Actor("0xA11cE", "employer"), Actor("proof_runner_3", "worker")}
    \cup {Actor(e.actorId, e.role) : e \in Entered}

Idle ==
  [kind |-> "none", stage |-> "idle", body |-> Credential(NoActor, ""),
   carried |-> 0, madeBefore |-> 0, disturbed |-> FALSE, answer |-> 0]

WebInit ==
  /\ cookies = NoCookies
  /\ tokens = [a \in PageActor |-> ""]
  /\ clicks = [c \in Click |-> Idle]
  /\ made = 0
  /\ \E env \in ApiEnv : apiConfig = BuildBetaAuthConfig(env)
  /\ acted = [meant |-> NoActor, did |-> NoActor]

-----------------------------------------------------------------------------
(* With the variables of the environment unset.                            *)
ReadPreset(role) ==
  IF role = "employer"
  THEN {Credential(Actor("0xA11cE", "employer"), "nightshift-employer-beta-token")}
  ELSE IF role = "worker"
  THEN {Credential(Actor("proof_runner_3", "worker"), "nightshift-worker-beta-token")}
  ELSE {}

(* The credential a POST asks for, in a set that is empty if it gets none. *)
SessionCredential(body) ==
  IF body.actorId = "" \/ body.token = "" \/ body.role \notin ActorRole
  THEN ReadPreset(body.role) ELSE {body}

InProgress(c) == clicks[c].stage \in {"deleting", "deleted", "posting"}

OthersInProgress(c) == \E d \in Click \ {c} : InProgress(d)

(* Starts or moves a click; every other one under way is disturbed.        *)
SetClick(c, record) ==
  clicks' = [d \in Click |->
    IF d = c THEN record
    ELSE [clicks[d] EXCEPT !.disturbed = @ \/ InProgress(d)]]

Clicked(c, kind, body) ==
  [Idle EXCEPT !.kind = kind, !.body = body, !.madeBefore = made,
               !.disturbed = OthersInProgress(c)]

SendPost(record) == [record EXCEPT !.stage = "posting", !.carried = cookies.workspaceId]

(* Start employer or worker session: activateLocalBetaSession.             *)
StartSession(c, role) ==
  /\ clicks[c].stage = "idle"
  /\ SetClick(c, SendPost(Clicked(c, "start", Credential(Actor("", role), ""))))
  /\ UNCHANGED <<cookies, tokens, made, apiConfig, acted>>

(* resetBetaWorkspace: a DELETE, then the same.                            *)
ResetWorkspace(c, role) ==
  /\ clicks[c].stage = "idle"
  /\ SetClick(c, [Clicked(c, "reset", Credential(Actor("", role), "")) EXCEPT !.stage = "deleting"])
  /\ UNCHANGED <<cookies, tokens, made, apiConfig, acted>>

(* activateBetaActorSession: keeps the token and signs in with it, or      *)
(* forgets it and signs out.                                               *)
ActivateSession(c, credential) ==
  /\ clicks[c].stage = "idle"
  /\ tokens' = [tokens EXCEPT ![Actor(credential.actorId, credential.role)] = credential.token]
  /\ LET clicked == Clicked(c, "activate", credential)
     IN  SetClick(c, IF credential.token = "" THEN [clicked EXCEPT !.stage = "deleting"]
                     ELSE SendPost(clicked))
  /\ UNCHANGED <<cookies, made, apiConfig, acted>>

ClearedButWorkspace ==             \* slip: clears who, not where
  [NoCookies EXCEPT !.workspaceId = cookies.workspaceId]

ClearSessionCookies == NoCookies

Continued(c) ==
  [clicks[c] EXCEPT !.stage = IF clicks[c].kind = "reset" THEN "deleted" ELSE "done"]

AnswerDelete(c) ==
  /\ clicks[c].stage = "deleting"
  /\ cookies' = ClearSessionCookies
  /\ SetClick(c, Continued(c))
  /\ UNCHANGED <<tokens, made, apiConfig, acted>>

(* An answer with an error status sets no cookie, and nobody looks at it.  *)
DeleteIgnored(c) ==
  /\ clicks[c].stage = "deleting"
  /\ SetClick(c, [Continued(c) EXCEPT !.disturbed = TRUE])
  /\ UNCHANGED <<cookies, tokens, made, apiConfig, acted>>

GoOn(c) ==
  /\ clicks[c].stage = "deleted"
  /\ SetClick(c, SendPost(clicks[c]))
  /\ UNCHANGED <<cookies, tokens, made, apiConfig, acted>>

(* normalizeWorkspaceId over the cookie that came with the request.        *)
WorkspaceOf(c) == IF clicks[c].carried = 0 THEN made + 1 ELSE clicks[c].carried

AnswerPost(c) ==
  /\ clicks[c].stage = "posting"
  /\ \E credential \in SessionCredential(clicks[c].body) :
       cookies' = Session(credential, WorkspaceOf(c))
  /\ made' = IF WorkspaceOf(c) > made THEN WorkspaceOf(c) ELSE made
  /\ SetClick(c, [clicks[c] EXCEPT !.stage = "done", !.answer = WorkspaceOf(c)])
  /\ UNCHANGED <<tokens, apiConfig, acted>>

(* The request or its answer is lost, or answered with an error.           *)
FailRequest(c) ==
  /\ clicks[c].stage \in {"deleting", "posting"}
  /\ SetClick(c, [clicks[c] EXCEPT !.stage = "failed"])
  /\ UNCHANGED <<cookies, tokens, made, apiConfig, acted>>

-----------------------------------------------------------------------------
(* readServerBetaAuthContext: three cookies make a session.                *)
ServerBetaAuthContext ==
  IF cookies.actorId = "" \/ cookies.token = "" \/ cookies.role \notin ActorRole
  THEN NoCookies ELSE cookies

OrElse(explicit, value) == IF explicit = "" THEN value ELSE explicit

UpstreamOfSession(explicit) ==     \* slip: the session comes before the page
  LET auth == ServerBetaAuthContext
  IN  [token   |-> OrElse(auth.token, explicit.token),
       actorId |-> OrElse(auth.actorId, explicit.actorId),
       role    |-> OrElse(auth.role, explicit.role)]

(* The proxy: what the page says itself comes before the session.          *)
UpstreamHeaders(explicit) ==
  LET auth == ServerBetaAuthContext
  IN  [token   |-> OrElse(explicit.token, auth.token),
       actorId |-> OrElse(explicit.actorId, auth.actorId),
       role    |-> OrElse(explicit.role, auth.role)]

BuildBetaAuthHeaders(actor) == Credential(actor, tokens[actor])

(* A page's request: its actor and, if one is kept, the actor's token.     *)
ActAs(actor) ==
  /\ acted' = [meant |-> actor,
               did |-> ParseAuthenticatedActor(
                         UpstreamHeaders(BuildBetaAuthHeaders(actor)), apiConfig)]
  /\ UNCHANGED <<cookies, tokens, clicks, made, apiConfig>>

WebNext ==
  \/ \E c \in Click :
       \/ \E role \in {"employer", "worker"} : StartSession(c, role) \/ ResetWorkspace(c, role)
       \/ \E e \in Entered : ActivateSession(c, e)
       \/ AnswerDelete(c) \/ DeleteIgnored(c) \/ GoOn(c)
       \/ AnswerPost(c) \/ FailRequest(c)
  \/ \E actor \in PageActor : ActAs(actor)

WebSpec == WebInit /\ [][WebNext]_webVars

-----------------------------------------------------------------------------
(* Whatever token, session and actor meet in one request - the page names  *)
(* the actor, the token may be its own, another's or the session's - the   *)
(* API refuses it rather than take it for somebody else than was meant     *)
(* (api.ts:768, route.ts:74-90 of the proxy, auth.ts:75).                  *)
NeverActsForAnother == acted.did \in {NoActor, acted.meant}

(* A reset that nothing interferes with starts in a workspace that no      *)
(* session of the browser ever had.  Another click between its two requests*)
(* may bring the old one back, and so does a DELETE that fails, which      *)
(* nobody notices (api.ts:330).                                            *)
UndisturbedResetIsFresh ==
  \A c \in Click :
    /\ clicks[c].kind = "reset"
    /\ clicks[c].stage = "done"
    /\ ~clicks[c].disturbed
    => clicks[c].answer > clicks[c].madeBefore

=============================================================================
