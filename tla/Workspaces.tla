----------------------------- MODULE Workspaces ------------------------------
(***************************************************************************)
(* WorkspaceNightShiftStore (apps/api/src/store.ts): the Map from workspace*)
(* identifiers to stores, bounded in number and in idle time.              *)
(*                                                                         *)
(* Stores are numbered in the order they are made, which is also the order *)
(* the Map iterates its entries in: an identifier keeps its place as long  *)
(* as it keeps its store.                                                  *)
(***************************************************************************)
EXTENDS Integers, FiniteSets

CONSTANTS
  WorkspaceId,          \* well-formed identifiers, in lower case
  DefaultWorkspaceId,
  WorkspaceTtl,         \* workspaceTtlMs
  MaxWorkspaces         \* MAX_WORKSPACES

ASSUME WorkspacesAssumption ==
  /\ DefaultWorkspaceId \in WorkspaceId
  /\ WorkspaceTtl \in Nat \ {0}
  /\ MaxWorkspaces \in Nat \ {0, 1}

VARIABLES workspaces, storesMade

workspaceVars == <<workspaces, storesMade>>

WorkspaceEntry == [store : Nat, touchedAt : Nat]

WorkspacesTypeOK ==
  /\ DOMAIN workspaces \subseteq WorkspaceId
  /\ workspaces \in [DOMAIN workspaces -> WorkspaceEntry]
  /\ storesMade \in Nat

WorkspacesInit ==
  /\ workspaces = [w \in {} |-> w]
  /\ storesMade = 0

-----------------------------------------------------------------------------
(* What a header may hold: an identifier, perhaps in other letters or      *)
(* between blanks, or text that is none, or nothing at all.                *)
Header == [kind : {"wellFormed", "malformed", "absent"}, id : WorkspaceId]

NormalizeWorkspaceId(header) ==
  IF header.kind = "wellFormed" THEN header.id ELSE DefaultWorkspaceId

Expired(w, currentTime) ==
  /\ w # DefaultWorkspaceId
  /\ workspaces[w].touchedAt + WorkspaceTtl <= currentTime

(* The keys that cleanup leaves.                                           *)
Kept(currentTime) == {w \in DOMAIN workspaces : ~Expired(w, currentTime)}

OldestStore(kept) ==                 \* slip: first made, not least recently touched
  {w \in kept \ {DefaultWorkspaceId} :
     \A v \in kept \ {DefaultWorkspaceId} : workspaces[w].store <= workspaces[v].store}

(* The scan keeps the first of the entries touched longest ago.            *)
Oldest(kept) ==
  {w \in kept \ {DefaultWorkspaceId} :
     \A v \in kept \ {DefaultWorkspaceId} :
       \/ workspaces[w].touchedAt < workspaces[v].touchedAt
       \/ /\ workspaces[w].touchedAt = workspaces[v].touchedAt
          /\ workspaces[w].store <= workspaces[v].store}

RoomToSpare(kept) ==                 \* slip: evicts with one place left
  IF Cardinality(kept) + 1 >= MaxWorkspaces THEN kept \ Oldest(kept) ELSE kept

Room(kept) ==
  IF Cardinality(kept) >= MaxWorkspaces THEN kept \ Oldest(kept) ELSE kept

TouchExisting(w, currentTime) ==
  LET kept == Kept(currentTime)
  IN  /\ w \in kept
      /\ workspaces' = [v \in kept |->
           IF v = w THEN [workspaces[w] EXCEPT !.touchedAt = currentTime]
           ELSE workspaces[v]]
      /\ UNCHANGED storesMade

ReuseStore(w, currentTime) ==        \* slip: an evicted store is handed out again
  LET kept == Kept(currentTime)
      room == Room(kept)
      old  == kept \ room
  IN  /\ w \notin kept
      /\ workspaces' = [v \in room \cup {w} |->
           IF v = w
           THEN [store |-> IF old = {} THEN storesMade + 1
                           ELSE workspaces[CHOOSE x \in old : TRUE].store,
                 touchedAt |-> currentTime]
           ELSE workspaces[v]]
      /\ storesMade' = IF old = {} THEN storesMade + 1 ELSE storesMade

CreateWorkspace(w, currentTime) ==
  LET kept == Kept(currentTime)
  IN  /\ w \notin kept
      /\ workspaces' = [v \in Room(kept) \cup {w} |->
           IF v = w THEN [store |-> storesMade + 1, touchedAt |-> currentTime]
           ELSE workspaces[v]]
      /\ storesMade' = storesMade + 1

GetWorkspace(w, currentTime) ==
  TouchExisting(w, currentTime) \/ CreateWorkspace(w, currentTime)

=============================================================================
