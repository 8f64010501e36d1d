------------------------- MODULE MCNightShiftServer --------------------------
(***************************************************************************)
(* NightShiftServer for TLC: six requests of one address to three private  *)
(* workspaces and the default one, room for three of them, a time to live  *)
(* of three clock units, windows of two and a limit of two requests each.  *)
(*                                                                         *)
(* Requests differ in what the hooks tell apart: a health check and a write*)
(* in one workspace, a write without an actor, a malformed identifier and  *)
(* none at all, which both fall back to the default workspace.             *)
(***************************************************************************)
EXTENDS NightShiftServer

CONSTANTS ip1, publicBeta, w1, w2, w3

MCLimit == [b \in BucketName |-> 2]

MCRequest == 1..6

Named(w) == [kind |-> "wellFormed", id |-> w]

MCMethodOf == <<"GET", "POST", "POST", "POST", "POST", "POST">>
MCUrlOf    == [r \in MCRequest |-> IF r = 1 THEN "/health" ELSE "other"]
MCHeaderOf ==
  << Named(w1), Named(w1), Named(w2), Named(w3), [kind |-> "malformed", id |-> w1],
     [kind |-> "absent", id |-> w1] >>
MCIpOf     == [r \in MCRequest |-> ip1]
MCHasActor == [r \in MCRequest |-> r # 4]

=============================================================================
