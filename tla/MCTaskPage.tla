------------------------------ MODULE MCTaskPage ------------------------------
(***************************************************************************)
(* TaskPage for TLC: one page, two requests under way, the API with its    *)
(* default credentials and the two sessions that belong to them, an offer  *)
(* that serves the task and one that does not.                             *)
(***************************************************************************)
EXTENDS TaskPage, TLC

MCSymmetry == Permutations(BidId) \cup Permutations(Slot)

MCExecution == {SeedExecution["task-two"]}
MCOffer == {SeedOffer["bid-three"], SeedOffer["bid-one"]}
MCParty == {"0xA11cE", "proof_runner_3"}

MCEnv ==
  {[credentials |-> <<>>, required |-> "1", sharedToken |-> "",
    allowSharedToken |-> "0", allowAdminRole |-> "0"]}

MCSession ==
  {[token |-> token, actorId |-> DefaultActorCredentials[token].actorId,
    role |-> DefaultActorCredentials[token].role] : token \in DOMAIN DefaultActorCredentials}

=============================================================================
