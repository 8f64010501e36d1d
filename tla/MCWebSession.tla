---------------------------- MODULE MCWebSession -----------------------------
(***************************************************************************)
(* WebSession for TLC: three clicks; by hand an employer's token, another  *)
(* worker with the shared token, and a blank one.  The API runs with the   *)
(* default credentials alone or with the shared token allowed as well.     *)
(***************************************************************************)
EXTENDS WebSession, TLC

MCEntered ==
  { Credential(Actor("carol", "worker"), DefaultSharedToken),
    Credential(Actor("carol", "worker"), "nightshift-worker-beta-token"),
    Credential(Actor("0xA11cE", "employer"), "") }

MCApiEnv ==
  {[credentials |-> <<>>, required |-> "1", sharedToken |-> "",
    allowSharedToken |-> shared, allowAdminRole |-> "0"] : shared \in {"0", "1"}}

MCSymmetry == Permutations(Click)

=============================================================================
