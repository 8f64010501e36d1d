--------------------------- MODULE MCNightShiftApi ---------------------------
(***************************************************************************)
(* The routes and the smoke test for TLC: a task of the script, one of     *)
(* others, three people.  The server is started closed with the default    *)
(* credentials, with or without two for carol, closed with a list that     *)
(* repeats a token and has void entries, or wide open.                     *)
(***************************************************************************)
EXTENDS SmokeTest

WeakOffer ==
  [transports |-> {"http-poller"},
   providers |-> OneProvider("mock", "local-sandbox", {"text"})]

MCExecution == {SmokeExecution}
MCOffer == {SmokeOffer, WeakOffer}

MCParty == {"0xA11cE", "proof_runner_3", "carol"}

MCMine ==
  [task |-> "t1", bid |-> "b1", assignment |-> "a1", receipt |-> "r1", dispute |-> "d1"]

Environment(credentials, required, shared, admin) ==
  [credentials |-> credentials, required |-> required, sharedToken |-> "",
   allowSharedToken |-> shared, allowAdminRole |-> admin]

Entry(actorId, role, token) == [actorId |-> actorId, role |-> role, token |-> token]

MCEnv ==
  { Environment(<<Entry("0xA11cE", "employer", "nightshift-employer-beta-token"),
                  Entry("proof_runner_3", "worker", "nightshift-worker-beta-token"),
                  Entry("carol", "employer", "t3"), Entry("carol", "worker", "t4")>>,
                "1", "", "0"),
    Environment(<<Entry("proof_runner_3", "employer", "t1"), Entry("0xA11cE", "employer", "t1"),
                  Entry("", "worker", "t2"), Entry("proof_runner_3", "worker", "t2"),
                  Entry("carol", "employer", "t3"), Entry("carol", "owner", "t2"),
                  Entry("carol", "admin", "t4")>>, "", "", ""),
    Environment(<<Entry("carol", "admin", "t3")>>, "0", "1", "1"),
    Environment(<<>>, "1", "0", "0") }

MCHeaders ==
  [token : {"t1", "t2", "t3", "t4", DefaultSharedToken}, actorId : {""}, role : {""}]
  \cup [token : {DefaultSharedToken}, actorId : {"0xA11cE", "carol"}, role : {"employer", "owner"}]
  \cup {[token |-> "t3", actorId |-> "0xA11cE", role |-> "employer"],
        [token |-> "t2", actorId |-> "carol", role |-> "worker"],
        [token |-> "", actorId |-> "carol", role |-> "admin"]}

=============================================================================
