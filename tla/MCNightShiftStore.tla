-------------------------- MODULE MCNightShiftStore --------------------------
(***************************************************************************)
(* Small instances of NightShiftStore: the identifiers are interchangeable *)
(* model values; one execution policy, an offer that serves it, one over   *)
(* another transport and one whose provider lacks a capability.            *)
(***************************************************************************)
EXTENDS NightShiftStore, TLC

MCPolicy == SeedExecution["task-two"]
MCExecution == {MCPolicy}
WeakOffer ==
  [transports |-> {"http-poller"},
   providers |-> OneProvider("mock", "local-sandbox", {"text"})]

MCOffer == {SeedOffer["bid-one"], SeedOffer["bid-three"], WeakOffer}

MCSeedParty == SeedEmployers \cup SeedWorkers
MCSeedExecution == {SeedExecution[t] : t \in SeedTaskIds}
MCSeedOffer == {SeedOffer[b] : b \in SeedBidIds}

MCSymmetry ==
  Permutations(TaskId) \cup Permutations(BidId) \cup Permutations(AssignmentId)
    \cup Permutations(ReceiptId) \cup Permutations(DisputeId)
    \cup Permutations(Party) \cup Permutations(Commitment)

=============================================================================
