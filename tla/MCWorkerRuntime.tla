--------------------------- MODULE MCWorkerRuntime ---------------------------
(***************************************************************************)
(* Small instances of WorkerRuntime: one worker, whose bids and whose      *)
(* first process serve the execution policy, and a second process of the   *)
(* same worker with a catalog that does not.                               *)
(***************************************************************************)
EXTENDS WorkerRuntime, TLC

CONSTANTS p1, p2, w1, w2, x2

MCPolicy == SeedExecution["task-two"]
MCExecution == {MCPolicy}
MCOffer == {SeedOffer["bid-three"]}

WeakCatalog ==
  [transports |-> {"http-poller"},
   providers |-> OneProvider("mock", "local-sandbox", {"text"})]

MCWorkerId == [p \in Process |-> w1]
MCCatalog == [p \in Process |-> IF p = p1 THEN SeedOffer["bid-three"] ELSE WeakCatalog]

MCSymmetry ==
  Permutations(TaskId) \cup Permutations(BidId) \cup Permutations(AssignmentId)
    \cup Permutations(ReceiptId)

=============================================================================
