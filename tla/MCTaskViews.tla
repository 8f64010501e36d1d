----------------------------- MODULE MCTaskViews -----------------------------
(***************************************************************************)
(* NightShiftStore and TaskViews for TLC: two tasks without an execution   *)
(* policy between three people, every identifier interchangeable.          *)
(***************************************************************************)
EXTENDS TaskViews, TLC

MCSymmetry ==
  Permutations(TaskId) \cup Permutations(BidId) \cup Permutations(AssignmentId)
    \cup Permutations(ReceiptId) \cup Permutations(DisputeId) \cup Permutations(Party)

=============================================================================
