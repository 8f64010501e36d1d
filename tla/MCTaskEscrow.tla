---------------------------- MODULE MCTaskEscrow -----------------------------
(***************************************************************************)
(* The contract and its simulation for TLC, side by side: a behaviour is   *)
(* one of the contract while the simulation stands still, or the reverse.  *)
(***************************************************************************)
EXTENDS TaskEscrow, EscrowSimulation

OnlyContract == events = <<>> /\ Next /\ UNCHANGED simVars
OnlySimulation == sequence = 1 /\ SimNext /\ UNCHANGED vars

MCInit == Init /\ SimInit

MCSpec == MCInit /\ [][OnlyContract \/ OnlySimulation]_<<vars, simVars>>

=============================================================================
