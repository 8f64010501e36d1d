-------------------------- MODULE TaskEscrowProofs --------------------------
(***************************************************************************)
(* The properties of the escrow contract for every set of parties and      *)
(* commitments and every number of calls.                                  *)
(***************************************************************************)
EXTENDS TaskEscrow, EscrowSimulation, TLAPS

IInv == TypeOK /\ SelectionFitsPhase /\ NoStepSkipped

LEMMA InitHolds == Init => IInv
<1> SUFFICES ASSUME Init PROVE IInv
  OBVIOUS
<1>1. TypeOK
  BY EscrowAssumption DEF Init, TypeOK, TaskPhase, AnyKey, AnyTask, AnyReward, AnyBid, AnyReceipt
<1>2. SelectionFitsPhase /\ NoStepSkipped
  BY DEF Init, SelectionFitsPhase, NoStepSkipped, LeastSequence, Selected, Delivered
<1>3. QED
  BY <1>1, <1>2 DEF IInv

LEMMA NextPreserves == IInv /\ [Next]_vars => IInv'
<1> SUFFICES ASSUME IInv, [Next]_vars PROVE IInv'
  OBVIOUS
<1> USE DEF IInv, TypeOK, TaskPhase, SelectionFitsPhase, NoStepSkipped, LeastSequence,
            Selected, Delivered, Increment
<1>1. ASSUME NEW p \in Party, NEW t \in AnyTask, NEW r \in AnyReward,
             CreateTask(p, t, r)
      PROVE  IInv'
  BY <1>1, EscrowAssumption
     DEF CreateTask, ClearSelection, OwnerKeys, AnyKey, AnyBid, AnyReceipt
<1>2. ASSUME NEW p \in Party, NEW b \in AnyBid, NEW k \in AnyKey,
             SelectBid(p, b, k)
      PROVE  IInv'
  BY <1>2, EscrowAssumption DEF SelectBid, AnyReceipt
<1>3. ASSUME NEW p \in Party, NEW r \in AnyReceipt, SubmitReceipt(p, r) PROVE IInv'
  BY <1>3, EscrowAssumption DEF SubmitReceipt, AssertSelectedWorker, WorkerKeys
<1>4. ASSUME NEW p \in Party, AcceptReceiptAndSettle(p) PROVE IInv'
  BY <1>4, EscrowAssumption DEF AcceptReceiptAndSettle, commitments
<1>5. ASSUME NEW p \in Party, RaiseDispute(p) PROVE IInv'
  BY <1>5, EscrowAssumption DEF RaiseDispute, commitments
<1>6. ASSUME NEW p \in Party, CancelOpenTask(p) PROVE IInv'
  BY <1>6, EscrowAssumption DEF CancelOpenTask, ClearSelection, AnyKey, AnyBid, AnyReceipt
<1>7. CASE UNCHANGED vars
  BY <1>7 DEF vars, commitments
<1>8. QED
  BY <1>1, <1>2, <1>3, <1>4, <1>5, <1>6, <1>7 DEF Next

LEMMA Inductive == Spec => []IInv
BY InitHolds, NextPreserves, PTL DEF Spec

LEMMA TypeCorrect == Spec => []TypeOK
BY Inductive, PTL DEF IInv

(* Whatever keys and digests the circuits are called with, nothing of a    *)
(* selection shows outside of one, and what is settled was delivered by    *)
(* who holds the selected worker's key.                                    *)
THEOREM SelectionCorrect == Spec => []SelectionFitsPhase
BY Inductive, PTL DEF IInv

(* No sequence of calls reaches a phase in fewer circuits than it takes.   *)
THEOREM NoShortcut == Spec => []NoStepSkipped
BY Inductive, PTL DEF IInv

(* Nobody replaces the owner, the terms, the selection or the delivered    *)
(* receipt of a task behind its parties' back, and nothing follows a       *)
(* settlement or a dispute.                                                *)
THEOREM TermsCannotBeReplaced == Spec => TermsAreFixed
<1>1. ASSUME Next PROVE KeepsTerms
  <2> USE DEF KeepsTerms, Selected
  <2>1. ASSUME NEW p \in Party, NEW t \in AnyTask, NEW r \in AnyReward,
               CreateTask(p, t, r)
        PROVE  KeepsTerms
    BY <2>1 DEF CreateTask
  <2>2. ASSUME NEW p \in Party, NEW b \in AnyBid, NEW k \in AnyKey,
               SelectBid(p, b, k)
        PROVE  KeepsTerms
    BY <2>2 DEF SelectBid
  <2>3. ASSUME NEW p \in Party, NEW r \in AnyReceipt, SubmitReceipt(p, r)
        PROVE  KeepsTerms
    BY <2>3 DEF SubmitReceipt
  <2>4. ASSUME NEW p \in Party, AcceptReceiptAndSettle(p) \/ RaiseDispute(p)
        PROVE  KeepsTerms
    BY <2>4 DEF AcceptReceiptAndSettle, RaiseDispute, commitments
  <2>5. ASSUME NEW p \in Party, CancelOpenTask(p) PROVE KeepsTerms
    BY <2>5 DEF CancelOpenTask
  <2>6. QED
    BY <1>1, <2>1, <2>2, <2>3, <2>4, <2>5 DEF Next
<1>2. [Next]_vars => [KeepsTerms]_vars
  BY <1>1
<1>3. QED
  BY <1>2, PTL DEF Spec, TermsAreFixed

-----------------------------------------------------------------------------
(* What the refinement needs to know of the simulation's machine.          *)
Methods == {"create_task", "select_bid", "submit_receipt", "accept_and_settle",
            "raise_dispute", "cancel_open_task"}

Machines ==
  [phase : TaskPhase, sequence : Nat,
   owner_key : Key \cup {"nightshift:none:owner"},
   worker_key : SimWorker,
   task_commitment : SimTask,
   reward_commitment : SimReward,
   winning_bid_commitment : SimBid,
   receipt_commitment : SimReceipt]

MachineOK ==
  /\ machine \in Machines
  /\ events \in Seq(Methods)
  /\ machine.sequence = Len(events) + 1

LEMMA NoneIsAnArgument ==
  /\ "nightshift:none:task" \in SimTask
  /\ "nightshift:none:reward" \in SimReward
  /\ "nightshift:none:bid" \in SimBid
  /\ "nightshift:none:receipt" \in SimReceipt
  /\ "nightshift:none:worker" \in SimWorker
BY DEF SimTask, SimReward, SimBid, SimReceipt, SimWorker

LEMMA MachineInit == SimInit => MachineOK
BY NoneIsAnArgument DEF SimInit, MachineOK, Machines, TaskPhase

LEMMA BumpKeepsMachine ==
  ASSUME MachineOK, NEW event \in Methods, NEW next \in Machines,
         next.sequence = machine.sequence,
         machine' = [next EXCEPT !.sequence = @ + 1], events' = Append(events, event)
  PROVE  MachineOK'
<1>1. machine' \in Machines /\ machine'.sequence = next.sequence + 1
  BY DEF Machines
<1>2. events' \in Seq(Methods) /\ Len(events') = Len(events) + 1 /\ Len(events) \in Nat
  BY DEF MachineOK
<1>3. QED
  BY <1>1, <1>2 DEF MachineOK

LEMMA MachineNext == MachineOK /\ [SimNext]_simVars => MachineOK'
<1> SUFFICES ASSUME MachineOK, [SimNext]_simVars PROVE MachineOK'
  OBVIOUS
<1>1. machine \in Machines
  BY DEF MachineOK
<1>2. ASSUME NEW k \in Key, NEW t \in SimTask,
             NEW r \in SimReward, create_task(k, t, r)
      PROVE  MachineOK'
  <2> DEFINE next == [Cleared(machine) EXCEPT !.owner_key = k, !.task_commitment = t,
                                      !.reward_commitment = r, !.phase = "OPEN"]
  <2>1. next \in Machines /\ next.sequence = machine.sequence
    BY <1>1, NoneIsAnArgument DEF Cleared, Machines, TaskPhase
  <2>2. Bump("create_task", next)
    BY <1>2 DEF create_task
  <2> HIDE DEF next
  <2>3. QED
    BY <2>1, <2>2, BumpKeepsMachine DEF Bump, Methods
<1>3. ASSUME NEW k \in Key, NEW b \in SimBid,
             NEW w \in SimWorker, select_bid(k, b, w)
      PROVE  MachineOK'
  <2> DEFINE next == [machine EXCEPT !.winning_bid_commitment = b, !.worker_key = w,
                             !.receipt_commitment = "nightshift:none:receipt",
                             !.phase = "ASSIGNED"]
  <2>1. next \in Machines /\ next.sequence = machine.sequence
    BY <1>1, NoneIsAnArgument DEF Cleared, Machines, TaskPhase
  <2>2. Bump("select_bid", next)
    BY <1>3 DEF select_bid
  <2> HIDE DEF next
  <2>3. QED
    BY <2>1, <2>2, BumpKeepsMachine DEF Bump, Methods
<1>4. ASSUME NEW k \in Key, NEW r \in SimReceipt, submit_receipt(k, r)
      PROVE  MachineOK'
  <2> DEFINE next == [machine EXCEPT !.receipt_commitment = r, !.phase = "SUBMITTED"]
  <2>1. next \in Machines /\ next.sequence = machine.sequence
    BY <1>1, NoneIsAnArgument DEF Cleared, Machines, TaskPhase
  <2>2. Bump("submit_receipt", next)
    BY <1>4 DEF submit_receipt
  <2> HIDE DEF next
  <2>3. QED
    BY <2>1, <2>2, BumpKeepsMachine DEF Bump, Methods
<1>5. ASSUME NEW k \in Key, accept_and_settle(k)
      PROVE  MachineOK'
  <2> DEFINE next == [machine EXCEPT !.phase = "SETTLED"]
  <2>1. next \in Machines /\ next.sequence = machine.sequence
    BY <1>1, NoneIsAnArgument DEF Cleared, Machines, TaskPhase
  <2>2. Bump("accept_and_settle", next)
    BY <1>5 DEF accept_and_settle
  <2> HIDE DEF next
  <2>3. QED
    BY <2>1, <2>2, BumpKeepsMachine DEF Bump, Methods
<1>6. ASSUME NEW k \in Key, raise_dispute(k)
      PROVE  MachineOK'
  <2> DEFINE next == [machine EXCEPT !.phase = "DISPUTED"]
  <2>1. next \in Machines /\ next.sequence = machine.sequence
    BY <1>1, NoneIsAnArgument DEF Cleared, Machines, TaskPhase
  <2>2. Bump("raise_dispute", next)
    BY <1>6 DEF raise_dispute
  <2> HIDE DEF next
  <2>3. QED
    BY <2>1, <2>2, BumpKeepsMachine DEF Bump, Methods
<1>7. ASSUME NEW k \in Key, cancel_open_task(k)
      PROVE  MachineOK'
  <2> DEFINE next == [Cleared(machine) EXCEPT !.phase = "CANCELLED"]
  <2>1. next \in Machines /\ next.sequence = machine.sequence
    BY <1>1, NoneIsAnArgument DEF Cleared, Machines, TaskPhase
  <2>2. Bump("cancel_open_task", next)
    BY <1>7 DEF cancel_open_task
  <2> HIDE DEF next
  <2>3. QED
    BY <2>1, <2>2, BumpKeepsMachine DEF Bump, Methods
<1>8. CASE UNCHANGED simVars
  BY <1>8 DEF simVars, MachineOK
<1>9. QED
  BY <1>2, <1>3, <1>4, <1>5, <1>6, <1>7, <1>8 DEF SimNext

(* Every method does to the ledger what the circuit it stands in for does. *)
KeyOf(w) == IF w \in Key THEN <<"nightshift:worker", w>> ELSE <<w>>

LEMMA MethodIsCircuit ==
  ASSUME MachineOK, SimNext
  PROVE  Contract!Next
<1> USE SimulationAssumption
    DEF MachineOK, Machines, Bump, Cleared, Contract!Increment, Contract!ClearSelection,
        Contract!AssertOwner, Contract!AssertSelectedWorker, Contract!DeriveOwnerKey,
        Contract!DeriveWorkerKey, Contract!NoWorker, Contract!NoBid, Contract!NoReceipt,
        Contract!commitments
<1>1. ASSUME NEW k \in Key, NEW t \in SimTask,
             NEW r \in SimReward, create_task(k, t, r)
      PROVE  Contract!CreateTask(k, t, r)
  BY <1>1 DEF create_task, Contract!CreateTask
<1>2. ASSUME NEW k \in Key, NEW b \in SimBid,
             NEW w \in SimWorker, select_bid(k, b, w)
      PROVE  Contract!SelectBid(k, b, KeyOf(w))
  BY <1>2 DEF select_bid, Contract!SelectBid, KeyOf
<1>3. ASSUME NEW k \in Key, NEW r \in SimReceipt, submit_receipt(k, r)
      PROVE  Contract!SubmitReceipt(k, <<r>>)
  BY <1>3 DEF submit_receipt, Contract!SubmitReceipt
<1>4. ASSUME NEW k \in Key, accept_and_settle(k) PROVE Contract!AcceptReceiptAndSettle(k)
  BY <1>4 DEF accept_and_settle, Contract!AcceptReceiptAndSettle
<1>5. ASSUME NEW k \in Key, raise_dispute(k) PROVE Contract!RaiseDispute(k)
  BY <1>5 DEF raise_dispute, Contract!RaiseDispute
<1>6. ASSUME NEW k \in Key, cancel_open_task(k) PROVE Contract!CancelOpenTask(k)
  BY <1>6 DEF cancel_open_task, Contract!CancelOpenTask
<1>7. \A w \in SimWorker : KeyOf(w) \in Contract!AnyKey
  BY DEF SimWorker, KeyOf, Contract!AnyKey, Contract!WorkerKeys
<1>8. \A r \in SimReceipt : <<r>> \in Contract!AnyReceipt
  BY DEF SimReceipt, Contract!AnyReceipt
<1>9. /\ SimTask = Contract!AnyTask
      /\ SimReward = Contract!AnyReward
      /\ SimBid = Contract!AnyBid
  BY DEF SimTask, SimReward, SimBid, Contract!AnyTask, Contract!AnyReward, Contract!AnyBid, Contract!NoTask,
         Contract!NoReward
<1>10. QED
  BY <1>1, <1>2, <1>3, <1>4, <1>5, <1>6, <1>7, <1>8, <1>9 DEF SimNext, Contract!Next

(* The simulation implements the contract, for every set of keys and       *)
(* commitments and every number of calls (simulate_state_machine.py).      *)
THEOREM SimulationImplementsContract == SimSpec => ImplementsContract
<1>1. SimSpec => []MachineOK
  BY MachineInit, MachineNext, PTL DEF SimSpec
<1>2. SimInit => Contract!Init
  BY SimulationAssumption
     DEF SimInit, Contract!Init, Contract!NoOwner, Contract!NoWorker, Contract!NoTask,
         Contract!NoReward, Contract!NoBid, Contract!NoReceipt
<1>3. MachineOK /\ [SimNext]_simVars => [Contract!Next]_(Contract!vars)
  <2>1. UNCHANGED simVars => UNCHANGED Contract!vars
    BY DEF simVars, Contract!vars, Contract!commitments
  <2>2. QED
    BY <2>1, MethodIsCircuit
<1>4. QED
  BY <1>1, <1>2, <1>3, PTL DEF SimSpec, ImplementsContract, Contract!Spec

=============================================================================
