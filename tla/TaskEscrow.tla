----------------------------- MODULE TaskEscrow -----------------------------
(***************************************************************************)
(* The public lifecycle of one task as the Compact contract keeps it       *)
(* (contracts/compact/src/NightShiftTaskEscrow.compact): one action per    *)
(* exported circuit.  It is also the abstract specification of a task in   *)
(* the API's store; NightShiftStore implements one escrow per task.        *)
(*                                                                         *)
(* A caller proves who it is with a secret key; the ledger only holds keys *)
(* derived from it, under a different domain for owners and for workers.   *)
(* The derivation is a hash and is modelled as a free constructor.         *)
(*                                                                         *)
(* A definition marked as a slip is not part of the model: it is the       *)
(* definition after it with one plausible bug.                             *)
(***************************************************************************)
EXTENDS Integers

CONSTANTS
  Party,              \* holders of secret keys
  TaskCommitment, RewardCommitment, BidCommitment, ReceiptCommitment,
  MaxSequence         \* bound on the number of circuit calls

VARIABLES
  phase, sequence,
  ownerKey, workerKey,
  taskCommitment, rewardCommitment, winningBidCommitment, receiptCommitment

commitments == <<taskCommitment, rewardCommitment, winningBidCommitment, receiptCommitment>>

vars == <<phase, sequence, ownerKey, workerKey, commitments>>

TaskPhase == {"UNINITIALIZED", "OPEN", "ASSIGNED", "SUBMITTED",
              "SETTLED", "DISPUTED", "CANCELLED"}

DeriveOwnerKey(p)  == <<"nightshift:owner", p>>
DeriveWorkerKey(p) == <<"nightshift:worker", p>>

OwnerKeys  == {DeriveOwnerKey(p) : p \in Party}
WorkerKeys == {DeriveWorkerKey(p) : p \in Party}

(* What a cleared field holds: nobody's key, no task, no bid, no receipt.  *)
NoOwner   == <<"nightshift:none:owner">>
NoWorker  == <<"nightshift:none:worker">>
NoTask    == "nightshift:none:task"
NoReward  == "nightshift:none:reward"
NoBid     == "nightshift:none:bid"
NoReceipt == <<"nightshift:none:receipt">>

ASSUME EscrowAssumption == MaxSequence \in Nat \ {0}

(* The arguments of the circuits are any 32 bytes: no circuit checks that a*)
(* key is a worker's, or that a digest is not the word for none.           *)
AnyTask    == TaskCommitment \cup {NoTask}
AnyReward  == RewardCommitment \cup {NoReward}
AnyBid     == BidCommitment \cup {NoBid}
AnyReceipt == ReceiptCommitment \cup {NoReceipt}
AnyKey     == OwnerKeys \cup WorkerKeys \cup {NoWorker}

TypeOK ==
  /\ phase \in TaskPhase
  /\ sequence \in 1..MaxSequence
  /\ ownerKey \in OwnerKeys \cup {NoOwner}
  /\ workerKey \in AnyKey
  /\ taskCommitment \in AnyTask
  /\ rewardCommitment \in AnyReward
  /\ winningBidCommitment \in AnyBid
  /\ receiptCommitment \in AnyReceipt

(* The constructor. *)
Init ==
  /\ phase = "UNINITIALIZED"
  /\ sequence = 1
  /\ ownerKey = NoOwner
  /\ workerKey = NoWorker
  /\ taskCommitment = NoTask
  /\ rewardCommitment = NoReward
  /\ winningBidCommitment = NoBid
  /\ receiptCommitment = NoReceipt

Increment ==
  /\ sequence < MaxSequence
  /\ sequence' = sequence + 1

AssertOwner(caller) == ownerKey = DeriveOwnerKey(caller)
AssertSelectedWorker(caller) == workerKey = DeriveWorkerKey(caller)

ClearSelection ==
  /\ workerKey' = NoWorker
  /\ winningBidCommitment' = NoBid
  /\ receiptCommitment' = NoReceipt

-----------------------------------------------------------------------------
Recreate(caller, nextTask, nextReward) ==   \* slip: over an open task too
  /\ phase \in {"UNINITIALIZED", "OPEN", "CANCELLED"}
  /\ ownerKey' = DeriveOwnerKey(caller)
  /\ taskCommitment' = nextTask
  /\ rewardCommitment' = nextReward
  /\ ClearSelection
  /\ phase' = "OPEN"
  /\ Increment

(* Anyone may create, and create again after a cancellation. *)
CreateTask(caller, nextTask, nextReward) ==
  /\ phase \in {"UNINITIALIZED", "CANCELLED"}
  /\ ownerKey' = DeriveOwnerKey(caller)
  /\ taskCommitment' = nextTask
  /\ rewardCommitment' = nextReward
  /\ ClearSelection
  /\ phase' = "OPEN"
  /\ Increment

(* nextWorkerKey may be a key that nobody can prove to hold.               *)
SelectBid(caller, nextBid, nextWorkerKey) ==
  /\ phase = "OPEN"
  /\ AssertOwner(caller)
  /\ winningBidCommitment' = nextBid
  /\ workerKey' = nextWorkerKey
  /\ receiptCommitment' = NoReceipt
  /\ phase' = "ASSIGNED"
  /\ Increment
  /\ UNCHANGED <<ownerKey, taskCommitment, rewardCommitment>>

SubmitReceipt(caller, nextReceipt) ==
  /\ phase = "ASSIGNED"
  /\ AssertSelectedWorker(caller)
  /\ receiptCommitment' = nextReceipt
  /\ phase' = "SUBMITTED"
  /\ Increment
  /\ UNCHANGED <<ownerKey, workerKey, taskCommitment, rewardCommitment, winningBidCommitment>>

SettleUndelivered(caller) ==   \* slip: from ASSIGNED as well
  /\ phase \in {"ASSIGNED", "SUBMITTED"}
  /\ AssertOwner(caller)
  /\ phase' = "SETTLED"
  /\ Increment
  /\ UNCHANGED <<ownerKey, workerKey, commitments>>

AcceptReceiptAndSettle(caller) ==
  /\ phase = "SUBMITTED"
  /\ AssertOwner(caller)
  /\ phase' = "SETTLED"
  /\ Increment
  /\ UNCHANGED <<ownerKey, workerKey, commitments>>

RaiseDisputeEarly(caller) ==   \* slip: before a bid is selected too
  /\ AssertOwner(caller) \/ AssertSelectedWorker(caller)
  /\ phase \in {"OPEN", "ASSIGNED", "SUBMITTED"}
  /\ phase' = "DISPUTED"
  /\ Increment
  /\ UNCHANGED <<ownerKey, workerKey, commitments>>

RaiseDispute(caller) ==
  /\ AssertOwner(caller) \/ AssertSelectedWorker(caller)
  /\ phase \in {"ASSIGNED", "SUBMITTED"}
  /\ phase' = "DISPUTED"
  /\ Increment
  /\ UNCHANGED <<ownerKey, workerKey, commitments>>

CancelOpenTask(caller) ==
  /\ phase = "OPEN"
  /\ AssertOwner(caller)
  /\ ClearSelection
  /\ phase' = "CANCELLED"
  /\ Increment
  /\ UNCHANGED <<ownerKey, taskCommitment, rewardCommitment>>

Next ==
  \E caller \in Party :
    \/ \E t \in AnyTask, r \in AnyReward : CreateTask(caller, t, r)
    \/ \E b \in AnyBid, k \in AnyKey : SelectBid(caller, b, k)
    \/ \E r \in AnyReceipt : SubmitReceipt(caller, r)
    \/ AcceptReceiptAndSettle(caller)
    \/ RaiseDispute(caller)
    \/ CancelOpenTask(caller)

Spec == Init /\ [][Next]_vars

-----------------------------------------------------------------------------
Selected  == {"ASSIGNED", "SUBMITTED", "SETTLED", "DISPUTED"}
Delivered == {"SUBMITTED", "SETTLED"}

(* The ledger fields fit the phase whatever keys and digests the circuits  *)
(* are called with.  Nothing of a selection shows outside of one, also when*)
(* a cancelled task has been created again; no receipt shows before the    *)
(* delivery; and a task is delivered or settled only with the key of       *)
(* somebody who could prove to hold it: a selection of a key that nobody   *)
(* derives as a worker (compact:93) never leads to a payout.               *)
SelectionFitsPhase ==
  /\ phase \notin Selected =>
       workerKey = NoWorker /\ winningBidCommitment = NoBid /\ receiptCommitment = NoReceipt
  /\ phase = "ASSIGNED" => receiptCommitment = NoReceipt
  /\ phase \in Delivered => workerKey \in WorkerKeys

(* The sequence counts at least the calls a phase needs: settling takes a  *)
(* creation, a selection, a submission and an acceptance, and no circuit   *)
(* lets a caller skip one of them.                                         *)
LeastSequence ==
  [UNINITIALIZED |-> 1, OPEN |-> 2, CANCELLED |-> 3, ASSIGNED |-> 3,
   SUBMITTED |-> 4, DISPUTED |-> 4, SETTLED |-> 5]

NoStepSkipped == sequence >= LeastSequence[phase]

(* Once a task is open its terms belong to its owner until it is cancelled:*)
(* no circuit replaces the owner, the task or the reward in between.  The  *)
(* selected worker and bid stay for good, and so does the receipt once it  *)
(* is submitted: what the owner accepts is what the worker delivered.  Of  *)
(* a dispute and a settlement that race on a delivery the first is final:  *)
(* neither the payout nor its freeze can be taken back.                    *)
KeepsTerms ==
  /\ phase \notin {"SETTLED", "DISPUTED"}
  /\ phase \notin {"UNINITIALIZED", "CANCELLED"} =>
       UNCHANGED <<ownerKey, taskCommitment, rewardCommitment>>
  /\ phase \in Selected => UNCHANGED <<workerKey, winningBidCommitment>>
  /\ phase = "SUBMITTED" => UNCHANGED receiptCommitment

TermsAreFixed == [][KeepsTerms]_vars

=============================================================================
