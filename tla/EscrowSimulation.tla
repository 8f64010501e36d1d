-------------------------- MODULE EscrowSimulation ---------------------------
(***************************************************************************)
(* The Python simulation of the contract (contracts/compact/               *)
(* simulate_state_machine.py), which stands in for the compiled contract in*)
(* the repository's checks.  Callers are plain keys, none of them a word   *)
(* for none, which nobody derives; the other arguments are any bytes.  A   *)
(* method that raises changes nothing and is not a step.                   *)
(***************************************************************************)
EXTENDS Integers, Sequences

CONSTANTS Key, Task, Reward, Bid, Receipt,
          MaxCalls   \* bound of the model on the length of the event log

ASSUME SimulationAssumption ==
  /\ MaxCalls \in Nat \ {0}
  /\ "nightshift:none:owner" \notin Key
  /\ "nightshift:none:worker" \notin Key

(* The arguments a method takes: bytes, which may be a word for none.      *)
SimTask    == Task \cup {"nightshift:none:task"}
SimReward  == Reward \cup {"nightshift:none:reward"}
SimBid     == Bid \cup {"nightshift:none:bid"}
SimReceipt == Receipt \cup {"nightshift:none:receipt"}
SimWorker  == Key \cup {"nightshift:none:worker"}

VARIABLES machine, events

simVars == <<machine, events>>

SimInit ==
  /\ machine =
       [phase |-> "UNINITIALIZED", sequence |-> 1,
        owner_key |-> "nightshift:none:owner", worker_key |-> "nightshift:none:worker",
        task_commitment |-> "nightshift:none:task",
        reward_commitment |-> "nightshift:none:reward",
        winning_bid_commitment |-> "nightshift:none:bid",
        receipt_commitment |-> "nightshift:none:receipt"]
  /\ events = <<>>

Cleared(m) ==
  [m EXCEPT !.worker_key = "nightshift:none:worker",
            !.winning_bid_commitment = "nightshift:none:bid",
            !.receipt_commitment = "nightshift:none:receipt"]

(* A method's last lines: the next machine, counted and logged.            *)
Bump(event, next) ==
  /\ Len(events) < MaxCalls
  /\ machine' = [next EXCEPT !.sequence = @ + 1]
  /\ events' = Append(events, event)

-----------------------------------------------------------------------------
create_task(owner, task, reward) ==
  /\ machine.phase \in {"UNINITIALIZED", "CANCELLED"}
  /\ Bump("create_task",
       [Cleared(machine) EXCEPT !.owner_key = owner, !.task_commitment = task,
                                !.reward_commitment = reward, !.phase = "OPEN"])

select_bid(caller, bid, worker) ==
  /\ machine.phase = "OPEN"
  /\ caller = machine.owner_key
  /\ Bump("select_bid",
       [machine EXCEPT !.winning_bid_commitment = bid, !.worker_key = worker,
                       !.receipt_commitment = "nightshift:none:receipt",
                       !.phase = "ASSIGNED"])

submit_receipt_again(caller, receipt) ==   \* slip: replaces a submitted one
  /\ machine.phase \in {"ASSIGNED", "SUBMITTED"}
  /\ caller = machine.worker_key
  /\ Bump("submit_receipt",
       [machine EXCEPT !.receipt_commitment = receipt, !.phase = "SUBMITTED"])

submit_receipt(caller, receipt) ==
  /\ machine.phase = "ASSIGNED"
  /\ caller = machine.worker_key
  /\ Bump("submit_receipt",
       [machine EXCEPT !.receipt_commitment = receipt, !.phase = "SUBMITTED"])

accept_and_settle(caller) ==
  /\ machine.phase = "SUBMITTED"
  /\ caller = machine.owner_key
  /\ Bump("accept_and_settle", [machine EXCEPT !.phase = "SETTLED"])

raise_dispute(caller) ==
  /\ caller \in {machine.owner_key, machine.worker_key}
  /\ machine.phase \in {"ASSIGNED", "SUBMITTED"}
  /\ Bump("raise_dispute", [machine EXCEPT !.phase = "DISPUTED"])

cancel_open_task(caller) ==
  /\ machine.phase = "OPEN"
  /\ caller = machine.owner_key
  /\ Bump("cancel_open_task", [Cleared(machine) EXCEPT !.phase = "CANCELLED"])

SimNext ==
  \E caller \in Key :
    \/ \E t \in SimTask, r \in SimReward : create_task(caller, t, r)
    \/ \E b \in SimBid, k \in SimWorker : select_bid(caller, b, k)
    \/ \E r \in SimReceipt : submit_receipt(caller, r)
    \/ accept_and_settle(caller)
    \/ raise_dispute(caller)
    \/ cancel_open_task(caller)

SimSpec == SimInit /\ [][SimNext]_simVars

-----------------------------------------------------------------------------
(* A run of the machine as a run of the circuits, each called by who holds *)
(* the secret of the key.  A key stands for its holder as an owner or as a *)
(* worker, wherever it occurs.                                             *)
Contract == INSTANCE TaskEscrow WITH
  Party <- Key, TaskCommitment <- Task, RewardCommitment <- Reward,
  BidCommitment <- Bid, ReceiptCommitment <- {<<r>> : r \in Receipt},
  MaxSequence <- MaxCalls + 1,
  phase <- machine.phase, sequence <- machine.sequence,
  ownerKey <- IF machine.owner_key \in Key THEN <<"nightshift:owner", machine.owner_key>>
              ELSE <<machine.owner_key>>,
  workerKey <- IF machine.worker_key \in Key THEN <<"nightshift:worker", machine.worker_key>>
               ELSE <<machine.worker_key>>,
  taskCommitment <- machine.task_commitment,
  rewardCommitment <- machine.reward_commitment,
  winningBidCommitment <- machine.winning_bid_commitment,
  receiptCommitment <- <<machine.receipt_commitment>>

(* The machine that stands in for the compiled circuits accepts no call    *)
(* they would refuse and leaves no other ledger behind, also when it is    *)
(* created again over a cancelled life (simulate_state_machine.py:33).     *)
ImplementsContract == Contract!Spec

=============================================================================
