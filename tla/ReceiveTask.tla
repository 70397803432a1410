----------------------------- MODULE ReceiveTask -----------------------------
(***************************************************************************)
(* What the router of subscriptions and the table of transactions have in  *)
(* common: the supervisor task that owns both and the command receivers of *)
(* both, the frames it dispatches, and the budget of leases (ControlBudget)*)
(* that bounds each of the two unbounded command channels.                 *)
(***************************************************************************)
EXTENDS Naturals, Sequences, FiniteSets

CONSTANTS
  MaxPermits,  \* Semaphore::MAX_PERMITS
  Ids,         \* identifiers of the frames that arrive
  Setups       \* how the link is built and used in a behaviour: its
               \* LinkBuilder::control_capacity, and (bounds of the model) which
               \* callers take part and how many frames arrive

ASSUME SetupAssumption ==
  /\ MaxPermits \in Nat \ {0}
  /\ \A b \in Setups :
       /\ b = [control |-> b.control, callers |-> b.callers, frames |-> b.frames]
       /\ b.control \in Nat /\ b.frames \in Nat

VARIABLES
  setup,  \* what is fixed for a behaviour
  task    \* the supervisor: "running", "announced" (Closed is published),
          \* "closed" (RxDispatch::close is done), or "ended"

RxFrames == [id : Ids, echo : BOOLEAN]

\* ControlBudget::new
Capacity ==
  IF setup.control < 1 THEN 1
  ELSE IF setup.control > MaxPermits THEN MaxPermits ELSE setup.control

\* ControlBudget::acquire, when "leased" is what the leases taken so far belong to.
Admits(leased) == Cardinality(leased) < Capacity

TaskTypeOK == setup \in Setups /\ task \in {"running", "announced", "closed", "ended"}

TaskInit == setup \in Setups /\ task = "running"

\* The receiver of the commands is dropped with the task: a send then fails.
Reachable == task # "ended"

\* A command is taken by the select only while the loop runs.
Selecting == task = "running"

\* apply_input publishes Closed, or a guard does; the loop comes to its end.
Announce == task = "running" /\ task' = "announced" /\ UNCHANGED setup

\* receive.close(), at the three places that leave the loop.
CloseReceive == task = "announced" /\ task' = "closed" /\ UNCHANGED setup

\* The task returns, or it panics anywhere before: its locals are dropped.
EndTask == task # "ended" /\ task' = "ended" /\ UNCHANGED setup
=============================================================================
