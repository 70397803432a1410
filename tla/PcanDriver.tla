------------------------------ MODULE PcanDriver ------------------------------
(***************************************************************************)
(* External: the PCAN-Basic driver of one hardware channel, as pcan-basic  *)
(* calls it and as its tests' double (tests/support/pcan_mock.c) counts    *)
(* the calls.  It knows the open that initialized the handle, queues what  *)
(* the bus delivers, and raises an event for each arrival.                 *)
(***************************************************************************)
EXTENDS Naturals, Sequences, FiniteSets

CONSTANTS
  MaxOpens,     \* bound: opens of the factory
  MaxMessages,  \* bound: messages the bus delivers to an open
  Setups        \* how the channel is configured, and what runs it, in a behaviour

ASSUME DriverAssumption ==
  /\ MaxOpens \in Nat \ {0} /\ MaxMessages \in Nat
  /\ \A b \in Setups :
       /\ b.platform \in {"event", "poll", "windows"}
       /\ b.policy \in {"Backpressure", "DropOnFull"}
       /\ b.capacity \in Nat /\ b.workers \in Nat \ {0}
       /\ b.kinds \subseteq {"event", "odd", "fail"}
       /\ b.opens \in 1..MaxOpens /\ b.messages \in 0..MaxMessages

VARIABLES
  setup,    \* platform: the RxSource that RxSource::new chose; policy, capacity:
            \* RxThreadPolicy and rx_queue_capacity; workers: threads of the runtime;
            \* kinds: what the bus delivers; bounds of the model: how many opens are
            \* asked for, messages per open, and the callers that take part
  handle,   \* the open whose CAN_Initialize holds the channel, or 0
  hw,       \* the driver's receive queue
  signal,   \* the receive event is raised and nobody has taken it
  arrived,  \* messages queued since CAN_Initialize
  stray     \* calls made on a handle that was not initialized by the caller

driverVars == <<setup, handle, hw, signal, arrived, stray>>

Opens == 1..MaxOpens

\* What read_one makes of a message: an event (a frame, a status), a failure of the
\* driver, or nothing at all ("odd": neither metadata it reads nor a frame it accepts).
Messages == [kind : {"event", "odd", "fail"}, number : 1..MaxMessages]

DriverTypeOK ==
  /\ setup \in Setups
  /\ handle \in Opens \cup {0}
  /\ hw \in Seq(Messages)
  /\ signal \in BOOLEAN
  /\ arrived \in 0..MaxMessages
  /\ stray \subseteq {"CAN_Initialize", "CAN_Uninitialize", "CAN_Read",
                      "send", "status", "set_filter"}

DriverInit ==
  /\ setup \in Setups
  /\ handle = 0 /\ hw = <<>> /\ signal = FALSE
  /\ arrived = 0 /\ stray = {}

\* A message of the bus; "listens" when someone waits for the receive event.
Arrive(kind, listens) ==
  /\ handle # 0 /\ arrived < setup.messages /\ kind \in setup.kinds
  /\ arrived' = arrived + 1
  /\ hw' = Append(hw, [kind |-> kind, number |-> arrived + 1])
  /\ signal' = (signal \/ listens)
  /\ UNCHANGED <<setup, handle, stray>>

Reached(o, op) == stray' = IF handle = o THEN stray ELSE stray \cup {op}

\* CAN_Initialize: the driver refuses a channel that is held, and may refuse any.
Initialize(o, accepted) ==
  /\ accepted => handle = 0
  /\ handle' = IF accepted THEN o ELSE handle
  /\ stray' = IF handle = 0 THEN stray ELSE stray \cup {"CAN_Initialize"}
  /\ hw' = <<>> /\ signal' = FALSE /\ arrived' = 0
  /\ UNCHANGED setup

\* CAN_Uninitialize; "clean" when the caller has let go of everything it registered.
Uninitialize(o, clean) ==
  /\ handle' = 0 /\ hw' = <<>> /\ signal' = FALSE /\ arrived' = 0
  /\ stray' = IF handle \in {0, o} /\ clean THEN stray
              ELSE stray \cup {"CAN_Uninitialize"}
  /\ UNCHANGED setup

\* read_one: what CAN_Read or CAN_ReadFD returned, and the queue it leaves.
ReadOutcome ==
  IF hw = <<>> \/ Head(hw).kind = "odd" THEN "Empty" ELSE Head(hw).kind

ReadOne(o) ==
  /\ hw' = IF hw = <<>> THEN hw ELSE Tail(hw)
  /\ Reached(o, "CAN_Read")
=============================================================================
