---------------------------- MODULE LinkChannels ----------------------------
(***************************************************************************)
(* What the tasks of one Link share (SharedRuntime and the channels made   *)
(* by supervisor::spawn): three watch channels, the supervisor's bounded   *)
(* command queue, and the transports the factory has opened.               *)
(*                                                                         *)
(* A tokio watch keeps the latest value and a version.  A receiver's       *)
(* changed() returns once the version differs from the one it has seen,    *)
(* and marks it seen; borrow() reads the value and marks nothing.  For the *)
(* one receiver that matters here the version is the flag "unseen".        *)
(***************************************************************************)
EXTENDS LinkMachine, FiniteSets

CONSTANTS
  MaxOpens,     \* bound: how many transports the factory can open
  QueueBound,   \* capacity of the supervisor's command channel (64 in the code)
  Policies,     \* the PendingTxPolicy values the behaviours range over
  Closers,      \* clients that may call Link::close
  Filters,      \* hardware filters
  Rejected,     \* the filters every transport refuses
  Asked,        \* the filters set_hardware_filter is called with
  Handles,      \* the kinds of handle that exist at first
  Droppable     \* those the application may let go

ASSUME ChannelsAssumption ==
  /\ MaxOpens \in Nat
  /\ QueueBound \in Nat \ {0}
  /\ Policies \subseteq {"Hold", "FailFast", "DropAll"}
  /\ Rejected \subseteq Filters
  /\ Asked \subseteq Filters
  /\ Handles \subseteq {"link", "subscription", "pending"}
  /\ Droppable \subseteq Handles

VARIABLES
  policy,          \* RuntimeConfig.pending_policy, fixed at build
  linkState,       \* watch<LinkState>
  stateUnseen,     \* the supervisor's shutdown_state receiver has not seen it
  gate,            \* watch<TxGate>
  gateUnseen,      \* the tx worker has not seen it
  transportWatch,  \* watch<Option<Arc<T>>>, None is 0
  transportUnseen, \* the tx worker has not seen it
  commands,        \* mpsc<SupervisorCommand>
  tstate,          \* life of each transport
  supAlive,        \* the supervisor, and with it the command receiver, exists
  txAlive,         \* the tx worker, and with it its two watch receivers, exists
  cyclicAlive,     \* the scheduler, and with it its state receiver, exists
  cyclicClosed,    \* CyclicCommand::Close was sent to the scheduler
  handles          \* kinds of handle the application still holds

stateWatch  == <<linkState, stateUnseen>>
gateWatch   == <<gate, gateUnseen>>
txWatch     == <<transportWatch, transportUnseen>>
tasks       == <<supAlive, txAlive, cyclicAlive, cyclicClosed>>
channelVars == <<policy, stateWatch, gateWatch, txWatch, commands, tstate, tasks, handles>>

Transports == 1..MaxOpens
None == 0

\* "from" is the transport whose send failed: the code does not carry it.
TxFault(k, t)    == [cmd |-> "TxFault", kind |-> k, from |-> t]
CloseRequest(c)  == [cmd |-> "Close", who |-> c]
FilterRequest(f) == [cmd |-> "SetHardwareFilter", filter |-> f]

Commands == {TxFault(k, t) : k \in {"Fatal", "Permanent"}, t \in Transports}
              \cup {CloseRequest(c) : c \in Closers}
              \cup {FilterRequest(f) : f \in Asked}

SharedTypeOK ==
  /\ policy \in Policies
  /\ linkState \in LinkStates
  /\ gate \in TxGates
  /\ gateUnseen \in BOOLEAN
  /\ transportWatch \in Transports \cup {None}
  /\ transportUnseen \in BOOLEAN
  /\ commands \in Seq(Commands)
  /\ Len(commands) <= QueueBound
  /\ tstate \in [Transports -> {"unopened", "open", "closing", "closed"}]
  /\ supAlive \in BOOLEAN /\ txAlive \in BOOLEAN
  /\ cyclicAlive \in BOOLEAN /\ cyclicClosed \in BOOLEAN
  /\ handles \subseteq Handles

ChannelTypeOK == SharedTypeOK /\ stateUnseen \in BOOLEAN

ChannelInit ==
  /\ policy \in Policies
  /\ linkState = Disconnected
  /\ stateUnseen = FALSE
  /\ gate = "Hold"
  /\ gateUnseen = FALSE
  /\ transportWatch = None
  /\ transportUnseen = FALSE
  /\ commands = <<>>
  /\ tstate = [t \in Transports |-> "unopened"]
  /\ supAlive = TRUE /\ txAlive = TRUE
  /\ cyclicAlive = TRUE /\ cyclicClosed = FALSE
  /\ handles = Handles

(* watch::Sender::send: without a receiver it fails and keeps the old value. *)

PublishState(s) == linkState' = s /\ stateUnseen' = TRUE

PublishGate(g) ==
  IF txAlive THEN gate' = g /\ gateUnseen' = TRUE ELSE UNCHANGED gateWatch

PublishTransport(t) ==
  IF txAlive THEN transportWatch' = t /\ transportUnseen' = TRUE ELSE UNCHANGED txWatch

\* ShutdownGuard::drop of a fatal worker; "receivers" of the state watch remain or not.
FatalGuard(receivers) ==
  /\ PublishGate("FailAll")
  /\ IF receivers THEN PublishState(Closed) ELSE UNCHANGED stateWatch
  /\ cyclicClosed' = TRUE

-----------------------------------------------------------------------------
\* The gate is Open only while a transport is published, whatever task is
\* lost: the tx worker counts on it to find one after it reads the gate.
GateHasTransport == gate = "Open" => transportWatch # None
=============================================================================
