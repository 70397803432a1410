-------------------------- MODULE SupervisorProofs --------------------------
(***************************************************************************)
(* Proofs of what the supervisor keeps, whatever the tx worker, the        *)
(* scheduler, the clients and the transports do: for every attempt budget, *)
(* number of transports, clients and filters.                              *)
(***************************************************************************)
EXTENDS LinkSupervisor, SequenceTheorems, TLAPS

USE DEF None

-----------------------------------------------------------------------------
(* The machine                                                             *)

\* Which transition answers which input, in which state.
Transition(m, in, r) ==
  \/ /\ r = Ignore(m)
     /\ m.state = Disconnected => in.name # "Start"
     /\ m.state = Connecting => in.name \notin {"OpenSucceeded", "OpenFailed"}
     /\ m.state.name = "Backoff" => in.name # "BackoffElapsed"
  \/ m.state # Closed /\ in.name = "Close" /\ r = CloseByUser(m)
  \/ m.state = Disconnected /\ in.name = "Start" /\ r = BeginOpen(m)
  \/ m.state.name = "Backoff" /\ in.name = "BackoffElapsed" /\ r = BeginOpen(m)
  \/ m.state = Connecting /\ in.name = "OpenSucceeded" /\ r = OpenedOk(m)
  \/ m.state = Connecting /\ in.name = "OpenFailed" /\ r = OpenDenied(m)
  \/ m.state = Connecting /\ in.name = "OpenFailed" /\ r = FailOrBackoff(m)
  \/ m.state = Connected /\ \E e \in {"BusOff", "Reconnecting"} : r = ConnectedFault(m, e)
  \/ m.state = Connected /\ r = FaultDenied(m)
  \/ m.state = Connected /\ r = Result(m.state, m.attempt, <<Emit("Warning")>>)
  \/ m.state = Connected /\ r = Result(m.state, 0, <<>>)

\* The states of the link are told apart by their names.
LEMMA StatesDiffer ==
  /\ Disconnected # Connecting /\ Disconnected # Connected /\ Disconnected # Closed
  /\ Connecting # Connected /\ Connecting # Closed /\ Connected # Closed
  /\ Disconnected.name = "Disconnected" /\ Connecting.name = "Connecting"
  /\ Connected.name = "Connected" /\ Closed.name = "Closed"
BY DEF Disconnected, Connecting, Connected, Closed

\* Every step of the machine is one of the transitions.
LEMMA StepTransition ==
  ASSUME NEW m \in Machines, NEW in \in LinkInputs
  PROVE  Transition(m, in, Step(m, in))
<1>1. m.state \in {Disconnected, Connecting, Connected, Closed} \/ m.state.name = "Backoff"
  BY DEF Machines, LinkStates, Backoff
<1>2. CASE m.state = Closed
  BY <1>2, StatesDiffer DEF Step, Transition
<1>3. CASE m.state # Closed /\ in.name = "Close"
  BY <1>3, StatesDiffer DEF Step, Transition, OpenFailed
<1>4. CASE m.state = Disconnected /\ in.name # "Close"
  BY <1>4, StatesDiffer DEF Step, Transition
<1>5. CASE m.state.name = "Backoff" /\ in.name # "Close"
  BY <1>5, StatesDiffer DEF Step, Transition
<1>6. CASE m.state = Connecting /\ in.name # "Close"
  <2>1. in.name = "OpenFailed" /\ in.kind = "Permanent" => in = OpenFailed("Permanent")
    BY DEF LinkInputs, Input, OpenFailed, TransportFault
  <2> QED
    BY <1>6, <2>1, StatesDiffer DEF Step, Transition, OpenFailed
<1>7. CASE m.state = Connected /\ in.name # "Close"
  <2>1. Step(m, in) = StepConnected(m, in)
    BY <1>7, StatesDiffer DEF Step
  <2> QED
    BY <1>7, <2>1, StatesDiffer DEF StepConnected, Transition
<1> QED
  BY <1>1, <1>2, <1>3, <1>4, <1>5, <1>6, <1>7

\* A step keeps the machine and its action list in their types.
LEMMA StepTypes ==
  ASSUME NEW m \in Machines, NEW in \in LinkInputs
  PROVE  Step(m, in).machine \in Machines /\ Step(m, in).actions \in Seq(LinkActions)
<1> DEFINE r == Step(m, in)
<1> HIDE DEF r
<1> SUFFICES r.machine \in Machines /\ r.actions \in Seq(LinkActions)
  BY DEF r
<1> USE MachineAssumption DEF Result
<1>1. Transition(m, in, r)
  BY StepTransition DEF r
<1>2. /\ m.state \in LinkStates /\ m.attempt \in 0..AttemptMax
      /\ {Disconnected, Connecting, Connected, Closed} \subseteq LinkStates
  BY DEF Machines, LinkStates
<1>3. \A n \in 1..AttemptMax : Backoff(n) \in LinkStates
  BY DEF LinkStates
<1>4. \A o \in {"OpenTransport", "CloseTransport", "ArmBackoff", "CancelBackoff",
               "ArmHealthCheck", "CancelHealthCheck"} : Do(o) \in LinkActions
  BY DEF LinkActions
<1>5. \A e \in {"Connecting", "Connected", "Reconnecting", "BusOff", "Warning",
               "Closed", "Failed"} : Emit(e) \in LinkActions
  BY DEF LinkActions
<1>6. \A g \in TxGates : ApplyTxPolicy(g) \in LinkActions
  BY DEF LinkActions
<1>7. Saturate(m.attempt) \in 1..AttemptMax
  BY <1>2 DEF Saturate
<1>8. \A s \in LinkStates, n \in 0..AttemptMax : [state |-> s, attempt |-> n] \in Machines
  BY DEF Machines
<1>9. CASE r = Ignore(m)
  BY <1>9, <1>2, <1>8 DEF Ignore
<1>10. CASE r = CloseByUser(m)
  BY <1>10, <1>2, <1>4, <1>5, <1>6, <1>8 DEF CloseByUser, TxGates
<1>11. CASE r = BeginOpen(m)
  BY <1>11, <1>2, <1>4, <1>5, <1>8 DEF BeginOpen
<1>12. CASE r = OpenedOk(m)
  BY <1>12, <1>2, <1>4, <1>5, <1>6, <1>8 DEF OpenedOk, TxGates
<1>13. CASE r = OpenDenied(m)
  BY <1>13, <1>2, <1>5, <1>6, <1>8 DEF OpenDenied, TxGates
<1>14. CASE r = FailOrBackoff(m)
  BY <1>14, <1>2, <1>3, <1>4, <1>5, <1>6, <1>7, <1>8 DEF FailOrBackoff, TxGates
<1>15. CASE \E e \in {"BusOff", "Reconnecting"} : r = ConnectedFault(m, e)
  <2>1. PICK e \in {"BusOff", "Reconnecting"} : r = ConnectedFault(m, e)
    BY <1>15
  <2>2. Emit(e) \in LinkActions
    BY <1>5
  <2>3. Saturate(m.attempt) \in 0..AttemptMax
    BY <1>7
  <2>4. /\ <<Do("CancelHealthCheck"), ApplyTxPolicy("FailAll"),
             Do("CloseTransport"), Emit("Failed")>> \in Seq(LinkActions)
        /\ <<Do("CancelHealthCheck"), ApplyTxPolicy("Hold"),
             Do("CloseTransport"), Emit(e), Do("ArmBackoff")>> \in Seq(LinkActions)
    BY <2>2, <1>4, <1>5, <1>6 DEF TxGates
  <2>5. CASE Exhausted(Saturate(m.attempt))
    BY <2>1, <2>4, <2>5, <1>2, <1>8 DEF ConnectedFault
  <2>6. CASE ~Exhausted(Saturate(m.attempt))
    BY <2>1, <2>3, <2>4, <2>6, <1>3, <1>7, <1>8 DEF ConnectedFault
  <2> QED
    BY <2>5, <2>6
<1>16. CASE r = FaultDenied(m)
  BY <1>16, <1>2, <1>4, <1>5, <1>6, <1>8 DEF FaultDenied, TxGates
<1>17. CASE \/ r = Result(m.state, m.attempt, <<Emit("Warning")>>)
            \/ r = Result(m.state, 0, <<>>)
  <2>1. <<Emit("Warning")>> \in Seq(LinkActions) /\ <<>> \in Seq(LinkActions)
    BY <1>5
  <2>2. /\ [state |-> m.state, attempt |-> m.attempt] \in Machines
        /\ [state |-> m.state, attempt |-> 0] \in Machines
    BY <1>2, <1>8
  <2>3. CASE r = Result(m.state, m.attempt, <<Emit("Warning")>>)
    BY <2>1, <2>2, <2>3
  <2>4. CASE r = Result(m.state, 0, <<>>)
    BY <2>1, <2>2, <2>4
  <2> QED
    BY <1>17, <2>3, <2>4
<1> QED
  BY <1>1, <1>9, <1>10, <1>11, <1>12, <1>13, <1>14, <1>15, <1>16, <1>17 DEF Transition

-----------------------------------------------------------------------------
(* Types                                                                   *)

\* The initial states.
LEMMA InitTypes == SupervisorInit => SupervisorTypeOK
<1> SUFFICES ASSUME SupervisorInit PROVE SupervisorTypeOK
  OBVIOUS
<1> USE MachineAssumption, ChannelsAssumption DEF SupervisorInit, ChannelInit, SupInit
<1>1. /\ linkState \in LinkStates /\ gate \in TxGates
      /\ machine \in Machines
  BY DEF LinkStates, TxGates, Machines
<1>2. commands \in Seq(Commands) /\ Len(commands) <= QueueBound
  OBVIOUS
<1>3. todo \in Seq(LinkActions) /\ at \in 1..(Len(todo) + 1)
  OBVIOUS
<1>4. tstate \in [Transports -> {"unopened", "open", "closing", "closed"}]
  OBVIOUS
<1>5. closer \in [Closers -> {"idle", "requesting", "waiting", "returned"}]
  OBVIOUS
<1>6. ChannelTypeOK
  BY <1>1, <1>2, <1>4 DEF ChannelTypeOK, SharedTypeOK
<1>7. SupTypeOK
  BY <1>1, <1>3, <1>5 DEF SupTypeOK, Places, Events, NoInput
<1> QED
  BY <1>6, <1>7 DEF SupervisorTypeOK

\* A step of the machine keeps the types of what apply_input writes.
LEMMA ApplyTypes ==
  ASSUME SupervisorTypeOK, NEW in \in LinkInputs, Apply(in)
  PROVE  /\ machine' \in Machines /\ sup' \in Places
         /\ todo' \in Seq(LinkActions) /\ at' \in 1..(Len(todo') + 1)
         /\ linkState' \in LinkStates /\ stateUnseen' \in BOOLEAN
<1>1. machine \in Machines
  BY DEF SupervisorTypeOK, SupTypeOK
<1>2. Step(machine, in).machine \in Machines /\ Step(machine, in).actions \in Seq(LinkActions)
  BY <1>1, StepTypes
<1> QED
  BY <1>2 DEF Apply, PublishState, Machines, Places

\* The next action of the list has the type of its argument.
LEMMA NextAction ==
  ASSUME SupervisorTypeOK, NEW op, NextIs(op)
  PROVE  /\ at \in 1..Len(todo) /\ todo[at] \in LinkActions
         /\ at + 1 \in 1..(Len(todo) + 1)
         /\ op = "Emit" => todo[at].arg \in Events
         /\ op = "ApplyTxPolicy" => todo[at].arg \in TxGates
<1>1. todo \in Seq(LinkActions) /\ at \in 1..(Len(todo) + 1) /\ at <= Len(todo)
  BY DEF SupervisorTypeOK, SupTypeOK, NextIs
<1>2. at \in 1..Len(todo) /\ at + 1 \in 1..(Len(todo) + 1)
  BY <1>1
<1>3. todo[at] \in LinkActions
  BY <1>1, <1>2
<1> QED
  BY <1>2, <1>3 DEF NextIs, LinkActions, Do, Emit, ApplyTxPolicy, Events

\* Sending on a watch keeps its type.
LEMMA PublishTypes ==
  ASSUME ChannelTypeOK
  PROVE  /\ \A g \in TxGates : PublishGate(g) => gate' \in TxGates /\ gateUnseen' \in BOOLEAN
         /\ \A t \in Transports \cup {None} : PublishTransport(t) =>
              transportWatch' \in Transports \cup {None} /\ transportUnseen' \in BOOLEAN
BY DEF ChannelTypeOK, SharedTypeOK, PublishGate, PublishTransport, gateWatch, txWatch

\* The actions of apply_input keep the types.
LEMMA ExecutingTypes ==
  ASSUME SupervisorTypeOK,
         \/ ExecuteEmit \/ ExecuteTxPolicy \/ ExecuteTimer \/ ExecuteClose \/ CloseReturns
         \/ ExecuteOpen \/ \E t \in Transports : OpenGives(t)
         \/ \E k \in FaultKinds : OpenFails(k) \/ FilterRefused(k)
         \/ FilterReplayed
  PROVE  SupervisorTypeOK'
<1> USE DEF SupervisorTypeOK, ChannelTypeOK, SharedTypeOK, SupTypeOK, Executing, Keeping, Advance,
            gateWatch, stateWatch, txWatch, tasks, app, conn, filters, timers, quiet
<1>1. CASE ExecuteEmit
  BY <1>1, NextAction DEF ExecuteEmit
<1>2. CASE ExecuteTxPolicy
  <2>1. EffectiveGate(todo[at].arg) \in TxGates
    BY <1>2, NextAction DEF ExecuteTxPolicy, EffectiveGate, TxGates
  <2>2. gate' \in TxGates /\ gateUnseen' \in BOOLEAN
    BY <1>2, <2>1, PublishTypes DEF ExecuteTxPolicy
  <2> QED
    BY <1>2, <2>2, NextAction DEF ExecuteTxPolicy
<1>3. CASE ExecuteTimer
  <2>1. at + 1 \in 1..(Len(todo) + 1)
    BY <1>3, NextAction DEF ExecuteTimer
  <2>2. backoffTimer' \in BOOLEAN /\ healthTimer' \in BOOLEAN /\ stableTimer' \in BOOLEAN
    BY <1>3, SupervisorAssumption DEF ExecuteTimer, SetTimers
  <2> QED
    BY <1>3, <2>1, <2>2 DEF ExecuteTimer
<1>4. CASE ExecuteClose
  <2>1. at + 1 \in 1..(Len(todo) + 1)
    BY <1>4, NextAction DEF ExecuteClose
  <2>2. tstate' \in [Transports -> {"unopened", "open", "closing", "closed"}]
    BY <1>4 DEF ExecuteClose
  <2>3. transportWatch' \in Transports \cup {None} /\ transportUnseen' \in BOOLEAN
    BY <1>4, PublishTypes DEF ExecuteClose
  <2> QED
    BY <1>4, <2>1, <2>2, <2>3 DEF ExecuteClose, Places
<1>5. CASE CloseReturns
  BY <1>5 DEF CloseReturns, Places
<1>6. CASE ExecuteOpen
  BY <1>6, NextAction DEF ExecuteOpen, Places
<1>7. ASSUME NEW t \in Transports, OpenGives(t) PROVE SupervisorTypeOK'
  BY <1>7 DEF OpenGives, Places
<1>8. ASSUME NEW k \in FaultKinds, OpenFails(k) PROVE SupervisorTypeOK'
  BY <1>8 DEF OpenFails, Places, LinkInputs
<1>9. ASSUME NEW k \in FaultKinds, FilterRefused(k) PROVE SupervisorTypeOK'
  <2>1. followup' \in LinkInputs
    BY <1>9 DEF FilterRefused, LinkInputs
  <2>2. tstate' \in [Transports -> {"unopened", "open", "closing", "closed"}]
    BY <1>9 DEF FilterRefused
  <2> QED
    BY <1>9, <2>1, <2>2 DEF FilterRefused, Places
<1>10. CASE FilterReplayed
  <2>1. followup' \in LinkInputs
    BY <1>10 DEF FilterReplayed, LinkInputs
  <2>2. transportWatch' \in Transports \cup {None} /\ transportUnseen' \in BOOLEAN
    BY <1>10, PublishTypes DEF FilterReplayed
  <2> QED
    BY <1>10, <2>1, <2>2 DEF FilterReplayed, Places
<1> QED
  BY <1>1, <1>2, <1>3, <1>4, <1>5, <1>6, <1>7, <1>8, <1>9, <1>10


\* An input taken from the select keeps the types.
LEMMA FeedTypes ==
  ASSUME SupervisorTypeOK, NEW in \in LinkInputs, Feed(in),
         commands' \in Seq(Commands), Len(commands') <= QueueBound,
         backoffTimer' \in BOOLEAN, healthTimer' \in BOOLEAN, stableTimer' \in BOOLEAN
  PROVE  SupervisorTypeOK'
<1>1. /\ machine' \in Machines /\ sup' \in Places
      /\ todo' \in Seq(LinkActions) /\ at' \in 1..(Len(todo') + 1)
      /\ linkState' \in LinkStates /\ stateUnseen' \in BOOLEAN
  BY ApplyTypes DEF Feed
<1> QED
  BY <1>1 DEF Feed, SupervisorTypeOK, ChannelTypeOK, SharedTypeOK, SupTypeOK, gateWatch, txWatch,
              tasks, app, conn, filters, quiet

\* The branches that take a command leave a shorter queue.
LEMMA TakeTypes ==
  ASSUME SupervisorTypeOK, NEW m, Take(m)
  PROVE  /\ commands' \in Seq(Commands) /\ Len(commands') <= QueueBound
         /\ m \in Commands
<1>1. commands \in Seq(Commands) /\ commands # <<>> /\ Len(commands) <= QueueBound
  BY DEF SupervisorTypeOK, ChannelTypeOK, SharedTypeOK, Take
<1>2. commands' = Tail(commands) /\ m = Head(commands)
  BY DEF Take
<1>3. Len(commands) \in Nat /\ QueueBound \in Nat
  BY <1>1, ChannelsAssumption
<1> QED
  BY <1>1, <1>2, <1>3, HeadTailProperties

\* What the branches of the select feed is an input of the machine.
LEMMA FedInputs ==
  /\ {Input(n) : n \in {"Start", "OpenSucceeded", "BusOff", "HealthTimeout",
                        "BackoffElapsed", "StableElapsed", "Close"}} \subseteq LinkInputs
  /\ \A k \in FaultKinds : TransportFault(k) \in LinkInputs /\ OpenFailed(k) \in LinkInputs
  /\ {"Fatal", "Permanent"} \subseteq FaultKinds
BY DEF LinkInputs, FaultKinds

\* The branches of the select that feed the machine keep the types.
LEMMA SelectTypes ==
  ASSUME SupervisorTypeOK,
         \/ Start \/ SilenceFault \/ BackoffFires \/ StableFires \/ HandlesGone
         \/ StateSeenClosed \/ \E in \in RxFaults : RxFault(in)
         \/ \E in \in {Input("BusOff"), Input("HealthTimeout")} : HealthBad(in)
         \/ \E c \in Closers : CommandClose(c)
         \/ \E k \in {"Fatal", "Permanent"}, t \in Transports : CommandTxFault(k, t)
  PROVE  SupervisorTypeOK'
<1>1. /\ commands \in Seq(Commands) /\ Len(commands) <= QueueBound
      /\ backoffTimer \in BOOLEAN /\ healthTimer \in BOOLEAN /\ stableTimer \in BOOLEAN
  BY DEF SupervisorTypeOK, ChannelTypeOK, SharedTypeOK, SupTypeOK
<1>2. CASE Start
  BY <1>1, <1>2, FedInputs, FeedTypes DEF Start, timers
<1>3. CASE SilenceFault
  BY <1>1, <1>3, FedInputs, FeedTypes DEF SilenceFault, timers
<1>4. CASE BackoffFires
  BY <1>1, <1>4, FedInputs, FeedTypes DEF BackoffFires
<1>5. CASE StableFires
  BY <1>1, <1>5, FedInputs, FeedTypes DEF StableFires
<1>6. CASE HandlesGone
  BY <1>1, <1>6, FedInputs, FeedTypes DEF HandlesGone, timers
<1>7. CASE StateSeenClosed
  BY <1>1, <1>7, FedInputs, FeedTypes DEF StateSeenClosed, timers
<1>8. ASSUME NEW in \in RxFaults, RxFault(in) PROVE SupervisorTypeOK'
  BY <1>1, <1>8, FedInputs, FeedTypes DEF RxFault, RxFaults, timers
<1>9. ASSUME NEW in \in {Input("BusOff"), Input("HealthTimeout")}, HealthBad(in)
      PROVE  SupervisorTypeOK'
  BY <1>1, <1>9, FedInputs, FeedTypes DEF HealthBad, timers
<1>10. ASSUME NEW c \in Closers, CommandClose(c) PROVE SupervisorTypeOK'
  BY <1>1, <1>10, FedInputs, FeedTypes, TakeTypes DEF CommandClose, timers
<1>11. ASSUME NEW k \in {"Fatal", "Permanent"}, NEW t \in Transports, CommandTxFault(k, t)
       PROVE  SupervisorTypeOK'
  BY <1>1, <1>11, FedInputs, FeedTypes, TakeTypes DEF CommandTxFault, timers
<1> QED
  BY <1>2, <1>3, <1>4, <1>5, <1>6, <1>7, <1>8, <1>9, <1>10, <1>11

\* The other steps of the task.
LEMMA TaskTypes ==
  ASSUME SupervisorTypeOK,
         \/ FollowUp \/ BackToSelect \/ Exit \/ SetFilterReturns \/ HealthFires \/ HealthGood
         \/ StateSeenOther \/ RxFrame \/ SupervisorLost
         \/ \E f \in Asked : CommandSetFilter(f)
  PROVE  SupervisorTypeOK'
<1> USE DEF SupervisorTypeOK, ChannelTypeOK, SharedTypeOK, SupTypeOK, channelVars, supVars,
            control, gateWatch, stateWatch, txWatch, tasks, app, conn, filters, timers, quiet
<1>1. <<>> \in Seq(LinkActions) /\ 1 \in 1..(Len(<<>>) + 1)
  OBVIOUS
<1>2. <<>> \in Seq(Commands) /\ Len(<<>>) <= QueueBound
  BY ChannelsAssumption
<1>3. CASE FollowUp
  <2>1. /\ machine' \in Machines /\ sup' \in Places
        /\ todo' \in Seq(LinkActions) /\ at' \in 1..(Len(todo') + 1)
        /\ linkState' \in LinkStates /\ stateUnseen' \in BOOLEAN
    BY <1>3, ApplyTypes DEF FollowUp
  <2> QED
    BY <1>3, <2>1 DEF FollowUp
<1>4. CASE BackToSelect
  <2>1. rxQuiet' \in BOOLEAN /\ rxOld' \in BOOLEAN
    BY <1>4 DEF BackToSelect
  <2>2. todo' \in Seq(LinkActions) /\ at' \in 1..(Len(todo') + 1)
    BY <1>1, <1>4 DEF BackToSelect, EmptyList
  <2>3. ChannelTypeOK'
    BY <1>4 DEF BackToSelect
  <2> QED
    BY <1>4, <2>1, <2>2, <2>3 DEF BackToSelect, Places
<1>5. CASE Exit
  <2>1. todo' \in Seq(LinkActions) /\ at' \in 1..(Len(todo') + 1)
    BY <1>1, <1>5 DEF Exit, EmptyList
  <2>2. closer' \in [Closers -> {"idle", "requesting", "waiting", "returned"}]
    BY <1>5 DEF Exit, DropReceiver
  <2>3. ChannelTypeOK'
    BY <1>2, <1>5 DEF Exit, DropReceiver
  <2> QED
    BY <1>5, <2>1, <2>2, <2>3 DEF Exit, Places
<1>6. CASE SetFilterReturns
  BY <1>6 DEF SetFilterReturns, Places
<1>7. CASE HealthFires \/ HealthGood
  BY <1>7 DEF HealthFires, HealthGood, Places
<1>8. CASE StateSeenOther
  <2>1. ChannelTypeOK'
    BY <1>8 DEF StateSeenOther
  <2> QED
    BY <1>8, <2>1 DEF StateSeenOther
<1>9. CASE RxFrame
  <2>1. ChannelTypeOK'
    BY <1>9 DEF RxFrame
  <2> QED
    BY <1>9, <2>1 DEF RxFrame
<1>10. CASE SupervisorLost
  <2>1. gate' \in TxGates /\ gateUnseen' \in BOOLEAN
    BY <1>10, PublishTypes DEF SupervisorLost, FatalGuard, TxGates
  <2>2. linkState' \in LinkStates /\ stateUnseen' \in BOOLEAN
    BY <1>10 DEF SupervisorLost, FatalGuard, PublishState, LinkStates
  <2>3. closer' \in [Closers -> {"idle", "requesting", "waiting", "returned"}]
    BY <1>10 DEF SupervisorLost, DropReceiver
  <2>4. todo' \in Seq(LinkActions) /\ at' \in 1..(Len(todo') + 1)
    BY <1>1, <1>10 DEF SupervisorLost, EmptyList
  <2>5. ChannelTypeOK'
    BY <1>2, <1>10, <2>1, <2>2 DEF SupervisorLost, DropReceiver, FatalGuard
  <2> QED
    BY <1>10, <2>3, <2>4, <2>5 DEF SupervisorLost, Places, Events
<1>11. ASSUME NEW f \in Asked, CommandSetFilter(f) PROVE SupervisorTypeOK'
  <2>1. commands' \in Seq(Commands) /\ Len(commands') <= QueueBound
    BY <1>11, TakeTypes DEF CommandSetFilter
  <2>2. sup' \in Places /\ savedFilter' \in Filters
    BY <1>11, ChannelsAssumption DEF CommandSetFilter, Places
  <2> QED
    BY <1>11, <2>1, <2>2 DEF CommandSetFilter
<1> QED
  BY <1>3, <1>4, <1>5, <1>6, <1>7, <1>8, <1>9, <1>10, <1>11


\* A command that finds room keeps the queue in its type.
LEMMA QueuedTypes ==
  ASSUME SupervisorTypeOK, NEW m \in Commands, Len(commands) < QueueBound,
         commands' = Append(commands, m)
  PROVE  commands' \in Seq(Commands) /\ Len(commands') <= QueueBound
BY ChannelsAssumption DEF SupervisorTypeOK, ChannelTypeOK, SharedTypeOK

\* The steps of the clients, of the scheduler and of the tx worker.
LEMMA OthersTypes ==
  ASSUME SupervisorTypeOK, CyclicEnds \/ CyclicLost \/ Clients \/ TxEnvironment
  PROVE  SupervisorTypeOK'
<1> USE DEF SupervisorTypeOK, ChannelTypeOK, SharedTypeOK, SupTypeOK, channelVars, supVars,
            control, gateWatch, stateWatch, txWatch, tasks, app, conn, filters, timers, quiet
<1>1. CASE CyclicEnds
  <2>1. ChannelTypeOK'
    BY <1>1 DEF CyclicEnds
  <2> QED
    BY <1>1, <2>1 DEF CyclicEnds
<1>2. CASE CyclicLost
  <2>1. ChannelTypeOK'
    BY <1>2 DEF CyclicLost
  <2> QED
    BY <1>2, <2>1 DEF CyclicLost, Events
<1>3. ASSUME NEW c \in Closers, CloseCalled(c) PROVE SupervisorTypeOK'
  BY <1>3 DEF CloseCalled
<1>4. ASSUME NEW c \in Closers, CloseQueued(c) PROVE SupervisorTypeOK'
  <2>1. CloseRequest(c) \in Commands
    BY DEF Commands
  <2>2. commands' \in Seq(Commands) /\ Len(commands') <= QueueBound
    BY <1>4, <2>1, QueuedTypes DEF CloseQueued
  <2>3. closer' \in [Closers -> {"idle", "requesting", "waiting", "returned"}]
    BY <1>4 DEF CloseQueued
  <2> QED
    BY <1>4, <2>2, <2>3 DEF CloseQueued
<1>5. ASSUME NEW f \in Asked, FilterAsked(f) PROVE SupervisorTypeOK'
  <2>1. FilterRequest(f) \in Commands
    BY DEF Commands
  <2>2. commands' \in Seq(Commands) /\ Len(commands') <= QueueBound
    BY <1>5, <2>1, QueuedTypes DEF FilterAsked
  <2> QED
    BY <1>5, <2>2 DEF FilterAsked
<1>6. ASSUME NEW h \in Droppable, HandleDropped(h) PROVE SupervisorTypeOK'
  BY <1>6 DEF HandleDropped
<1>7. CASE QuietElapses
  BY <1>7 DEF QuietElapses
<1>8. ASSUME NEW k \in {"Fatal", "Permanent"}, NEW t \in Transports, TxPostsFault(k, t)
      PROVE  SupervisorTypeOK'
  <2>1. TxFault(k, t) \in Commands
    BY DEF Commands
  <2>2. commands' \in Seq(Commands) /\ Len(commands') <= QueueBound
    BY <1>8, <2>1, QueuedTypes DEF TxPostsFault
  <2> QED
    BY <1>8, <2>2 DEF TxPostsFault
<1>9. CASE TxSees
  <2>1. gateUnseen' \in BOOLEAN /\ transportUnseen' \in BOOLEAN
    BY <1>9 DEF TxSees
  <2>2. ChannelTypeOK'
    BY <1>9, <2>1 DEF TxSees
  <2> QED
    BY <1>9, <2>2 DEF TxSees
<1>10. CASE TxEnds
  <2>1. ChannelTypeOK'
    BY <1>10 DEF TxEnds
  <2> QED
    BY <1>10, <2>1 DEF TxEnds
<1>11. CASE TxLost
  <2>1. gate' \in TxGates /\ gateUnseen' \in BOOLEAN
    BY <1>11, PublishTypes DEF TxLost, FatalGuard, TxGates
  <2>2. linkState' \in LinkStates /\ stateUnseen' \in BOOLEAN
    BY <1>11 DEF TxLost, FatalGuard, PublishState, LinkStates
  <2>3. ChannelTypeOK'
    BY <1>11, <2>1, <2>2 DEF TxLost, FatalGuard
  <2> QED
    BY <1>11, <2>3 DEF TxLost, Events
<1> QED
  BY <1>1, <1>2, <1>3, <1>4, <1>5, <1>6, <1>7, <1>8, <1>9, <1>10, <1>11 DEF Clients, TxEnvironment

\* Every step keeps the types.
LEMMA NextTypes ==
  ASSUME SupervisorTypeOK, [SupervisorNext]_supervisorVars
  PROVE  SupervisorTypeOK'
<1>1. CASE Task
  BY <1>1, ExecutingTypes, SelectTypes, TaskTypes DEF Task
<1>2. CASE Receive
  BY <1>2, SelectTypes, TaskTypes DEF Receive
<1>3. CASE SupervisorLost
  BY <1>3, TaskTypes
<1>4. CASE CyclicEnds \/ CyclicLost \/ Clients \/ TxEnvironment
  BY <1>4, OthersTypes
<1>5. CASE UNCHANGED supervisorVars
  BY <1>5 DEF supervisorVars, SupervisorTypeOK, ChannelTypeOK, SharedTypeOK, SupTypeOK,
              channelVars, supVars, control, gateWatch, stateWatch, txWatch, tasks, conn,
              filters, timers, quiet
<1> QED
  BY <1>1, <1>2, <1>3, <1>4, <1>5 DEF SupervisorNext

\* Every variable of the supervisor and of the channels keeps the range of its
\* type: the command queue its bound, the attempt counter its width.
THEOREM SupervisorTypesAlways == SupervisorSpec => []SupervisorTypeOK
<1>1. SupervisorTypeOK /\ [SupervisorNext]_supervisorVars => SupervisorTypeOK'
  BY NextTypes
<1> QED
  BY InitTypes, <1>1, PTL DEF SupervisorSpec

-----------------------------------------------------------------------------
(* What a step of the machine asks for                                     *)

Has(list, op) == \E i \in 1..Len(list) : list[i].op = op

InBackoff(s) == s.name = "Backoff"

\* The action lists that may be found with the state s.
Fits(list, s) ==
  \A i \in 1..Len(list) :
    /\ list[i].op = "OpenTransport" => s = Connecting /\ i = Len(list)
    /\ list[i].op \in {"CloseTransport", "CancelHealthCheck"} => InBackoff(s) \/ s = Closed
    /\ list[i].op = "ArmBackoff" => InBackoff(s)
    /\ list[i].op = "CancelBackoff" => s = Closed
    /\ list[i].op = "ArmHealthCheck" => s = Connected
    /\ list[i] = ApplyTxPolicy("Open") => s = Connected
    /\ list[i].op = "Emit" /\ s = Closed => list[i].arg \in {"Closed", "Failed"}

\* A transport is closed only after the gate has been set.
GateFirst(list) ==
  \A i \in 1..Len(list) : list[i].op = "CloseTransport" =>
    \E j \in 1..(i - 1) : list[j].op = "ApplyTxPolicy"

\* From which state each state is reached, and what the list then holds.
Reached(m, in, s, list) ==
  /\ s = Disconnected => m.state = Disconnected /\ in.name # "Start"
  /\ s = Connecting =>
       \/ /\ m.state = Disconnected \/ (InBackoff(m.state) /\ in.name = "BackoffElapsed")
          /\ Has(list, "OpenTransport")
       \/ m.state = Connecting /\ in.name \notin {"OpenSucceeded", "OpenFailed"}
  /\ s = Connected =>
       m.state = Connected \/ (m.state = Connecting /\ in.name = "OpenSucceeded")
  /\ InBackoff(s) =>
       \/ /\ m.state = Connecting /\ in.name = "OpenFailed"
          /\ Has(list, "ArmBackoff")
       \/ /\ m.state = Connected
          /\ Has(list, "CloseTransport") /\ Has(list, "ArmBackoff")
          /\ Has(list, "CancelHealthCheck")
       \/ InBackoff(m.state) /\ in.name # "BackoffElapsed"
  /\ s = Closed =>
       \/ m.state = Closed
       \/ /\ Has(list, "Emit")
          /\ Has(list, "CloseTransport") \/ (m.state = Connecting /\ in.name = "OpenFailed")

Answered(m, in, r) ==
  /\ Fits(r.actions, r.machine.state)
  /\ GateFirst(r.actions)
  /\ Reached(m, in, r.machine.state, r.actions)

\* What the supervisor relies on, of every step.
LEMMA StepAnswers ==
  ASSUME NEW m \in Machines, NEW in \in LinkInputs
  PROVE  Answered(m, in, Step(m, in))
<1> DEFINE r == Step(m, in)
<1> HIDE DEF r
<1> SUFFICES Answered(m, in, r)
  BY DEF r
<1> USE StatesDiffer DEF Result, Answered, InBackoff, Do, Emit, ApplyTxPolicy
<1>1. Transition(m, in, r)
  BY StepTransition DEF r
<1>2. m.state \in {Disconnected, Connecting, Connected, Closed} \/ m.state.name = "Backoff"
  BY DEF Machines, LinkStates, Backoff
<1>3. \A n : Backoff(n).name = "Backoff"
  BY DEF Backoff
<1>4. CASE /\ r = Ignore(m)
           /\ m.state = Disconnected => in.name # "Start"
           /\ m.state = Connecting => in.name \notin {"OpenSucceeded", "OpenFailed"}
           /\ m.state.name = "Backoff" => in.name # "BackoffElapsed"
  BY <1>2, <1>4 DEF Ignore, Fits, GateFirst, Reached, Has
<1>5. CASE m.state # Closed /\ in.name = "Close" /\ r = CloseByUser(m)
  BY <1>2, <1>5 DEF CloseByUser, Fits, GateFirst, Reached, Has
<1>6. CASE /\ r = BeginOpen(m)
           /\ \/ m.state = Disconnected /\ in.name = "Start"
              \/ m.state.name = "Backoff" /\ in.name = "BackoffElapsed"
  BY <1>2, <1>6 DEF BeginOpen, Fits, GateFirst, Reached, Has
<1>7. CASE m.state = Connecting /\ in.name = "OpenSucceeded" /\ r = OpenedOk(m)
  BY <1>7 DEF OpenedOk, Fits, GateFirst, Reached, Has
<1>8. CASE m.state = Connecting /\ in.name = "OpenFailed" /\ r = OpenDenied(m)
  BY <1>8 DEF OpenDenied, Fits, GateFirst, Reached, Has
<1>9. CASE m.state = Connecting /\ in.name = "OpenFailed" /\ r = FailOrBackoff(m)
  BY <1>3, <1>9 DEF FailOrBackoff, Fits, GateFirst, Reached, Has
<1>10. CASE m.state = Connected /\ \E e \in {"BusOff", "Reconnecting"} : r = ConnectedFault(m, e)
  <2>1. PICK e \in {"BusOff", "Reconnecting"} : r = ConnectedFault(m, e)
    BY <1>10
  <2>2. CASE Exhausted(Saturate(m.attempt))
    BY <1>10, <2>1, <2>2 DEF ConnectedFault, Fits, GateFirst, Reached, Has
  <2>3. CASE ~Exhausted(Saturate(m.attempt))
    BY <1>3, <1>10, <2>1, <2>3 DEF ConnectedFault, Fits, GateFirst, Reached, Has
  <2> QED
    BY <2>2, <2>3
<1>11. CASE m.state = Connected /\ r = FaultDenied(m)
  BY <1>11 DEF FaultDenied, Fits, GateFirst, Reached, Has
<1>12. CASE m.state = Connected /\ r = Result(m.state, m.attempt, <<Emit("Warning")>>)
  BY <1>12 DEF Fits, GateFirst, Reached, Has
<1>13. CASE m.state = Connected /\ r = Result(m.state, 0, <<>>)
  BY <1>13 DEF Fits, GateFirst, Reached, Has
<1> QED
  BY <1>1, <1>4, <1>5, <1>6, <1>7, <1>8, <1>9, <1>10, <1>11, <1>12, <1>13 DEF Transition


-----------------------------------------------------------------------------
(* The control of the supervisor: where the task is, what the current list *)
(* still holds, and which timers are armed, in each state.                 *)

Idle == sup \in {"select", "health", "setFilter"}

InConnecting ==
  /\ sup \in {"act", "open", "filter", "reject"}
  /\ ~backoffTimer /\ ~healthTimer /\ ~stableTimer
  /\ sup = "act" => Due("OpenTransport") \/ followup # NoInput
  /\ transport # None <=> followup = Input("OpenSucceeded")

InConnected ==
  /\ sup = "act" \/ Idle
  /\ transport # None
  /\ ~backoffTimer

BackingOff ==
  /\ sup \in {"act", "close"} \/ Idle
  /\ transport # None => sup = "act" /\ Due("CloseTransport")
  /\ backoffTimer \/ (~Idle /\ Due("ArmBackoff"))
  /\ (~healthTimer /\ ~stableTimer) \/ (~Idle /\ Due("CancelHealthCheck"))

Closing ==
  /\ sup \in {"act", "close", "done"}
  /\ transport # None => sup = "act" /\ Due("CloseTransport")

\* followup is set by the open at the end of a list, and only there.
FollowsOpen ==
  /\ sup \in {"open", "filter"} => machine.state = Connecting /\ followup = NoInput
  /\ sup = "reject" => machine.state = Connecting /\ followup.name = "OpenFailed"
  /\ sup \in {"open", "filter", "reject"} => at > Len(todo) /\ transport = None
  /\ candidate # None <=> sup \in {"filter", "reject"}
  /\ followup # NoInput =>
       /\ machine.state = Connecting
       /\ sup \in {"act", "reject"} /\ at > Len(todo)
       /\ followup.name \in {"OpenSucceeded", "OpenFailed"}

Flow ==
  /\ Fits(todo, machine.state)
  /\ machine.state = Disconnected <=> sup = "start"
  /\ sup = "start" => transport = None /\ ~backoffTimer /\ ~healthTimer /\ ~stableTimer
  /\ machine.state = Connecting => InConnecting
  /\ machine.state = Connected => InConnected
  /\ InBackoff(machine.state) => BackingOff
  /\ machine.state = Closed => Closing
  /\ FollowsOpen

FlowInv == (sup \notin {"done", "lost"} <=> supAlive) /\ (sup # "lost" => Flow)


\* In the select, and in Start, a state is one the invariant speaks of.
LEMMA StatesNamed ==
  ASSUME SupervisorTypeOK
  PROVE  \/ machine.state \in {Disconnected, Connecting, Connected, Closed}
         \/ InBackoff(machine.state)
BY DEF SupervisorTypeOK, SupTypeOK, Machines, LinkStates, Backoff, InBackoff

\* What is due stays due while something else is executed.
LEMMA AdvanceDue ==
  ASSUME SupervisorTypeOK, NEW op, NextIs(op), Advance, NEW other, other # op, Due(other)
  PROVE  Due(other)'
<1>1. PICK i \in at..Len(todo) : todo[i].op = other
  BY DEF Due
<1>2. i # at /\ at \in Nat /\ Len(todo) \in Nat
  BY <1>1 DEF NextIs, SupervisorTypeOK, SupTypeOK
<1>3. i \in (at + 1)..Len(todo)
  BY <1>2
<1> QED
  BY <1>1, <1>3 DEF Due, Advance

\* Nothing is due at the end of the list.
LEMMA NothingDue ==
  ASSUME SupervisorTypeOK, at > Len(todo)
  PROVE  \A op : ~Due(op)
BY DEF Due, SupervisorTypeOK, SupTypeOK

\* An action that is executed fits the state of the machine.
LEMMA NextFits ==
  ASSUME SupervisorTypeOK, NEW op, NextIs(op), Fits(todo, machine.state)
  PROVE  /\ op = "OpenTransport" => machine.state = Connecting /\ at = Len(todo)
         /\ op \in {"CloseTransport", "CancelHealthCheck"}
              => InBackoff(machine.state) \/ machine.state = Closed
         /\ op = "ArmBackoff" => InBackoff(machine.state)
         /\ op = "CancelBackoff" => machine.state = Closed
         /\ op = "ArmHealthCheck" => machine.state = Connected
         /\ todo[at] = ApplyTxPolicy("Open") => machine.state = Connected
         /\ op = "Emit" /\ machine.state = Closed => todo[at].arg \in {"Closed", "Failed"}
<1>1. at \in 1..Len(todo)
  BY NextAction
<1> QED
  BY <1>1 DEF Fits, NextIs

\* What apply_input starts with, of the state it steps to.
LEMMA ApplyAnswers ==
  ASSUME SupervisorTypeOK, NEW in \in LinkInputs, Apply(in)
  PROVE  /\ sup' = "act" /\ at' = 1
         /\ Fits(todo', machine'.state) /\ GateFirst(todo')
         /\ Reached(machine, in, machine'.state, todo')
         /\ \A op : Has(todo', op) <=> Due(op)'
         /\ linkState' = machine'.state
<1>1. Answered(machine, in, Step(machine, in))
  BY StepAnswers DEF SupervisorTypeOK, SupTypeOK
<1>2. /\ machine' = Step(machine, in).machine /\ todo' = Step(machine, in).actions
      /\ at' = 1 /\ sup' = "act" /\ linkState' = machine'.state
  BY DEF Apply, PublishState
<1> QED
  BY <1>1, <1>2 DEF Answered, Has, Due

flowVars == <<machine, sup, todo, at, followup, conn, timers, supAlive>>

\* Steps that leave the control alone.
LEMMA FlowStutter == FlowInv /\ UNCHANGED flowVars => FlowInv'
BY DEF FlowInv, Flow, flowVars, conn, timers, Idle, Due, InConnecting, InConnected, BackingOff,
       Closing, FollowsOpen


\* The two actions that only speak to others.
LEMMA FlowEmit ==
  ASSUME SupervisorTypeOK, FlowInv, ExecuteEmit \/ ExecuteTxPolicy
  PROVE  FlowInv'
<1>1. /\ sup = "act" /\ at <= Len(todo) /\ Advance
      /\ UNCHANGED <<machine, sup, todo, followup, conn, timers, supAlive>>
  BY DEF ExecuteEmit, ExecuteTxPolicy, NextIs, Advance, Executing, Keeping, tasks
<1>2. \A op \in {"OpenTransport", "CloseTransport", "ArmBackoff", "CancelHealthCheck"} :
        Due(op) => Due(op)'
  BY AdvanceDue DEF ExecuteEmit, ExecuteTxPolicy
<1>3. Flow /\ at \in Nat /\ Len(todo) \in Nat
  BY <1>1 DEF FlowInv, SupervisorTypeOK, SupTypeOK
<1>4. Fits(todo, machine.state)'
  BY <1>1, <1>3 DEF Flow
<1> QED
  BY <1>1, <1>2, <1>3, <1>4 DEF FlowInv, Flow, conn, timers, Idle, InConnecting, InConnected,
     BackingOff, Closing, FollowsOpen

\* Arming and cancelling deadlines: the list fits the state.
LEMMA FlowTimer ==
  ASSUME SupervisorTypeOK, FlowInv, ExecuteTimer
  PROVE  FlowInv'
<1>1. /\ sup = "act" /\ at <= Len(todo) /\ Advance
      /\ UNCHANGED <<machine, sup, todo, followup, conn, supAlive>>
  BY DEF ExecuteTimer, NextIs, Advance, Executing, Keeping, tasks
<1>2. Flow /\ at \in Nat /\ Len(todo) \in Nat
  BY <1>1 DEF FlowInv, SupervisorTypeOK, SupTypeOK
<1>3. Fits(todo, machine.state)'
  BY <1>1, <1>2 DEF Flow
<1>4. followup = NoInput
  BY <1>1, <1>2 DEF Flow, FollowsOpen
<1> USE DEF FlowInv, Flow, conn, Idle, InConnecting, InConnected, BackingOff, Closing, FollowsOpen
<1>5. CASE NextIs("ArmBackoff") /\ SetTimers(TRUE, healthTimer, stableTimer)
  <2>1. InBackoff(machine.state)
    BY <1>2, <1>5, NextFits
  <2>2. \A op \in {"CloseTransport", "CancelHealthCheck"} : Due(op) => Due(op)'
    BY <1>1, <1>5, AdvanceDue
  <2> QED
    BY <1>1, <1>2, <1>3, <1>4, <1>5, <2>1, <2>2, StatesDiffer DEF SetTimers, InBackoff
<1>6. CASE NextIs("CancelBackoff") /\ SetTimers(FALSE, healthTimer, stableTimer)
  <2>1. machine.state = Closed
    BY <1>2, <1>6, NextFits
  <2>2. Due("CloseTransport") => Due("CloseTransport")'
    BY <1>1, <1>6, AdvanceDue
  <2> QED
    BY <1>1, <1>2, <1>3, <1>4, <1>6, <2>1, <2>2, StatesDiffer DEF SetTimers, InBackoff
<1>7. CASE NextIs("ArmHealthCheck") /\ SetTimers(backoffTimer, HealthCheck, TRUE)
  <2>1. machine.state = Connected
    BY <1>2, <1>7, NextFits
  <2> QED
    BY <1>1, <1>2, <1>3, <1>4, <1>7, <2>1, StatesDiffer DEF SetTimers, InBackoff
<1>8. CASE NextIs("CancelHealthCheck") /\ SetTimers(backoffTimer, FALSE, FALSE)
  <2>1. InBackoff(machine.state) \/ machine.state = Closed
    BY <1>2, <1>8, NextFits
  <2>2. \A op \in {"CloseTransport", "ArmBackoff"} : Due(op) => Due(op)'
    BY <1>1, <1>8, AdvanceDue
  <2> QED
    BY <1>1, <1>2, <1>3, <1>4, <1>8, <2>1, <2>2, StatesDiffer DEF SetTimers, InBackoff
<1> QED
  BY <1>5, <1>6, <1>7, <1>8 DEF ExecuteTimer

\* Closing a transport, up to the return of its close().
LEMMA FlowClose ==
  ASSUME SupervisorTypeOK, FlowInv, ExecuteClose \/ CloseReturns
  PROVE  FlowInv'
<1>1. sup \in {"act", "close", "reject"} /\ UNCHANGED <<machine, todo, followup, timers, supAlive>>
  BY DEF ExecuteClose, CloseReturns, NextIs, Advance, Executing, Keeping, tasks
<1>2. Flow /\ at \in Nat /\ Len(todo) \in Nat
  BY <1>1 DEF FlowInv, SupervisorTypeOK, SupTypeOK
<1>3. Fits(todo, machine.state)'
  BY <1>1, <1>2 DEF Flow
<1> USE DEF FlowInv, Flow, conn, timers, Idle, InConnecting, InConnected, BackingOff, Closing,
            FollowsOpen
<1>4. CASE ExecuteClose
  <2>1. InBackoff(machine.state) \/ machine.state = Closed
    BY <1>2, <1>4, NextFits DEF ExecuteClose
  <2>2. \A op \in {"ArmBackoff", "CancelHealthCheck"} : Due(op) => Due(op)'
    BY <1>4, AdvanceDue DEF ExecuteClose
  <2>3. followup = NoInput /\ candidate = None
    BY <1>2, <1>4 DEF ExecuteClose, NextIs
  <2>4. transport' = None /\ candidate' = candidate /\ sup' \in {"act", "close"}
    BY <1>4 DEF ExecuteClose, NextIs
  <2> QED
    BY <1>1, <1>2, <1>3, <2>1, <2>2, <2>3, <2>4, StatesDiffer DEF InBackoff
<1>5. CASE CloseReturns
  <2>1. /\ sup \in {"close", "reject"} /\ sup' = "act" /\ at' = at /\ transport' = transport
        /\ candidate' = None
    BY <1>5 DEF CloseReturns
  <2>2. \A op : Due(op) <=> Due(op)'
    BY <1>1, <2>1 DEF Due
  <2>3. sup = "close" => InBackoff(machine.state) \/ machine.state = Closed
    BY <1>2, StatesNamed
  <2>4. transport = None
    BY <1>2, <2>1, <2>3
  <2>5. sup = "reject" => followup # Input("OpenSucceeded") /\ followup # NoInput
    BY <1>2 DEF Input, NoInput
  <2> QED
    BY <1>1, <1>2, <1>3, <2>1, <2>2, <2>3, <2>4, <2>5, StatesDiffer DEF InBackoff
<1> QED
  BY <1>4, <1>5

\* Opening a transport and replaying the filter, or failing to.
LEMMA FlowOpen ==
  ASSUME SupervisorTypeOK, FlowInv,
         \/ ExecuteOpen \/ FilterReplayed
         \/ \E t \in Transports : OpenGives(t)
         \/ \E k \in FaultKinds : OpenFails(k) \/ FilterRefused(k)
  PROVE  FlowInv'
<1>1. sup \in {"act", "open", "filter"} /\ UNCHANGED <<machine, todo, timers, supAlive>>
  BY DEF ExecuteOpen, FilterReplayed, OpenGives, OpenFails, FilterRefused, NextIs, Advance,
         Executing, Keeping, tasks
<1>2. Flow /\ at \in Nat /\ Len(todo) \in Nat
  BY <1>1 DEF FlowInv, SupervisorTypeOK, SupTypeOK
<1>3. Fits(todo, machine.state)'
  BY <1>1, <1>2 DEF Flow
<1> USE StatesDiffer DEF FlowInv, Flow, conn, timers, Idle, InConnecting, FollowsOpen, InBackoff
<1>4. CASE ExecuteOpen
  <2>1. machine.state = Connecting /\ at = Len(todo) /\ at' = at + 1
    BY <1>2, <1>4, NextFits DEF ExecuteOpen, Advance
  <2>2. followup = NoInput /\ transport = None /\ candidate = None
    BY <1>2, <1>4, <2>1 DEF ExecuteOpen, NextIs, Input, NoInput
  <2> QED
    BY <1>1, <1>2, <1>3, <1>4, <2>1, <2>2 DEF ExecuteOpen, Input, NoInput
<1>5. ASSUME NEW t \in Transports, OpenGives(t) PROVE FlowInv'
  <2>1. t # None
    BY DEF Transports
  <2> QED
    BY <1>1, <1>2, <1>3, <1>5, <2>1 DEF OpenGives
<1>6. ASSUME NEW k \in FaultKinds, OpenFails(k) PROVE FlowInv'
  <2>1. /\ OpenFailed(k) # NoInput /\ OpenFailed(k) # Input("OpenSucceeded")
        /\ OpenFailed(k).name = "OpenFailed" /\ NoInput # Input("OpenSucceeded")
    BY DEF OpenFailed, NoInput, Input
  <2> QED
    BY <1>1, <1>2, <1>3, <1>6, <2>1 DEF OpenFails
<1>7. ASSUME NEW k \in FaultKinds, FilterRefused(k) PROVE FlowInv'
  <2>1. /\ OpenFailed(k) # NoInput /\ OpenFailed(k) # Input("OpenSucceeded")
        /\ OpenFailed(k).name = "OpenFailed" /\ NoInput # Input("OpenSucceeded")
    BY DEF OpenFailed, NoInput, Input
  <2> QED
    BY <1>1, <1>2, <1>3, <1>7, <2>1 DEF FilterRefused
<1>8. CASE FilterReplayed
  <2>1. /\ Input("OpenSucceeded") # NoInput
        /\ Input("OpenSucceeded").name = "OpenSucceeded"
    BY DEF NoInput, Input
  <2> QED
    BY <1>1, <1>2, <1>3, <1>8, <2>1 DEF FilterReplayed
<1> QED
  BY <1>4, <1>5, <1>6, <1>7, <1>8


\* The round of apply_input that answers an open.
LEMMA FlowFollowUp ==
  ASSUME SupervisorTypeOK, FlowInv, FollowUp
  PROVE  FlowInv'
<1>1. /\ sup = "act" /\ followup # NoInput /\ Apply(followup) /\ followup' = NoInput
      /\ UNCHANGED <<conn, timers, supAlive>>
  BY DEF FollowUp, ListDone, tasks
<1>2. Flow
  BY <1>1 DEF FlowInv
<1>3. /\ machine.state = Connecting /\ followup.name \in {"OpenSucceeded", "OpenFailed"}
      /\ candidate = None /\ ~backoffTimer /\ ~healthTimer /\ ~stableTimer
      /\ transport # None <=> followup = Input("OpenSucceeded")
  BY <1>1, <1>2 DEF Flow, FollowsOpen, InConnecting
<1>4. followup \in LinkInputs
  BY <1>1 DEF SupervisorTypeOK, SupTypeOK
<1>5. followup.name = "OpenSucceeded" <=> followup = Input("OpenSucceeded")
  BY <1>4 DEF LinkInputs, Input, OpenFailed, TransportFault
<1>6. /\ sup' = "act" /\ Fits(todo', machine'.state)
      /\ Reached(machine, followup, machine'.state, todo')
      /\ \A op : Has(todo', op) <=> Due(op)'
  BY <1>1, <1>4, ApplyAnswers
<1>7. NoInput # Input("OpenSucceeded")
  BY DEF NoInput, Input
<1> QED
  BY <1>1, <1>3, <1>5, <1>6, <1>7, StatesDiffer
  DEF FlowInv, Flow, conn, timers, Idle, InConnected, BackingOff, Closing, FollowsOpen,
      Reached, InBackoff

\* apply_input returns to the select, or ends the task.
LEMMA FlowReturn ==
  ASSUME SupervisorTypeOK, FlowInv, BackToSelect \/ Exit
  PROVE  FlowInv'
<1>1. /\ sup = "act" /\ at > Len(todo) /\ followup = NoInput
      /\ UNCHANGED <<machine, followup, conn, timers>> /\ todo' = <<>> /\ at' = 1
  BY DEF BackToSelect, Exit, Applied, ListDone, EmptyList
<1>2. Flow
  BY <1>1 DEF FlowInv
<1>3. \A op : ~Due(op)
  BY <1>1, NothingDue
<1>4. machine.state # Disconnected /\ machine.state # Connecting
  BY <1>1, <1>2, <1>3 DEF Flow, InConnecting
<1>5. Fits(todo', machine'.state)
  BY <1>1 DEF Fits
<1>6. candidate = None
  BY <1>1, <1>2 DEF Flow, FollowsOpen
<1>7. CASE BackToSelect
  <2>1. sup' = "select" /\ supAlive' = supAlive /\ machine.state # Closed
    BY <1>7 DEF BackToSelect, channelVars, tasks
  <2> QED
    BY <1>1, <1>2, <1>3, <1>4, <1>5, <1>6, <2>1, StatesDiffer
    DEF FlowInv, Flow, conn, timers, Idle, InConnected, BackingOff, FollowsOpen
<1>8. CASE Exit
  <2>1. sup' = "done" /\ supAlive' = FALSE /\ machine.state = Closed
    BY <1>8 DEF Exit, DropReceiver
  <2> QED
    BY <1>1, <1>2, <1>3, <1>4, <1>5, <1>6, <2>1, StatesDiffer
    DEF FlowInv, Flow, conn, timers, Idle, Closing, FollowsOpen, InBackoff
<1> QED
  BY <1>7, <1>8

\* An input taken from the select; the backoff may be spent with its own input.
LEMMA FlowFeed ==
  ASSUME SupervisorTypeOK, FlowInv, NEW in \in LinkInputs, Feed(in),
         Idle \/ (sup = "start" /\ in.name = "Start"),
         healthTimer' = healthTimer,
         stableTimer' = stableTimer \/ ~stableTimer',
         IF in.name = "BackoffElapsed" THEN ~backoffTimer' ELSE backoffTimer' = backoffTimer
  PROVE  FlowInv'
<1>1. /\ Flow /\ followup' = followup /\ transport' = transport /\ candidate' = candidate
      /\ supAlive' = supAlive /\ supAlive
  BY DEF FlowInv, Feed, tasks, conn, Idle
<1>2. /\ sup' = "act" /\ Fits(todo', machine'.state)
      /\ Reached(machine, in, machine'.state, todo')
      /\ \A op : Has(todo', op) <=> Due(op)'
  BY ApplyAnswers DEF Feed
<1>3. /\ machine.state = Disconnected <=> sup = "start"
      /\ machine.state # Connecting /\ machine.state # Closed
      /\ followup = NoInput /\ candidate = None
  BY <1>1 DEF Flow, Idle, InConnecting, Closing, FollowsOpen
<1>4. machine.state \in {Disconnected, Connected} \/ InBackoff(machine.state)
  BY <1>3, StatesNamed
<1>5. NoInput # Input("OpenSucceeded")
  BY DEF NoInput, Input
<1>6. CASE machine.state = Disconnected
  BY <1>1, <1>2, <1>3, <1>5, <1>6, StatesDiffer
  DEF FlowInv, Flow, Idle, InConnecting, InConnected, BackingOff, Closing, FollowsOpen,
      Reached, InBackoff
<1>7. CASE machine.state = Connected
  BY <1>1, <1>2, <1>3, <1>5, <1>7, StatesDiffer
  DEF FlowInv, Flow, Idle, InConnecting, InConnected, BackingOff, Closing, FollowsOpen,
      Reached, InBackoff
<1>8. CASE InBackoff(machine.state)
  BY <1>1, <1>2, <1>3, <1>5, <1>8, StatesDiffer
  DEF FlowInv, Flow, Idle, InConnecting, InConnected, BackingOff, Closing, FollowsOpen,
      Reached, InBackoff
<1> QED
  BY <1>4, <1>6, <1>7, <1>8


\* The branches of the select that feed the machine.
LEMMA FlowSelect ==
  ASSUME SupervisorTypeOK, FlowInv,
         \/ Start \/ SilenceFault \/ BackoffFires \/ StableFires \/ HandlesGone
         \/ StateSeenClosed \/ \E in \in RxFaults : RxFault(in)
         \/ \E in \in {Input("BusOff"), Input("HealthTimeout")} : HealthBad(in)
         \/ \E c \in Closers : CommandClose(c)
         \/ \E k \in {"Fatal", "Permanent"}, t \in Transports : CommandTxFault(k, t)
  PROVE  FlowInv'
<1>1. /\ \A n : Input(n).name = n
      /\ \A k : TransportFault(k).name = "TransportFault"
  BY DEF Input, TransportFault
<1> USE FedInputs, <1>1, FlowFeed DEF timers, Idle
<1>2. CASE Start
  BY <1>2 DEF Start
<1>3. CASE SilenceFault
  BY <1>3 DEF SilenceFault
<1>4. CASE BackoffFires
  BY <1>4 DEF BackoffFires
<1>5. CASE StableFires
  BY <1>5 DEF StableFires
<1>6. CASE HandlesGone
  BY <1>6 DEF HandlesGone
<1>7. CASE StateSeenClosed
  BY <1>7 DEF StateSeenClosed
<1>8. ASSUME NEW in \in RxFaults, RxFault(in) PROVE FlowInv'
  BY <1>8 DEF RxFault, RxFaults
<1>9. ASSUME NEW in \in {Input("BusOff"), Input("HealthTimeout")}, HealthBad(in) PROVE FlowInv'
  BY <1>9 DEF HealthBad
<1>10. ASSUME NEW c \in Closers, CommandClose(c) PROVE FlowInv'
  BY <1>10 DEF CommandClose, Take
<1>11. ASSUME NEW k \in {"Fatal", "Permanent"}, NEW t \in Transports, CommandTxFault(k, t)
       PROVE  FlowInv'
  BY <1>11 DEF CommandTxFault, Take
<1> QED
  BY <1>2, <1>3, <1>4, <1>5, <1>6, <1>7, <1>8, <1>9, <1>10, <1>11

\* The other steps move between the places of the select, end the task, or
\* touch nothing of this.
LEMMA FlowOthers ==
  ASSUME SupervisorTypeOK, FlowInv,
         \/ SetFilterReturns \/ HealthFires \/ HealthGood \/ StateSeenOther
         \/ \E f \in Asked : CommandSetFilter(f)
         \/ RxFrame \/ SupervisorLost
         \/ CyclicEnds \/ CyclicLost \/ Clients \/ TxEnvironment
  PROVE  FlowInv'
<1>1. CASE SetFilterReturns \/ HealthFires \/ HealthGood \/ \E f \in Asked : CommandSetFilter(f)
  <2>1. /\ Idle /\ sup' \in {"select", "health", "setFilter"}
        /\ UNCHANGED <<machine, todo, at, followup, conn, timers, supAlive>>
    BY <1>1 DEF SetFilterReturns, HealthFires, HealthGood, CommandSetFilter, Take, Idle,
                channelVars, tasks
  <2>2. \A op : Due(op) <=> Due(op)'
    BY <2>1 DEF Due
  <2> QED
    BY <2>1, <2>2 DEF FlowInv, Flow, conn, timers, Idle, InConnecting, InConnected, BackingOff,
       Closing, FollowsOpen
<1>2. CASE StateSeenOther
  BY <1>2, FlowStutter DEF StateSeenOther, flowVars, supVars, control, tasks
<1>3. CASE RxFrame
  BY <1>3, FlowStutter DEF RxFrame, flowVars, control, channelVars, tasks
<1>4. CASE SupervisorLost
  BY <1>4 DEF SupervisorLost, DropReceiver, FlowInv
<1>5. CASE CyclicEnds
  BY <1>5, FlowStutter DEF CyclicEnds, flowVars, supVars, control
<1>6. CASE CyclicLost
  BY <1>6, FlowStutter DEF CyclicLost, flowVars, control
<1>7. CASE Clients
  BY <1>7, FlowStutter DEF Clients, CloseCalled, CloseQueued, FilterAsked, HandleDropped,
     QuietElapses, flowVars, supVars, control, channelVars, tasks
<1>8. CASE TxEnvironment
  BY <1>8, FlowStutter DEF TxEnvironment, TxPostsFault, TxSees, TxEnds, TxLost, flowVars,
     supVars, control, tasks
<1> QED
  BY <1>1, <1>2, <1>3, <1>4, <1>5, <1>6, <1>7, <1>8

\* The initial states.
LEMMA FlowInit == SupervisorInit => FlowInv
<1> SUFFICES ASSUME SupervisorInit PROVE FlowInv
  OBVIOUS
<1>1. NoInput # Input("OpenSucceeded")
  BY DEF NoInput, Input
<1>2. machine.state = Disconnected /\ todo = <<>> /\ followup = NoInput /\ sup = "start"
  BY DEF SupervisorInit, SupInit
<1>3. Fits(todo, machine.state)
  BY <1>2 DEF Fits
<1> QED
  BY <1>1, <1>2, <1>3, StatesDiffer
  DEF SupervisorInit, ChannelInit, SupInit, FlowInv, Flow, FollowsOpen, InBackoff

\* The control of the supervisor, in every state.
THEOREM FlowInvariance == SupervisorSpec => []FlowInv
<1>1. SupervisorTypeOK /\ FlowInv /\ [SupervisorNext]_supervisorVars => FlowInv'
  <2> SUFFICES ASSUME SupervisorTypeOK, FlowInv, [SupervisorNext]_supervisorVars
               PROVE  FlowInv'
    OBVIOUS
  <2>1. CASE Task
    BY <2>1, FlowEmit, FlowTimer, FlowClose, FlowOpen, FlowFollowUp, FlowReturn, FlowSelect,
       FlowOthers DEF Task
  <2>2. CASE Receive
    BY <2>2, FlowSelect, FlowOthers DEF Receive
  <2>3. CASE SupervisorLost \/ CyclicEnds \/ CyclicLost \/ Clients \/ TxEnvironment
    BY <2>3, FlowOthers
  <2>4. CASE UNCHANGED supervisorVars
    BY <2>4, FlowStutter DEF supervisorVars, flowVars, channelVars, supVars, control, tasks
  <2> QED
    BY <2>1, <2>2, <2>3, <2>4 DEF SupervisorNext
<1> QED
  BY FlowInit, SupervisorTypesAlways, <1>1, PTL DEF SupervisorSpec


-----------------------------------------------------------------------------
(* Who holds which transport, and in what state it is.                     *)

Owned ==
  /\ transport # None => tstate[transport] = "open"
  /\ sup = "filter" => tstate[candidate] = "open"
  /\ sup = "reject" => tstate[candidate] = "closing"
  /\ sup = "close" => transport = None
  /\ \A t \in Transports : tstate[t] = "open" => t \in {transport, candidate}
  /\ \A t \in Transports : tstate[t] = "closing" => t = candidate \/ sup = "close"
  /\ txAlive => transportWatch = transport

OwnInv == OneLiveTransport /\ (sup # "lost" => Owned)

\* A step between places where no transport is being opened or closed.
LEMMA OwnMove ==
  ASSUME OwnInv, UNCHANGED <<conn, tstate, transportWatch>>, txAlive' => txAlive,
         \/ sup' = sup
         \/ /\ sup \notin {"filter", "reject", "close", "lost"}
            /\ sup' \notin {"filter", "reject", "close"}
         \/ sup' = "lost"
  PROVE  OwnInv'
BY DEF OwnInv, Owned, OneLiveTransport, Live, conn

\* The supervisor is lost with its transport variable; the transport stays.
LEMMA OwnLost ==
  ASSUME OwnInv, UNCHANGED tstate, sup' = "lost"
  PROVE  OwnInv'
BY DEF OwnInv, OneLiveTransport, Live

\* Executing, Keeping an action list hands transports on, one at a time.
LEMMA OwnExecuting ==
  ASSUME SupervisorTypeOK, FlowInv, OwnInv,
         \/ ExecuteEmit \/ ExecuteTxPolicy \/ ExecuteTimer \/ ExecuteClose \/ CloseReturns
         \/ ExecuteOpen \/ \E t \in Transports : OpenGives(t)
         \/ \E k \in FaultKinds : OpenFails(k) \/ FilterRefused(k)
         \/ FilterReplayed
  PROVE  OwnInv'
<1>1. /\ sup \in {"act", "open", "filter", "reject", "close"}
      /\ txAlive' = txAlive
  BY DEF ExecuteEmit, ExecuteTxPolicy, ExecuteTimer, ExecuteClose, CloseReturns, ExecuteOpen,
         OpenGives, OpenFails, FilterRefused, FilterReplayed, NextIs, Executing, Keeping, tasks
<1>2. /\ Flow /\ Owned /\ OneLiveTransport
      /\ tstate \in [Transports -> {"unopened", "open", "closing", "closed"}]
      /\ None \notin Transports
      /\ transport \in Transports \cup {None} /\ candidate \in Transports \cup {None}
  BY <1>1 DEF FlowInv, OwnInv, SupervisorTypeOK, SupTypeOK, ChannelTypeOK, SharedTypeOK, Transports
<1>3. /\ candidate # None <=> sup \in {"filter", "reject"}
      /\ sup \in {"open", "filter", "reject", "close"} => transport = None
  BY <1>2 DEF Flow, FollowsOpen, Owned
<1>4. CASE ExecuteEmit \/ ExecuteTxPolicy \/ ExecuteTimer \/ ExecuteOpen
           \/ \E k \in FaultKinds : OpenFails(k)
  <2>1. /\ sup \in {"act", "open"} /\ sup' \in {"act", "open"}
        /\ UNCHANGED <<conn, tstate, transportWatch>>
    BY <1>4 DEF ExecuteEmit, ExecuteTxPolicy, ExecuteTimer, ExecuteOpen, OpenFails, NextIs,
                txWatch
  <2> QED
    BY <1>1, <2>1, OwnMove
<1> USE DEF OwnInv, Owned, OneLiveTransport, Live
<1>5. CASE ExecuteClose /\ transport = None
  <2>1. /\ sup' = "act" /\ transport' = None /\ candidate' = None /\ tstate' = tstate
        /\ txAlive => transportWatch' = None
    BY <1>3, <1>5 DEF ExecuteClose, NextIs, PublishTransport
  <2> QED
    BY <1>1, <1>2, <1>3, <1>5, <2>1 DEF ExecuteClose, NextIs
<1>6. CASE ExecuteClose /\ transport # None
  <2>1. /\ sup = "act" /\ sup' = "close" /\ transport' = None /\ candidate' = None
        /\ tstate' = [tstate EXCEPT ![transport] = "closing"]
        /\ txAlive => transportWatch' = None
    BY <1>3, <1>6 DEF ExecuteClose, NextIs, PublishTransport
  <2>2. \A t \in Transports : t # transport => tstate[t] \notin {"open", "closing"}
    BY <1>2, <1>3, <2>1
  <2> QED
    BY <1>1, <1>2, <1>6, <2>1, <2>2
<1>7. CASE CloseReturns
  <2>1. /\ sup \in {"close", "reject"} /\ sup' = "act" /\ transport' = transport
        /\ candidate' = None /\ transportWatch' = transportWatch
        /\ tstate' = [t \in Transports |-> IF tstate[t] = "closing" THEN "closed" ELSE tstate[t]]
    BY <1>7 DEF CloseReturns, txWatch
  <2>2. \A t \in Transports : tstate[t] # "open"
    BY <1>2, <1>3, <2>1
  <2> QED
    BY <1>1, <1>2, <1>3, <2>1, <2>2
<1>8. ASSUME NEW t \in Transports, OpenGives(t) PROVE OwnInv'
  <2>1. /\ sup = "open" /\ sup' = "filter" /\ transport' = transport /\ candidate' = t
        /\ tstate' = [tstate EXCEPT ![t] = "open"] /\ transportWatch' = transportWatch
    BY <1>8 DEF OpenGives, txWatch
  <2>2. \A u \in Transports : tstate[u] \notin {"open", "closing"}
    BY <1>2, <1>3, <2>1
  <2> QED
    BY <1>1, <1>2, <1>3, <2>1, <2>2
<1>9. ASSUME NEW k \in FaultKinds, FilterRefused(k) PROVE OwnInv'
  <2>1. /\ sup = "filter" /\ sup' = "reject" /\ transport' = transport /\ candidate' = candidate
        /\ tstate' = [tstate EXCEPT ![candidate] = "closing"]
        /\ transportWatch' = transportWatch
    BY <1>9 DEF FilterRefused, conn, txWatch
  <2> QED
    BY <1>1, <1>2, <1>3, <2>1
<1>10. CASE FilterReplayed
  <2>1. /\ sup = "filter" /\ sup' = "act" /\ transport' = candidate /\ candidate' = None
        /\ tstate' = tstate /\ (txAlive => transportWatch' = candidate)
    BY <1>10 DEF FilterReplayed, PublishTransport
  <2> QED
    BY <1>1, <1>2, <1>3, <2>1
<1> QED
  BY <1>4, <1>5, <1>6, <1>7, <1>8, <1>9, <1>10

\* Nothing else opens, closes or moves a transport.
LEMMA OwnOthers ==
  ASSUME SupervisorTypeOK, OwnInv,
         \/ FollowUp \/ BackToSelect \/ Exit \/ Start \/ SilenceFault \/ BackoffFires
         \/ StableFires \/ HandlesGone \/ StateSeenClosed \/ StateSeenOther
         \/ SetFilterReturns \/ HealthFires \/ HealthGood \/ RxFrame
         \/ \E in \in RxFaults : RxFault(in)
         \/ \E in \in {Input("BusOff"), Input("HealthTimeout")} : HealthBad(in)
         \/ \E c \in Closers : CommandClose(c)
         \/ \E k \in {"Fatal", "Permanent"}, t \in Transports : CommandTxFault(k, t)
         \/ \E f \in Asked : CommandSetFilter(f)
         \/ SupervisorLost \/ CyclicEnds \/ CyclicLost \/ Clients \/ TxEnvironment
  PROVE  OwnInv'
<1>1. CASE \/ Start \/ SilenceFault \/ BackoffFires
           \/ StableFires \/ HandlesGone \/ StateSeenClosed
           \/ \E in \in RxFaults : RxFault(in)
           \/ \E in \in {Input("BusOff"), Input("HealthTimeout")} : HealthBad(in)
           \/ \E c \in Closers : CommandClose(c)
           \/ \E k \in {"Fatal", "Permanent"}, t \in Transports : CommandTxFault(k, t)
  <2>1. /\ sup \in {"start", "select", "health"} /\ sup' = "act"
        /\ UNCHANGED <<conn, tstate, txWatch, txAlive>>
    BY <1>1 DEF Start, SilenceFault, BackoffFires, StableFires, HandlesGone, StateSeenClosed,
                RxFault, HealthBad, CommandClose, CommandTxFault, Take, Feed, Apply, tasks
  <2> QED
    BY <2>1, OwnMove DEF txWatch
<1>2. CASE FollowUp \/ BackToSelect \/ Exit
  <2>1. /\ sup = "act" /\ sup' \in {"act", "select", "done"}
        /\ UNCHANGED <<conn, tstate, txWatch, txAlive>>
    BY <1>2 DEF FollowUp, BackToSelect, Exit, Apply, Applied, ListDone, channelVars, tasks
  <2> QED
    BY <2>1, OwnMove DEF txWatch
<1>3. CASE SetFilterReturns \/ HealthFires \/ HealthGood \/ \E f \in Asked : CommandSetFilter(f)
  <2>1. /\ sup \in {"select", "health", "setFilter"} /\ sup' \in {"select", "health", "setFilter"}
        /\ UNCHANGED <<conn, tstate, txWatch, txAlive>>
    BY <1>3 DEF SetFilterReturns, HealthFires, HealthGood, CommandSetFilter, Take, channelVars,
                tasks
  <2> QED
    BY <2>1, OwnMove DEF txWatch
<1>4. CASE SupervisorLost
  BY <1>4, OwnLost DEF SupervisorLost
<1>5. CASE StateSeenOther \/ RxFrame \/ CyclicEnds \/ CyclicLost \/ Clients
  <2>1. UNCHANGED <<sup, conn, tstate, txWatch, txAlive>>
    BY <1>5 DEF StateSeenOther, RxFrame, CyclicEnds, CyclicLost, Clients, CloseCalled,
                CloseQueued, FilterAsked, HandleDropped, QuietElapses, channelVars, supVars,
                control, tasks
  <2> QED
    BY <2>1, OwnMove DEF txWatch
<1>6. CASE TxEnvironment
  <2>1. UNCHANGED <<sup, conn, tstate, transportWatch>> /\ (txAlive' => txAlive)
    BY <1>6 DEF TxEnvironment, TxPostsFault, TxSees, TxEnds, TxLost, supVars, control, tasks,
                txWatch
  <2> QED
    BY <2>1, OwnMove
<1> QED
  BY <1>1, <1>2, <1>3, <1>4, <1>5, <1>6

\* The initial states.
LEMMA OwnInit == SupervisorInit => OwnInv
BY DEF SupervisorInit, ChannelInit, SupInit, OwnInv, Owned, OneLiveTransport, Live

\* Whoever holds a transport, it is the only live one and the one published.
THEOREM OwnInvariance == SupervisorSpec => []OwnInv
<1>1. SupervisorTypeOK /\ FlowInv /\ OwnInv /\ [SupervisorNext]_supervisorVars => OwnInv'
  <2> SUFFICES ASSUME SupervisorTypeOK, FlowInv, OwnInv, [SupervisorNext]_supervisorVars
               PROVE  OwnInv'
    OBVIOUS
  <2>1. CASE Task
    BY <2>1, OwnExecuting, OwnOthers DEF Task
  <2>2. CASE Receive \/ SupervisorLost \/ CyclicEnds \/ CyclicLost \/ Clients \/ TxEnvironment
    BY <2>2, OwnOthers DEF Receive
  <2>3. CASE UNCHANGED supervisorVars
    BY <2>3, OwnMove DEF supervisorVars, channelVars, supVars, control, tasks, txWatch
  <2> QED
    BY <2>1, <2>2, <2>3 DEF SupervisorNext
<1> QED
  BY OwnInit, SupervisorTypesAlways, FlowInvariance, <1>1, PTL DEF SupervisorSpec

\* Two transports of one link never coexist, over any sequence of faults,
\* reconnections, refused filters and losses (actions.rs 38-72).
THEOREM OneLiveAlways == SupervisorSpec => []OneLiveTransport
<1>1. OwnInv => OneLiveTransport
  BY DEF OwnInv
<1> QED
  BY OwnInvariance, <1>1, PTL

\* Whenever the supervisor waits in its select, the deadlines, the transport and
\* what is published of it fit the state (mod.rs 173-348).
THEOREM SelectAlwaysSteady == SupervisorSpec => []SelectIsSteady
<1>1. SupervisorTypeOK /\ FlowInv /\ OwnInv => SelectIsSteady
  <2> SUFFICES ASSUME SupervisorTypeOK, FlowInv, OwnInv, Idle PROVE Steady
    BY DEF SelectIsSteady, Idle
  <2>1. Flow /\ Owned
    BY DEF FlowInv, OwnInv, Idle
  <2>2. machine.state = Connected \/ InBackoff(machine.state)
    BY <2>1, StatesNamed DEF Flow, InConnecting, Closing, Idle
  <2> QED
    BY <2>1, <2>2 DEF Flow, Owned, InConnected, BackingOff, Steady, Serving, Retrying, InBackoff,
                      Idle
<1> QED
  BY SupervisorTypesAlways, FlowInvariance, OwnInvariance, <1>1, PTL


-----------------------------------------------------------------------------
(* The gate: it leaves Open before the transport is withdrawn.             *)

GateBeforeClose ==
  \A i \in at..Len(todo) : todo[i].op = "CloseTransport" =>
    \E j \in at..(i - 1) : todo[j].op = "ApplyTxPolicy"

GateInv ==
  /\ GateHasTransport
  /\ txAlive /\ gate = "Open" /\ sup = "act" => GateBeforeClose

\* A step that touches neither watch, and the list at most to take it up at
\* a place where nothing is left or to start one that is in order.
LEMMA GateMove ==
  ASSUME GateInv, UNCHANGED <<gate, transportWatch, txAlive>>,
         (sup' = "act" /\ txAlive /\ gate = "Open") => GateBeforeClose'
  PROVE  GateInv'
BY DEF GateInv, GateHasTransport

\* Executing, Keeping something that is not the policy of the gate keeps the order.
LEMMA GateAdvance ==
  ASSUME SupervisorTypeOK, NEW op, op # "ApplyTxPolicy", NextIs(op), Advance, GateBeforeClose
  PROVE  GateBeforeClose'
<1>1. at \in Nat /\ Len(todo) \in Nat /\ todo' = todo /\ at' = at + 1 /\ todo[at].op = op
  BY DEF Advance, NextIs, SupervisorTypeOK, SupTypeOK
<1>2. ASSUME NEW i \in at'..Len(todo'), todo'[i].op = "CloseTransport"
      PROVE  \E j \in at'..(i - 1) : todo'[j].op = "ApplyTxPolicy"
  <2>1. PICK j \in at..(i - 1) : todo[j].op = "ApplyTxPolicy"
    BY <1>1, <1>2 DEF GateBeforeClose
  <2>2. j # at
    BY <1>1, <2>1
  <2> QED
    BY <1>1, <2>1, <2>2
<1> QED
  BY <1>2 DEF GateBeforeClose

\* Executing, Keeping an action list: the gate leaves Open before the transport is withdrawn.
LEMMA GateExecuting ==
  ASSUME SupervisorTypeOK, FlowInv, OwnInv, GateInv,
         \/ ExecuteEmit \/ ExecuteTxPolicy \/ ExecuteTimer \/ ExecuteClose \/ CloseReturns
         \/ ExecuteOpen \/ \E t \in Transports : OpenGives(t)
         \/ \E k \in FaultKinds : OpenFails(k) \/ FilterRefused(k)
         \/ FilterReplayed
  PROVE  GateInv'
<1>1. /\ sup \in {"act", "open", "filter", "reject", "close"}
      /\ txAlive' = txAlive
  BY DEF ExecuteEmit, ExecuteTxPolicy, ExecuteTimer, ExecuteClose, CloseReturns, ExecuteOpen,
         OpenGives, OpenFails, FilterRefused, FilterReplayed, NextIs, Executing, Keeping, tasks
<1>2. Flow /\ Owned /\ at \in Nat /\ Len(todo) \in Nat
  BY <1>1 DEF FlowInv, OwnInv, SupervisorTypeOK, SupTypeOK
<1>3. CASE ExecuteEmit \/ ExecuteTimer
  <2>1. PICK op : op # "ApplyTxPolicy" /\ NextIs(op)
    BY <1>3 DEF ExecuteEmit, ExecuteTimer
  <2>2. sup = "act" /\ Advance /\ UNCHANGED <<gate, transportWatch, sup>>
    BY <1>3, <2>1 DEF ExecuteEmit, ExecuteTimer, NextIs, gateWatch, txWatch
  <2> QED
    BY <1>1, <2>1, <2>2, GateAdvance, GateMove DEF GateInv
<1>4. CASE ExecuteTxPolicy
  <2>1. NextIs("ApplyTxPolicy") /\ transportWatch' = transportWatch /\ todo' = todo
    BY <1>4 DEF ExecuteTxPolicy, Advance, txWatch
  <2>2. CASE ~txAlive
    BY <1>1, <1>4, <2>1, <2>2 DEF ExecuteTxPolicy, PublishGate, gateWatch, GateInv,
                                  GateHasTransport
  <2>3. CASE txAlive
    <3>1. gate' = EffectiveGate(todo[at].arg)
      BY <1>4, <2>3 DEF ExecuteTxPolicy, PublishGate
    <3>2. CASE gate' # "Open"
      BY <3>2 DEF GateInv, GateHasTransport
    <3>3. CASE gate' = "Open"
      <4>1. todo[at].arg = "Open"
        BY <3>1, <3>3 DEF EffectiveGate
      <4>2. todo[at] = ApplyTxPolicy("Open")
        BY <2>1, <4>1, NextAction DEF LinkActions, Do, Emit, ApplyTxPolicy, NextIs
      <4>3. machine.state = Connected
        BY <1>2, <2>1, <4>2, NextFits DEF Flow
      <4>4. transportWatch # None
        BY <1>2, <2>3, <4>3 DEF Flow, InConnected, Owned
      <4>5. at' = at + 1
        BY <1>4 DEF ExecuteTxPolicy, Advance
      <4>6. GateBeforeClose'
        BY <1>2, <2>1, <4>3, <4>5, StatesDiffer DEF GateBeforeClose, Flow, Fits, InBackoff
      <4> QED
        BY <2>1, <4>4, <4>6 DEF GateInv, GateHasTransport
    <3> QED
      BY <3>2, <3>3
  <2> QED
    BY <2>2, <2>3
<1>5. CASE ExecuteClose
  <2>1. NextIs("CloseTransport") /\ gate' = gate /\ todo[at].op = "CloseTransport"
    BY <1>5 DEF ExecuteClose, NextIs, gateWatch
  <2>2. txAlive => gate # "Open"
    BY <1>2, <2>1 DEF GateInv, GateBeforeClose, NextIs
  <2>3. ~txAlive => transportWatch' = transportWatch
    BY <1>5 DEF ExecuteClose, PublishTransport, txWatch
  <2> QED
    BY <1>1, <2>1, <2>2, <2>3 DEF GateInv, GateHasTransport
<1>6. CASE CloseReturns
  <2>1. sup \in {"close", "reject"} /\ UNCHANGED <<gate, transportWatch>>
    BY <1>6 DEF CloseReturns, gateWatch, txWatch
  <2>2. transport = None
    BY <1>2, <2>1 DEF Owned, Flow, FollowsOpen
  <2>3. txAlive => gate # "Open"
    BY <1>2, <2>2 DEF Owned, GateInv, GateHasTransport
  <2> QED
    BY <1>1, <2>1, <2>3, GateMove
<1>7. CASE \/ ExecuteOpen \/ (\E t \in Transports : OpenGives(t))
           \/ \E k \in FaultKinds : FilterRefused(k)
  <2>1. sup' # "act" /\ UNCHANGED <<gate, transportWatch>>
    BY <1>7 DEF ExecuteOpen, OpenGives, FilterRefused, gateWatch, txWatch
  <2> QED
    BY <1>1, <2>1, GateMove
<1>8. ASSUME NEW k \in FaultKinds, OpenFails(k) PROVE GateInv'
  <2>1. sup = "open" /\ UNCHANGED <<gate, transportWatch, todo, at>>
    BY <1>8 DEF OpenFails, gateWatch, txWatch
  <2>2. GateBeforeClose'
    BY <1>2, <2>1 DEF GateBeforeClose, Flow, FollowsOpen
  <2> QED
    BY <1>1, <2>1, <2>2, GateMove
<1>9. CASE FilterReplayed
  <2>1. sup = "filter" /\ UNCHANGED <<gate, todo, at>>
    BY <1>9 DEF FilterReplayed, gateWatch
  <2>2. GateBeforeClose'
    BY <1>2, <2>1 DEF GateBeforeClose, Flow, FollowsOpen
  <2>3. transportWatch' = IF txAlive THEN candidate ELSE transportWatch
    BY <1>9 DEF FilterReplayed, PublishTransport, txWatch
  <2>4. candidate # None
    BY <1>2, <2>1 DEF Flow, FollowsOpen
  <2> QED
    BY <1>1, <2>1, <2>2, <2>3, <2>4 DEF GateInv, GateHasTransport
<1> QED
  BY <1>3, <1>4, <1>5, <1>6, <1>7, <1>8, <1>9

\* A list that starts is in order.
LEMMA GateApply ==
  ASSUME SupervisorTypeOK, NEW in \in LinkInputs, Apply(in)
  PROVE  GateBeforeClose'
BY ApplyAnswers DEF GateFirst, GateBeforeClose

\* No other step opens the gate or withdraws the transport.
LEMMA GateOthers ==
  ASSUME SupervisorTypeOK, GateInv,
         \/ FollowUp \/ BackToSelect \/ Exit \/ Start \/ SilenceFault \/ BackoffFires
         \/ StableFires \/ HandlesGone \/ StateSeenClosed \/ StateSeenOther
         \/ SetFilterReturns \/ HealthFires \/ HealthGood \/ RxFrame
         \/ \E in \in RxFaults : RxFault(in)
         \/ \E in \in {Input("BusOff"), Input("HealthTimeout")} : HealthBad(in)
         \/ \E c \in Closers : CommandClose(c)
         \/ \E k \in {"Fatal", "Permanent"}, t \in Transports : CommandTxFault(k, t)
         \/ \E f \in Asked : CommandSetFilter(f)
         \/ SupervisorLost \/ CyclicEnds \/ CyclicLost \/ Clients \/ TxEnvironment
  PROVE  GateInv'
<1>1. CASE \/ Start \/ SilenceFault \/ BackoffFires
           \/ StableFires \/ HandlesGone \/ StateSeenClosed
           \/ \E in \in RxFaults : RxFault(in)
           \/ \E in \in {Input("BusOff"), Input("HealthTimeout")} : HealthBad(in)
           \/ \E c \in Closers : CommandClose(c)
           \/ \E k \in {"Fatal", "Permanent"}, t \in Transports : CommandTxFault(k, t)
  <2>1. \E in \in LinkInputs : Feed(in)
    BY <1>1, FedInputs DEF Start, SilenceFault, BackoffFires, StableFires, HandlesGone,
       StateSeenClosed, RxFault, RxFaults, HealthBad, CommandClose, CommandTxFault
  <2> QED
    BY <2>1, GateApply, GateMove DEF Feed, gateWatch, txWatch, tasks
<1>2. CASE FollowUp
  <2>1. followup \in LinkInputs
    BY <1>2 DEF FollowUp, SupervisorTypeOK, SupTypeOK
  <2> QED
    BY <1>2, <2>1, GateApply, GateMove DEF FollowUp, gateWatch, txWatch, tasks
<1>3. CASE \/ BackToSelect \/ Exit \/ SetFilterReturns \/ HealthFires \/ HealthGood
           \/ \E f \in Asked : CommandSetFilter(f)
  <2>1. sup' # "act" /\ UNCHANGED <<gate, transportWatch, txAlive>>
    BY <1>3 DEF BackToSelect, Exit, SetFilterReturns, HealthFires, HealthGood,
       CommandSetFilter, channelVars, gateWatch, txWatch, tasks
  <2> QED
    BY <2>1, GateMove
<1>4. CASE StateSeenOther \/ RxFrame \/ CyclicEnds \/ CyclicLost \/ Clients
  <2>1. UNCHANGED <<gate, transportWatch, txAlive, sup, todo, at>>
    BY <1>4 DEF StateSeenOther, RxFrame, CyclicEnds, CyclicLost, Clients, CloseCalled,
       CloseQueued, FilterAsked, HandleDropped, QuietElapses, channelVars, supVars, control,
       gateWatch, txWatch, tasks
  <2> QED
    BY <2>1, GateMove DEF GateInv, GateBeforeClose
<1>5. CASE SupervisorLost
  BY <1>5 DEF SupervisorLost, FatalGuard, PublishGate, GateInv, GateHasTransport, gateWatch,
              txWatch
<1>6. CASE TxEnvironment
  <2>1. CASE TxLost
    BY <2>1 DEF TxLost, FatalGuard, PublishGate, GateInv, GateHasTransport, txWatch
  <2>2. CASE TxEnds
    BY <2>2 DEF TxEnds, GateInv, GateHasTransport, gateWatch, txWatch
  <2>3. ASSUME \/ TxSees
               \/ \E k \in {"Fatal", "Permanent"}, t \in Transports : TxPostsFault(k, t)
        PROVE  GateInv'
    <3>1. UNCHANGED <<gate, transportWatch, txAlive, sup, todo, at>>
      BY <2>3 DEF TxSees, TxPostsFault, supVars, control, gateWatch, txWatch, tasks
    <3> QED
      BY <3>1, GateMove DEF GateInv, GateBeforeClose
  <2> QED
    BY <1>6, <2>1, <2>2, <2>3 DEF TxEnvironment
<1> QED
  BY <1>1, <1>2, <1>3, <1>4, <1>5, <1>6

\* The order of the list and the open gate, in every state.
LEMMA GateInvariance == SupervisorSpec => []GateInv
<1>1. SupervisorInit => GateInv
  BY DEF SupervisorInit, ChannelInit, SupInit, GateInv, GateHasTransport
<1>2. SupervisorTypeOK /\ FlowInv /\ OwnInv /\ GateInv /\ [SupervisorNext]_supervisorVars
        => GateInv'
  <2> SUFFICES ASSUME SupervisorTypeOK, FlowInv, OwnInv, GateInv,
                      [SupervisorNext]_supervisorVars
               PROVE  GateInv'
    OBVIOUS
  <2>1. CASE Task
    BY <2>1, GateExecuting, GateOthers DEF Task
  <2>2. CASE Receive \/ SupervisorLost \/ CyclicEnds \/ CyclicLost \/ Clients \/ TxEnvironment
    BY <2>2, GateOthers DEF Receive
  <2>3. CASE UNCHANGED supervisorVars
    BY <2>3, GateMove DEF supervisorVars, channelVars, supVars, control, tasks, gateWatch,
       txWatch, GateInv, GateBeforeClose
  <2> QED
    BY <2>1, <2>2, <2>3 DEF SupervisorNext
<1> QED
  BY SupervisorTypesAlways, FlowInvariance, OwnInvariance, <1>1, <1>2, PTL DEF SupervisorSpec

\* What the tx worker counts on, of the supervisor and the guards: the gate is
\* Open only over a published transport (actions.rs 63-72, 101-110, guard.rs 61-77).
THEOREM SupervisorKeepsGate == SupervisorSpec => []GateHasTransport
<1>1. GateInv => GateHasTransport
  BY DEF GateInv
<1> QED
  BY GateInvariance, <1>1, PTL
=============================================================================
