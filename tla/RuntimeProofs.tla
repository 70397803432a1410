---------------------------- MODULE RuntimeProofs ----------------------------
(***************************************************************************)
(* Proofs about the whole link: the supervisor and the tx worker, each     *)
(* proved under a contract on the other, keep both contracts together.     *)
(* The argument goes in two rounds.  What the worker is shown to do to the *)
(* supervisor needs only facts that hold with both tasks at work; what the *)
(* supervisor does to the worker then needs the supervisor's invariants.   *)
(***************************************************************************)
EXTENDS LinkRuntime, SupervisorPromises, TxWorkerProofs

USE DEF None

-----------------------------------------------------------------------------
(* What is known of a transport the worker may name.                       *)

\* A transport in a variable of some task was given by the factory.
Known(t) == t # None => t \in Transports /\ tstate[t] # "unopened"

HeldInv ==
  /\ tstate \in [Transports -> {"unopened", "open", "closing", "closed"}]
  /\ Known(candidate) /\ Known(transportWatch) /\ Known(held)
  /\ txAlive <=> worker \notin {"done", "lost"}
  /\ worker \in {"send", "fault"} => held # None
  /\ worker = "fault" => faultKind \in {"Fatal", "Permanent"}

\* A transport that has been opened is never unopened again.
Remembered ==
  /\ tstate' \in [Transports -> {"unopened", "open", "closing", "closed"}]
  /\ \A t \in Transports : tstate[t] # "unopened" => tstate'[t] # "unopened"

\* A step that names no new transport but one that was known.
LEMMA HeldMove ==
  ASSUME HeldInv, Remembered,
         candidate' \in {candidate, None},
         transportWatch' \in {transportWatch, candidate, None},
         UNCHANGED <<txAlive, held, worker, faultKind>>
  PROVE  HeldInv'
BY DEF HeldInv, Known, Remembered

\* The supervisor and the guards.
LEMMA HeldSupervisor == HeldInv /\ SupervisorSide => HeldInv'
<1> SUFFICES ASSUME HeldInv, SupervisorSide PROVE HeldInv'
  OBVIOUS
<1>1. UNCHANGED <<held, worker, faultKind>>
  BY DEF SupervisorSide, workerVars, sending
<1>2. Remembered \/ tstate' # tstate
  BY DEF HeldInv, Remembered
<1>3. CASE \E t \in Transports : OpenGives(t)
  <2>1. PICK t \in Transports : OpenGives(t)
    BY <1>3
  <2>2. /\ tstate' = [tstate EXCEPT ![t] = "open"] /\ candidate' = t
        /\ UNCHANGED <<transportWatch, txAlive>>
    BY <2>1 DEF OpenGives, Executing, Keeping, txWatch, tasks
  <2>3. t # None
    BY ChannelsAssumption DEF Transports
  <2> QED
    BY <1>1, <2>2, <2>3 DEF HeldInv, Known
<1>4. CASE ExecuteClose
  <2>1. Remembered
    BY <1>4 DEF ExecuteClose, HeldInv, Remembered
  <2>2. UNCHANGED <<candidate, txAlive>> /\ transportWatch' \in {transportWatch, None}
    BY <1>4 DEF ExecuteClose, Executing, Keeping, PublishTransport, txWatch, tasks
  <2> QED
    BY <1>1, <2>1, <2>2, HeldMove
<1>5. CASE CloseReturns
  <2>1. Remembered
    BY <1>5 DEF CloseReturns, HeldInv, Remembered
  <2>2. candidate' = None /\ UNCHANGED <<transportWatch, txAlive>>
    BY <1>5 DEF CloseReturns, Executing, Keeping, txWatch, tasks
  <2> QED
    BY <1>1, <2>1, <2>2, HeldMove
<1>6. CASE FilterReplayed
  <2>1. /\ candidate' = None /\ transportWatch' \in {transportWatch, candidate}
        /\ UNCHANGED <<tstate, txAlive>>
    BY <1>6 DEF FilterReplayed, Executing, Keeping, PublishTransport, txWatch, tasks
  <2> QED
    BY <1>1, <1>2, <2>1, HeldMove
<1>7. CASE \E k \in FaultKinds : FilterRefused(k)
  <2>1. Remembered
    BY <1>7 DEF FilterRefused, HeldInv, Remembered
  <2>2. UNCHANGED <<candidate, transportWatch, txAlive>>
    BY <1>7 DEF FilterRefused, Executing, Keeping, conn, txWatch, tasks
  <2> QED
    BY <1>1, <2>1, <2>2, HeldMove
<1>8. ASSUME \/ ExecuteEmit \/ ExecuteTxPolicy \/ ExecuteTimer \/ ExecuteOpen
             \/ (\E k \in FaultKinds : OpenFails(k))
             \/ FollowUp \/ BackToSelect \/ Exit \/ SetFilterReturns \/ HealthFires
             \/ HealthGood \/ StateSeenOther \/ RxFrame
             \/ (\E f \in Asked : CommandSetFilter(f))
      PROVE  HeldInv'
  <2>1. UNCHANGED <<tstate, candidate, transportWatch, txAlive>>
    BY <1>8 DEF ExecuteEmit, ExecuteTxPolicy, ExecuteTimer, ExecuteOpen, OpenFails, FollowUp,
       BackToSelect, Exit, SetFilterReturns, HealthFires, HealthGood, StateSeenOther, RxFrame,
       CommandSetFilter, Executing, Keeping, channelVars, supVars, conn, txWatch, tasks
  <2> QED
    BY <1>1, <1>2, <2>1, HeldMove
<1>9. CASE Fed
  <2>1. UNCHANGED <<tstate, candidate, transportWatch, txAlive>>
    BY <1>9 DEF Fed, Start, SilenceFault, BackoffFires, StableFires, HandlesGone,
       StateSeenClosed, RxFault, HealthBad, CommandClose, CommandTxFault, Feed, conn, txWatch,
       tasks
  <2> QED
    BY <1>1, <1>2, <2>1, HeldMove
<1>10. CASE SupervisorLost \/ CyclicEnds \/ CyclicLost \/ Clients
  <2>1. /\ UNCHANGED <<tstate, transportWatch, txAlive>> /\ candidate' \in {candidate, None}
    BY <1>10 DEF SupervisorLost, CyclicEnds, CyclicLost, Clients, CloseCalled, CloseQueued,
       FilterAsked, HandleDropped, QuietElapses, channelVars, supVars, conn, txWatch, tasks
  <2> QED
    BY <1>1, <1>2, <2>1, HeldMove
<1> QED
  BY <1>3, <1>4, <1>5, <1>6, <1>7, <1>8, <1>9, <1>10
  DEF SupervisorSide, Task, Receive, Fed

\* The worker holds only a transport it has found published.
LEMMA HeldWorker ==
  ASSUME SupervisorTypeOK, HeldInv, WorkerSide \/ WorkerLost
  PROVE  HeldInv'
<1>1. UNCHANGED <<tstate, candidate, transportWatch>>
  BY DEF WorkerSide, WorkerLost, WorkerRuns, TxClients, Panics, Top, TakeNothing, TakeExpired,
     TakeFresh, BorrowNone, BorrowSome, SendOk, SendRetries, SendGivesUp, SendFaults, PostFault,
     Drain, Hold, SeeTransport, SeeGate, ParkReceives, ParkExpires, Exits, SendCalled,
     SendQueued, SendRefused, Age, channelVars, supVars, conn, txWatch
<1> USE DEF HeldInv, Known
<1>2. CASE Top
  <2>1. worker' \notin {"done", "lost", "send", "fault"} /\ UNCHANGED <<txAlive, held, faultKind>>
    BY <1>2 DEF Top, sending, channelVars, tasks, TxGates, SupervisorTypeOK, ChannelTypeOK,
       SharedTypeOK
  <2> QED
    BY <1>1, <1>2, <2>1 DEF Top
<1>3. CASE \/ TakeNothing \/ TakeExpired \/ TakeFresh \/ BorrowNone \/ SendOk \/ SendGivesUp
           \/ Drain \/ Hold \/ SeeTransport \/ SeeGate \/ ParkReceives \/ ParkExpires
           \/ PostFault
  <2>1. /\ worker' \notin {"done", "lost", "send", "fault"} /\ txAlive' = txAlive
        /\ held' \in {held, None}
        /\ worker \notin {"done", "lost"}
    BY <1>3 DEF TakeNothing, TakeExpired, TakeFresh, BorrowNone, SendOk, SendGivesUp, Drain,
       Hold, SeeTransport, SeeGate, ParkReceives, ParkExpires, PostFault, Goto, Again, Leave,
       sending, channelVars, tasks
  <2> QED
    BY <1>1, <2>1
<1>4. CASE BorrowSome
  BY <1>1, <1>4 DEF BorrowSome, channelVars, tasks
<1>5. CASE SendRetries
  BY <1>1, <1>5 DEF SendRetries, channelVars, tasks
<1>6. CASE \E k \in {"Fatal", "Permanent"} : SendFaults(k)
  BY <1>1, <1>6 DEF SendFaults, channelVars, tasks
<1>7. CASE Exits \/ Panics
  BY <1>1, <1>7 DEF Exits, Panics, Leave
<1>8. CASE TxClients
  <2>1. UNCHANGED <<txAlive, held, worker, faultKind>>
    BY <1>8 DEF TxClients, SendCalled, SendQueued, SendRefused, Age, sending, channelVars, tasks
  <2> QED
    BY <1>1, <2>1
<1> QED
  BY <1>2, <1>3, <1>4, <1>5, <1>6, <1>7, <1>8 DEF WorkerSide, WorkerLost, WorkerRuns

-----------------------------------------------------------------------------
(* The worker keeps the contract the supervisor is proved under.           *)

LEMMA WorkerKeepsContract ==
  HeldInv /\ [RuntimeNext]_runtimeVars => [SupervisorNext]_supervisorVars
<1> SUFFICES ASSUME HeldInv, [RuntimeNext]_runtimeVars PROVE [SupervisorNext]_supervisorVars
  OBVIOUS
<1>1. CASE SupervisorSide
  BY <1>1 DEF SupervisorSide, SupervisorNext
<1>2. CASE WorkerLost
  <2>1. txAlive /\ "tx" \in Losable
    BY <1>2, RuntimeAssumption DEF WorkerLost, Panics, HeldInv
  <2>2. TxLost
    BY <1>2, <2>1 DEF WorkerLost, Panics, TxLost, app
  <2> QED
    BY <2>2 DEF SupervisorNext, TxEnvironment
<1>3. CASE WorkerSide /\ PostFault
  <2>1. /\ txAlive /\ held \in Transports /\ tstate[held] # "unopened"
        /\ faultKind \in {"Fatal", "Permanent"}
    BY <1>3 DEF PostFault, HeldInv, Known
  <2>2. UNCHANGED <<closer, supVars, policy, stateWatch, gateWatch, txWatch, tstate, tasks,
                    handles>>
    BY <1>3 DEF WorkerSide, PostFault
  <2>3. CASE supAlive
    <3>1. TxPostsFault(faultKind, held)
      BY <1>3, <2>1, <2>2, <2>3 DEF PostFault, TxPostsFault, app
    <3> QED
      BY <2>1, <3>1 DEF SupervisorNext, TxEnvironment
  <2>4. CASE ~supAlive
    <3>1. commands' = commands
      BY <1>3, <2>4 DEF PostFault
    <3> QED
      BY <2>2, <3>1 DEF supervisorVars, channelVars
  <2> QED
    BY <2>3, <2>4
<1>4. CASE WorkerSide /\ (SeeTransport \/ SeeGate)
  <2>1. TxSees
    BY <1>4 DEF WorkerSide, SeeTransport, SeeGate, TxSees, HeldInv, gateWatch, txWatch, app
  <2> QED
    BY <2>1 DEF SupervisorNext, TxEnvironment
<1>5. CASE WorkerSide /\ Exits
  <2>1. TxEnds
    BY <1>5 DEF WorkerSide, Exits, TxEnds, HeldInv, NoMoreFrames, app
  <2> QED
    BY <2>1 DEF SupervisorNext, TxEnvironment
<1>6. CASE WorkerSide /\ UNCHANGED channelVars
  BY <1>6 DEF WorkerSide, supervisorVars
<1>7. CASE UNCHANGED runtimeVars
  BY <1>7 DEF runtimeVars
<1>8. ASSUME WorkerSide
      PROVE  PostFault \/ SeeTransport \/ SeeGate \/ Exits \/ UNCHANGED channelVars
  BY <1>8 DEF WorkerSide, WorkerRuns, TxClients, Top, TakeNothing, TakeExpired, TakeFresh,
     BorrowNone, BorrowSome, SendOk, SendRetries, SendGivesUp, SendFaults, Drain, Hold,
     ParkReceives, ParkExpires, SendCalled, SendQueued, SendRefused, Age
<1> QED
  BY <1>1, <1>2, <1>3, <1>4, <1>5, <1>6, <1>7, <1>8 DEF RuntimeNext

\* Both hold together: the types of the supervisor need the contract, and the
\* contract needs to know what the worker holds.
LEMMA HeldInvariance == RuntimeSpec => [](HeldInv /\ SupervisorTypeOK)
<1>1. RuntimeInit => HeldInv /\ SupervisorTypeOK
  BY InitTypes DEF RuntimeInit, SupervisorInit, ChannelInit, SupInit, TxInit, HeldInv, Known
<1>2. HeldInv /\ SupervisorTypeOK /\ [RuntimeNext]_runtimeVars => HeldInv' /\ SupervisorTypeOK'
  <2>1. HeldInv /\ UNCHANGED runtimeVars => HeldInv'
    BY DEF HeldInv, Known, runtimeVars, supervisorVars, supVars, conn, workerVars, sending,
       channelVars, txWatch, tasks
  <2> QED
    BY <2>1, HeldSupervisor, HeldWorker, WorkerKeepsContract, NextTypes DEF RuntimeNext
<1> QED
  BY <1>1, <1>2, PTL DEF RuntimeSpec

\* The supervisor of the whole link behaves as the one that is proved about.
LEMMA KeepsSupervisorSpec == RuntimeSpec => SupervisorSpec
<1>1. RuntimeInit => SupervisorInit
  BY DEF RuntimeInit, SupervisorInit
<1> QED
  BY HeldInvariance, WorkerKeepsContract, <1>1, PTL DEF RuntimeSpec, SupervisorSpec
-----------------------------------------------------------------------------
(* The supervisor keeps the contract the worker is proved under.           *)

\* What the contract rests on: the supervisor's invariants, and what the worker holds.
LinkInv == HeldInv /\ SupervisorTypeOK /\ FlowInv /\ OwnInv /\ GateInv

\* A step that the worker does not notice.
Unnoticed == UNCHANGED txVars

\* A task that has not ended is alive, and what it publishes is its own transport.
LEMMA Alive ==
  ASSUME LinkInv, sup \notin {"done", "lost"}
  PROVE  /\ supAlive /\ Owned /\ Flow
         /\ txAlive => transportWatch = transport
BY DEF LinkInv, FlowInv, OwnInv, Owned

\* The state a select branch publishes is never Disconnected: only a machine
\* that has not started is, and what it is fed is Start.
LEMMA FedState ==
  ASSUME LinkInv, Fed, UNCHANGED workerVars
  PROVE  Environment
<1>1. PICK in \in LinkInputs : Feed(in)
  BY FedStep DEF LinkInv
<1>2. Apply(in) /\ UNCHANGED <<policy, gateWatch, txWatch, tstate, tasks, handles>>
  BY <1>1 DEF Feed, app
<1>3. machine'.state # Disconnected
  <2>1. Reached(machine, in, machine'.state, todo')
    BY <1>2, ApplyAnswers DEF LinkInv
  <2>2. CASE Idle
    BY <2>1, <2>2, FedStep DEF LinkInv, Reached
  <2>3. CASE ~Idle
    <3>1. Start
      BY <2>3 DEF Fed, SilenceFault, BackoffFires, StableFires, HandlesGone,
         StateSeenClosed, RxFault, HealthBad, CommandClose, CommandTxFault, Take, Idle
    <3>2. Apply(Input("Start")) /\ machine.state = Disconnected
      BY <3>1 DEF Start, Feed, LinkInv, FlowInv, Flow
    <3>3. Step(machine, Input("Start")) = BeginOpen(machine)
      BY <3>2, StatesDiffer DEF Step, Input
    <3>4. machine'.state = Connecting
      BY <3>2, <3>3 DEF Apply, BeginOpen, Result
    <3> QED
      BY <3>4, StatesDiffer
  <2> QED
    BY <2>2, <2>3
<1>4. machine'.state \in LinkStates
  BY <1>2, ApplyTypes DEF LinkInv, Machines
<1>5. supAlive
  BY Alive, FedStep DEF LinkInv, Idle
<1>6. commands' = commands \/ (commands # <<>> /\ commands' = Tail(commands))
  BY DEF Fed, Start, SilenceFault, BackoffFires, StableFires, HandlesGone, StateSeenClosed,
     RxFault, HealthBad, CommandClose, CommandTxFault, Take
<1>7. PublishState(machine'.state)
  BY <1>2 DEF Apply, PublishState
<1>8. EnvState(machine'.state)
  BY <1>2, <1>3, <1>5, <1>6, <1>7 DEF EnvState, RestOfWorker
<1> QED
  BY <1>4, <1>8 DEF Environment

\* Another round of apply_input publishes what an open led to.
LEMMA FollowUpState ==
  ASSUME LinkInv, FollowUp, UNCHANGED workerVars
  PROVE  Environment
<1>1. followup \in LinkInputs /\ Apply(followup) /\ machine.state = Connecting
  BY FollowUpStep DEF LinkInv
<1>2. machine'.state # Disconnected
  BY <1>1, ApplyAnswers, StatesDiffer DEF LinkInv, Reached
<1>3. machine'.state \in LinkStates
  BY <1>1, ApplyTypes DEF LinkInv, Machines
<1>4. supAlive
  BY Alive DEF FollowUp, ListDone
<1>5. EnvState(machine'.state)
  BY <1>1, <1>2, <1>4 DEF EnvState, RestOfWorker, FollowUp, Apply, PublishState, app
<1> QED
  BY <1>3, <1>5 DEF Environment

\* The gate is opened over the transport of the connection, published before.
LEMMA PolicyIsAllowed ==
  ASSUME LinkInv, ExecuteTxPolicy, UNCHANGED workerVars
  PROVE  Environment \/ Unnoticed
<1>1. /\ NextIs("ApplyTxPolicy") /\ PublishGate(EffectiveGate(todo[at].arg))
      /\ UNCHANGED <<policy, stateWatch, txWatch, commands, tstate, tasks, handles>>
  BY DEF ExecuteTxPolicy, Executing, Keeping, app
<1>2. supAlive /\ Owned /\ Flow /\ (txAlive => transportWatch = transport)
  BY <1>1, Alive DEF NextIs
<1>3. CASE ~txAlive
  BY <1>1, <1>3 DEF PublishGate, Unnoticed, txVars, stateWatch
<1>4. CASE txAlive
  <2>1. todo[at] \in LinkActions /\ todo[at].op = "ApplyTxPolicy"
    BY <1>1, NextAction DEF NextIs, LinkInv
  <2>2. \E g \in TxGates : todo[at] = ApplyTxPolicy(g)
    BY <2>1 DEF LinkActions, Do, Emit, ApplyTxPolicy
  <2>3. EffectiveGate(todo[at].arg) \in TxGates
    BY <2>2 DEF EffectiveGate, ApplyTxPolicy, TxGates
  <2>4. ASSUME EffectiveGate(todo[at].arg) = "Open" PROVE transportWatch # None
    <3>1. todo[at] = ApplyTxPolicy("Open")
      BY <2>2, <2>4 DEF EffectiveGate, ApplyTxPolicy
    <3>2. machine.state = Connected
      BY <1>1, <1>2, <3>1, NextFits DEF LinkInv, Flow
    <3> QED
      BY <1>2, <1>4, <3>2 DEF Flow, InConnected
  <2>5. EnvGate(EffectiveGate(todo[at].arg))
    BY <1>1, <1>2, <2>4 DEF EnvGate, RestOfWorker
  <2> QED
    BY <2>3, <2>5 DEF Environment
<1> QED
  BY <1>3, <1>4

\* The transport is withdrawn under a gate that is not open, in the same step in
\* which it starts to close.
LEMMA CloseIsAllowed ==
  ASSUME LinkInv, ExecuteClose, UNCHANGED workerVars
  PROVE  Environment \/ Unnoticed
<1>1. /\ NextIs("CloseTransport") /\ PublishTransport(None)
      /\ UNCHANGED <<policy, stateWatch, gateWatch, commands, tasks, handles>>
      /\ tstate' = IF transport = None THEN tstate ELSE [tstate EXCEPT ![transport] = "closing"]
  BY DEF ExecuteClose, Executing, Keeping, app
<1>2. supAlive /\ Owned /\ Flow /\ (txAlive => transportWatch = transport)
  BY <1>1, Alive DEF NextIs
<1>3. /\ tstate \in [Transports -> {"unopened", "open", "closing", "closed"}]
      /\ transport \in Transports \cup {None} /\ None \notin Transports
  BY ChannelsAssumption DEF LinkInv, SupervisorTypeOK, ChannelTypeOK, SharedTypeOK, SupTypeOK,
     Transports
<1>4. CASE txAlive
  <2>1. gate # "Open"
    <3>1. CASE transport = None
      BY <1>2, <1>4, <3>1 DEF LinkInv, GateInv, GateHasTransport
    <3>2. CASE transport # None
      <4>1. at \in 1..Len(todo) /\ todo[at].op = "CloseTransport" /\ sup = "act"
        BY <1>1, NextAction DEF NextIs, LinkInv
      <4>2. ~GateBeforeClose
        BY <4>1 DEF GateBeforeClose
      <4> QED
        BY <1>4, <4>1, <4>2 DEF LinkInv, GateInv
    <3> QED
      BY <3>1, <3>2
  <2>2. tstate' = [t \in Transports |-> IF t = transportWatch THEN "closing" ELSE tstate[t]]
    BY <1>1, <1>2, <1>3, <1>4
  <2>3. EnvWithdraws
    BY <1>1, <1>2, <2>1, <2>2 DEF EnvWithdraws, RestOfWorker
  <2> QED
    BY <2>3 DEF Environment
<1>5. CASE ~txAlive /\ transport = None
  BY <1>1, <1>5 DEF PublishTransport, Unnoticed, txVars, stateWatch
<1>6. CASE ~txAlive /\ transport # None
  <2>1. tstate[transport] = "open"
    BY <1>2, <1>6 DEF Owned
  <2>2. EnvTransport(transport, "closing")
    BY <1>1, <1>2, <1>6, <2>1 DEF EnvTransport, PublishTransport, RestOfWorker
  <2> QED
    BY <1>3, <1>6, <2>2 DEF Environment
<1> QED
  BY <1>4, <1>5, <1>6

\* One transport at most is closing, and the worker does not see it any more.
LEMMA ClosedIsAllowed ==
  ASSUME LinkInv, CloseReturns, UNCHANGED workerVars
  PROVE  Environment \/ Unnoticed
<1>1. /\ sup \in {"close", "reject"}
      /\ tstate' = [t \in Transports |-> IF tstate[t] = "closing" THEN "closed" ELSE tstate[t]]
      /\ UNCHANGED <<policy, stateWatch, gateWatch, txWatch, commands, tasks, handles>>
  BY DEF CloseReturns, Executing, Keeping, app
<1>2. supAlive /\ Owned /\ Flow /\ (txAlive => transportWatch = transport)
  BY <1>1, Alive
<1>3. tstate \in [Transports -> {"unopened", "open", "closing", "closed"}]
  BY DEF LinkInv, HeldInv
<1>4. transport = None
  BY <1>1, <1>2 DEF Owned, Flow, FollowsOpen
<1>5. CASE \E t \in Transports : tstate[t] = "closing"
  <2>1. PICK t \in Transports : tstate[t] = "closing"
    BY <1>5
  <2>2. \A u \in Transports : tstate[u] = "closing" => u = t
    BY <2>1 DEF LinkInv, OwnInv, OneLiveTransport, Live
  <2>3. tstate' = [tstate EXCEPT ![t] = "closed"]
    BY <1>1, <1>3, <2>1, <2>2
  <2>4. t # None
    BY ChannelsAssumption DEF Transports
  <2>5. EnvTransport(t, "closed")
    BY <1>1, <1>2, <1>4, <2>1, <2>3, <2>4 DEF EnvTransport, RestOfWorker
  <2> QED
    BY <2>5 DEF Environment
<1>6. CASE ~ \E t \in Transports : tstate[t] = "closing"
  <2>1. tstate' = tstate
    BY <1>1, <1>3, <1>6
  <2> QED
    BY <1>1, <2>1 DEF Unnoticed, txVars, stateWatch
<1> QED
  BY <1>5, <1>6

\* The transport that opens is not one the worker can see.
LEMMA OpenIsAllowed ==
  ASSUME LinkInv, NEW t \in Transports, OpenGives(t), UNCHANGED workerVars
  PROVE  Environment
<1>1. /\ sup = "open" /\ tstate[t] = "unopened" /\ tstate' = [tstate EXCEPT ![t] = "open"]
      /\ UNCHANGED <<policy, stateWatch, gateWatch, txWatch, commands, tasks, handles>>
  BY DEF OpenGives, Executing, Keeping, app
<1>2. supAlive
  BY <1>1, Alive
<1>3. t # transportWatch
  <2>1. t # None
    BY ChannelsAssumption DEF Transports
  <2> QED
    BY <1>1, <2>1 DEF LinkInv, HeldInv, Known
<1>4. EnvTransport(t, "open")
  BY <1>1, <1>2, <1>3 DEF EnvTransport, RestOfWorker
<1> QED
  BY <1>4 DEF Environment

\* A transport under test is open, and not yet published.
LEMMA CandidateFacts ==
  ASSUME LinkInv, sup = "filter"
  PROVE  /\ candidate \in Transports /\ tstate[candidate] = "open" /\ supAlive
         /\ txAlive => transportWatch = None
         /\ None \notin Transports
<1>1. supAlive /\ Owned /\ Flow /\ (txAlive => transportWatch = transport)
  BY Alive
<1>2. transport = None /\ candidate # None
  BY <1>1 DEF Flow, FollowsOpen
<1>3. candidate \in Transports \cup {None} /\ None \notin Transports
  BY ChannelsAssumption DEF LinkInv, SupervisorTypeOK, SupTypeOK, Transports
<1> QED
  BY <1>1, <1>2, <1>3 DEF Owned

\* What became of the replay of the filter is published, or kept from the worker.
LEMMA FilterIsAllowed ==
  ASSUME LinkInv, FilterReplayed \/ (\E k \in FaultKinds : FilterRefused(k)),
         UNCHANGED workerVars
  PROVE  Environment \/ Unnoticed
<1>1. sup = "filter"
  BY DEF FilterReplayed, FilterRefused
<1>2. CASE FilterReplayed /\ txAlive
  <2>1. EnvPublishes(candidate)
    BY <1>1, <1>2, CandidateFacts DEF FilterReplayed, Executing, EnvPublishes, RestOfWorker, app
  <2> QED
    BY <1>1, <2>1, CandidateFacts DEF Environment
<1>3. CASE FilterReplayed /\ ~txAlive
  BY <1>3 DEF FilterReplayed, PublishTransport, Executing, Unnoticed, txVars, stateWatch, app
<1>4. CASE \E k \in FaultKinds : FilterRefused(k)
  <2>1. candidate = transportWatch => ~txAlive
    BY <1>1, CandidateFacts
  <2>2. EnvTransport(candidate, "closing")
    BY <1>1, <1>4, <2>1, CandidateFacts DEF FilterRefused, Executing, Keeping, EnvTransport,
       RestOfWorker, app
  <2> QED
    BY <1>1, <2>2, CandidateFacts DEF Environment
<1> QED
  BY <1>2, <1>3, <1>4

\* The task ends at its last line, or with its guard.
LEMMA EndIsAllowed ==
  ASSUME LinkInv, Exit \/ SupervisorLost, UNCHANGED workerVars
  PROVE  Environment
<1>1. sup \notin {"done", "lost"}
  BY DEF Exit, Applied, ListDone, SupervisorLost
<1>2. supAlive
  BY <1>1, Alive
<1>3. EnvEnds
  BY <1>2 DEF Exit, SupervisorLost, DropReceiver, EnvEnds, RestOfWorker
<1> QED
  BY <1>3 DEF Environment

\* The clients ask only a supervisor that is alive, within the room of its queue.
LEMMA ClientsAreAllowed ==
  ASSUME Clients, handles' # handles => \A s \in Senders : sender[s] = "idle",
         UNCHANGED workerVars
  PROVE  Environment \/ Unnoticed
<1>1. CASE QuietElapses \/ \E c \in Closers : CloseCalled(c)
  BY <1>1 DEF QuietElapses, CloseCalled, Unnoticed, txVars, channelVars, stateWatch
<1>2. ASSUME NEW c \in Closers, CloseQueued(c) PROVE Environment \/ Unnoticed
  <2>1. CASE supAlive
    <3>1. EnvAsks(CloseRequest(c))
      BY <1>2, <2>1 DEF CloseQueued, EnvAsks, RestOfWorker
    <3> QED
      BY <3>1 DEF Environment
  <2>2. CASE ~supAlive
    BY <1>2, <2>2 DEF CloseQueued, Unnoticed, txVars, stateWatch
  <2> QED
    BY <2>1, <2>2
<1>3. ASSUME NEW f \in Asked, FilterAsked(f) PROVE Environment
  <2>1. EnvAsks(FilterRequest(f))
    BY <1>3 DEF FilterAsked, EnvAsks, RestOfWorker, app
  <2> QED
    BY <2>1 DEF Environment
<1>4. ASSUME NEW h \in Droppable, HandleDropped(h) PROVE Environment
  <2>1. h = "link" => \A s \in Senders : sender[s] = "idle"
    BY <1>4 DEF HandleDropped
  <2>2. EnvDrops(h)
    BY <1>4, <2>1 DEF HandleDropped, EnvDrops, RestOfWorker
  <2> QED
    BY <2>2 DEF Environment
<1> QED
  BY <1>1, <1>2, <1>3, <1>4 DEF Clients

\* Every step of the supervisor, its guards and its clients is one the worker's
\* contract allows, or one that the worker does not notice.
LEMMA SupervisorKeepsContract ==
  ASSUME LinkInv, SupervisorSide
  PROVE  Environment \/ Unnoticed
<1>1. UNCHANGED workerVars
  BY DEF SupervisorSide
<1>2. CASE Fed \/ FollowUp
  BY <1>1, <1>2, FedState, FollowUpState
<1>3. CASE ExecuteTxPolicy
  BY <1>1, <1>3, PolicyIsAllowed
<1>4. CASE ExecuteClose \/ CloseReturns
  BY <1>1, <1>4, CloseIsAllowed, ClosedIsAllowed
<1>5. CASE \/ (\E t \in Transports : OpenGives(t)) \/ FilterReplayed
           \/ (\E k \in FaultKinds : FilterRefused(k))
  BY <1>1, <1>5, OpenIsAllowed, FilterIsAllowed
<1>6. CASE Exit \/ SupervisorLost
  BY <1>1, <1>6, EndIsAllowed
<1>7. CASE \E f \in Asked : CommandSetFilter(f)
  <2>1. supAlive
    BY <1>7, Alive DEF CommandSetFilter, Take
  <2>2. EnvTakes
    BY <1>1, <1>7, <2>1 DEF CommandSetFilter, Take, EnvTakes, RestOfWorker, app
  <2> QED
    BY <2>2 DEF Environment
<1>8. CASE \/ ExecuteEmit \/ ExecuteTimer \/ ExecuteOpen \/ (\E k \in FaultKinds : OpenFails(k))
           \/ BackToSelect \/ SetFilterReturns \/ HealthFires \/ HealthGood
           \/ StateSeenOther \/ RxFrame
  BY <1>1, <1>8 DEF ExecuteEmit, ExecuteTimer, ExecuteOpen, OpenFails, BackToSelect,
     SetFilterReturns, HealthFires, HealthGood, StateSeenOther, RxFrame, Executing, Keeping,
     Unnoticed,
     txVars, channelVars, stateWatch, app
<1>9. CASE CyclicEnds \/ CyclicLost
  <2>1. EnvSchedulerEnds
    BY <1>1, <1>9 DEF CyclicEnds, CyclicLost, EnvSchedulerEnds, RestOfWorker, app
  <2> QED
    BY <2>1 DEF Environment
<1>10. CASE Clients
  BY <1>1, <1>10, ClientsAreAllowed DEF SupervisorSide
<1> QED
  BY <1>2, <1>3, <1>4, <1>5, <1>6, <1>7, <1>8, <1>9, <1>10
  DEF SupervisorSide, Task, Receive, Fed

\* The worker of the whole link behaves as the one that is proved about.
LEMMA KeepsTxWorkerSpec == RuntimeSpec => TxWorkerSpec
<1>1. RuntimeInit => TxWorkerInit
  BY DEF RuntimeInit, TxWorkerInit
<1>2. LinkInv /\ [RuntimeNext]_runtimeVars => [TxWorkerNext]_txVars
  <2>1. UNCHANGED runtimeVars => UNCHANGED txVars
    BY DEF runtimeVars, supervisorVars, channelVars, stateWatch, txVars
  <2>2. WorkerSide \/ WorkerLost => TxWorkerNext
    BY DEF WorkerSide, WorkerLost, TxWorkerNext
  <2>3. LinkInv /\ SupervisorSide => [TxWorkerNext]_txVars
    BY SupervisorKeepsContract DEF Unnoticed, TxWorkerNext
  <2> QED
    BY <2>1, <2>2, <2>3 DEF RuntimeNext
<1>3. HeldInv /\ SupervisorTypeOK /\ FlowInv /\ OwnInv /\ GateInv => LinkInv
  BY DEF LinkInv
<1> QED
  BY HeldInvariance, KeepsSupervisorSpec, SupervisorTypesAlways, FlowInvariance, OwnInvariance,
     GateInvariance, <1>1, <1>2, <1>3, PTL DEF RuntimeSpec, TxWorkerSpec

\* The supervisor and the tx worker, each proved under a contract on the other,
\* keep both contracts when they run together (supervisor/mod.rs 104-360,
\* actions.rs 28-112, guard.rs 61-77, txqueue.rs 126-320).
THEOREM ContractsAreKept == RuntimeSpec => KeepsContracts
BY KeepsSupervisorSpec, KeepsTxWorkerSpec DEF KeepsContracts

-----------------------------------------------------------------------------
(* The whole link                                                          *)

\* Both queues keep their capacities, the counters their limits and every variable
\* its range with the supervisor and the worker interleaved in any way.
THEOREM RuntimeTypesAlways == RuntimeSpec => []RuntimeTypeOK
<1>1. SupervisorTypeOK /\ TxTypeOK => RuntimeTypeOK
  BY DEF RuntimeTypeOK
<1> QED
  BY KeepsSupervisorSpec, KeepsTxWorkerSpec, SupervisorTypesAlways, TxTypesAlways, <1>1, PTL

\* What the supervisor promises its clients and the worker its senders holds of the
\* link that runs both, with no contract left to assume: one live transport at a
\* time, close() that awaits it, an announced end, the saved filter on a new
\* connection, a steady select, no silence fault before its window, and the abstract
\* lifecycle; a gate that is open only over a transport, a wait that never blocks, a
\* staged segment within its capacity, no frame sent that expired in a queue, and one
\* queue that answers each frame once.
THEOREM LinkKeepsPromises ==
  RuntimeSpec =>
    /\ []OneLiveTransport /\ []SelectIsSteady /\ []QuietWindow /\ []EndIsAnnounced
    /\ []PublishedState /\ CloseAwaitsCleanup /\ FilterIsReplayed /\ ImplementsLifecycle
    /\ []GateHasTransport /\ []WaitFindsChange /\ []GateChangeWakes /\ []StagedIsBounded
    /\ ExpiredIsNotTaken /\ ImplementsFrameQueue
<1>1. SupervisorSpec =>
        /\ []OneLiveTransport /\ []SelectIsSteady /\ []QuietWindow /\ []EndIsAnnounced
        /\ []PublishedState
        /\ CloseAwaitsCleanup /\ FilterIsReplayed /\ ImplementsLifecycle
  BY OneLiveAlways, SelectAlwaysSteady, QuietAlwaysOwn, EndAlwaysAnnounced, StateAlwaysPublished,
     CloseAlwaysAwaits, FilterAlwaysReplayed, SupervisorImplements
<1>2. TxWorkerSpec =>
        /\ []GateHasTransport /\ []WaitFindsChange /\ []GateChangeWakes /\ []StagedIsBounded
        /\ ExpiredIsNotTaken /\ ImplementsFrameQueue
  BY GateAlwaysHasTransport, WaitAlwaysFindsChange, GateChangeAlwaysWakes,
     StagedAlwaysBounded, ExpiredNeverTaken, QueueImplements
<1> QED
  BY KeepsSupervisorSpec, KeepsTxWorkerSpec, <1>1, <1>2
=============================================================================
