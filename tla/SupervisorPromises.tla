------------------------- MODULE SupervisorPromises -------------------------
(***************************************************************************)
(* Proofs of what the supervisor promises its clients: what close()        *)
(* awaits, that the end is announced, which filter a new connection        *)
(* carries, what a silence fault is charged to, what state is published,   *)
(* and that all of it is a lifecycle of LinkLifecycle.                     *)
(***************************************************************************)
EXTENDS SupervisorProofs

USE DEF None

-----------------------------------------------------------------------------
(* close() and the cleanup                                                 *)

\* With the link closed and nothing left to execute, no transport is live.
LEMMA ClosedIsClean ==
  ASSUME SupervisorTypeOK, FlowInv, OwnInv, sup # "lost", machine.state = Closed,
         sup = "done" \/ ListDone
  PROVE  \A t \in Transports : ~Live(t)
<1>1. Flow /\ Owned /\ sup \in {"act", "done"}
  BY DEF FlowInv, OwnInv, ListDone
<1>2. transport = None
  BY <1>1, NothingDue, StatesDiffer DEF Flow, Closing, ListDone
<1>3. candidate = None
  BY <1>1 DEF Flow, FollowsOpen
<1>4. \A t \in Transports : t # None
  BY DEF Transports
<1> QED
  BY <1>1, <1>2, <1>3, <1>4 DEF Owned, Live

\* The task that is done left a closed link.
LEMMA DoneIsClosed ==
  ASSUME SupervisorTypeOK, FlowInv, sup = "done"
  PROVE  machine.state = Closed
BY StatesNamed DEF FlowInv, Flow, InConnecting, InConnected, BackingOff, Idle

\* With the machine closed, what is still live is being closed or about to be.
LEMMA ClosedIsCleaning ==
  ASSUME SupervisorTypeOK, FlowInv, OwnInv, machine.state = Closed
  PROVE  CleanedUp \/ CleaningUp
<1>1. CASE sup \in {"lost", "close"}
  BY <1>1 DEF CleanedUp, CleaningUp
<1>2. CASE sup # "lost" /\ (sup = "done" \/ ListDone)
  BY <1>2, ClosedIsClean DEF CleanedUp
<1>3. CASE sup = "act" /\ ~Due("CloseTransport")
  <2>1. Flow /\ Owned
    BY <1>3 DEF FlowInv, OwnInv
  <2>2. transport = None
    BY <1>3, <2>1 DEF Flow, Closing
  <2>3. candidate = None
    BY <1>3, <2>1 DEF Flow, FollowsOpen
  <2>4. \A t \in Transports : t # None
    BY DEF Transports
  <2> QED
    BY <1>3, <2>1, <2>2, <2>3, <2>4 DEF Owned, Live, CleanedUp
<1>4. CASE sup = "act" /\ Due("CloseTransport")
  BY <1>4 DEF CleaningUp
<1>5. sup = "lost" \/ sup \in {"act", "close", "done"}
  BY StatesDiffer DEF FlowInv, Flow, Closing
<1> QED
  BY <1>1, <1>2, <1>3, <1>4, <1>5

\* However a close() returns, every transport the link ever opened has been closed, or
\* the task was lost, or the link was found Closed at the call: then a transport that is
\* left is in close() or has its CloseTransport due, unless only a guard has closed the
\* link yet (mod.rs:244-258 and 342-350, link.rs:513-530).
THEOREM CloseAlwaysAwaits == SupervisorSpec => CloseAwaitsCleanup
<1> DEFINE Early(c) == closer[c] = "idle" /\ linkState = Closed /\ (CleaningUp \/ GuardClosed)
           Awaits ==
             \A c \in Closers : Returns(c) =>
               \/ CleanedUp'
               \/ closer[c] = "idle" /\ linkState = Closed /\ (CleaningUp \/ GuardClosed)
<1>1. SupervisorTypeOK /\ FlowInv /\ OwnInv /\ [SupervisorNext]_supervisorVars => Awaits
  <2> SUFFICES ASSUME SupervisorTypeOK, FlowInv, OwnInv, [SupervisorNext]_supervisorVars,
                      NEW c \in Closers, closer[c] # "returned",
                      closer'[c] = "returned", sup' # "lost"
               PROVE  (\A t \in Transports : ~Live(t)') \/ Early(c)
    BY DEF Returns, CleanedUp
  <2>1. Exit \/ \E d \in Closers : CloseCalled(d) \/ CloseQueued(d)
    <3>1. closer' # closer
      OBVIOUS
    <3>2. CASE Task \/ Receive
      BY <3>1, <3>2 DEF Task, Receive, Start, ExecuteEmit, ExecuteTxPolicy, ExecuteTimer,
         ExecuteClose, CloseReturns, ExecuteOpen, FollowUp, BackToSelect, OpenGives, OpenFails,
         FilterRefused, FilterReplayed, SetFilterReturns, HealthFires, HealthGood, HealthBad,
         BackoffFires, StableFires, SilenceFault, HandlesGone, StateSeenClosed, StateSeenOther,
         CommandClose, CommandTxFault, CommandSetFilter, RxFrame, RxFault, Feed, Executing,
         Keeping, app
    <3>3. CASE SupervisorLost \/ CyclicEnds \/ CyclicLost \/ Clients \/ TxEnvironment
      BY <3>1, <3>3 DEF SupervisorLost, CyclicEnds, CyclicLost, Clients, FilterAsked,
         HandleDropped, QuietElapses, TxEnvironment, TxPostsFault, TxSees, TxEnds, TxLost, app
    <3>4. CASE UNCHANGED supervisorVars
      BY <3>1, <3>4 DEF supervisorVars
    <3> QED
      BY <3>2, <3>3, <3>4 DEF SupervisorNext
  <2>2. UNCHANGED tstate
    BY <2>1 DEF Exit, CloseCalled, CloseQueued
  <2>3. CASE Exit
    <3>1. machine.state = Closed /\ ListDone
      BY <2>3 DEF Exit, Applied
    <3> QED
      BY <2>2, <3>1, ClosedIsClean DEF Live, ListDone
  <2>4. ASSUME NEW d \in Closers, CloseCalled(d)
        PROVE  (\A t \in Transports : ~Live(t)') \/ Early(c)
    <3>1. d = c
      BY <2>4 DEF CloseCalled, SupervisorTypeOK, SupTypeOK
    <3>2. closer[c] = "idle" /\ linkState = Closed /\ sup' = sup
      BY <2>4, <3>1 DEF CloseCalled, SupervisorTypeOK, SupTypeOK, supVars, control
    <3>3. CASE machine.state = Closed
      BY <2>2, <3>2, <3>3, ClosedIsCleaning DEF CleanedUp, Live
    <3>4. CASE machine.state # Closed
      BY <3>2, <3>4 DEF GuardClosed
    <3> QED
      BY <3>3, <3>4
  <2>5. ASSUME NEW d \in Closers, CloseQueued(d) PROVE \A t \in Transports : ~Live(t)'
    <3>1. ~supAlive /\ sup' = sup
      BY <2>5 DEF CloseQueued, supVars, control, SupervisorTypeOK, SupTypeOK
    <3>2. sup = "done"
      BY <3>1 DEF FlowInv
    <3> QED
      BY <2>2, <3>2, DoneIsClosed, ClosedIsClean DEF Live
  <2> QED
    BY <2>1, <2>3, <2>4, <2>5
<1> QED
  BY SupervisorTypesAlways, FlowInvariance, OwnInvariance, <1>1, PTL
  DEF SupervisorSpec, CloseAwaitsCleanup

-----------------------------------------------------------------------------
(* The branches of the select and the rounds of apply_input                *)

Fed ==
  \/ Start \/ SilenceFault \/ BackoffFires \/ StableFires \/ HandlesGone \/ StateSeenClosed
  \/ \E in \in RxFaults : RxFault(in)
  \/ \E in \in {Input("BusOff"), Input("HealthTimeout")} : HealthBad(in)
  \/ \E c \in Closers : CommandClose(c)
  \/ \E k \in {"Fatal", "Permanent"}, t \in Transports : CommandTxFault(k, t)

\* What the select feeds is an input of the machine, and it is fed where no
\* connection is being made and the link is not closed.
LEMMA FedStep ==
  ASSUME SupervisorTypeOK, FlowInv, Fed
  PROVE  /\ Idle \/ sup = "start"
         /\ machine.state # Connecting /\ machine.state # Closed
         /\ Idle => machine.state # Disconnected
         /\ \E in \in LinkInputs : Feed(in)
<1>1. Idle \/ sup = "start"
  BY DEF Fed, Start, SilenceFault, BackoffFires, StableFires, HandlesGone, StateSeenClosed,
         RxFault, HealthBad, CommandClose, CommandTxFault, Take, Idle
<1>2. \E in \in LinkInputs : Feed(in)
  BY FedInputs DEF Fed, Start, SilenceFault, BackoffFires, StableFires, HandlesGone,
     StateSeenClosed, RxFault, RxFaults, HealthBad, CommandClose, CommandTxFault
<1>3. Flow
  BY <1>1 DEF FlowInv, Idle
<1> QED
  BY <1>1, <1>2, <1>3, StatesDiffer DEF Flow, Idle, InConnecting, Closing

\* A round of apply_input started by an open steps from Connecting.
LEMMA FollowUpStep ==
  ASSUME SupervisorTypeOK, FlowInv, FollowUp
  PROVE  /\ followup \in LinkInputs /\ Apply(followup)
         /\ machine.state = Connecting
         /\ followup.name = "OpenSucceeded" => followup = Input("OpenSucceeded")
         /\ followup.name \in {"OpenSucceeded", "OpenFailed"}
<1>1. /\ sup = "act" /\ followup # NoInput /\ Apply(followup) /\ followup \in LinkInputs
  BY DEF FollowUp, ListDone, SupervisorTypeOK, SupTypeOK
<1>2. /\ machine.state = Connecting
      /\ followup.name \in {"OpenSucceeded", "OpenFailed"}
  BY <1>1 DEF FlowInv, Flow, FollowsOpen
<1> QED
  BY <1>1, <1>2 DEF LinkInputs, Input, OpenFailed, TransportFault

-----------------------------------------------------------------------------
(* The filter of a new connection                                          *)

FilterInv ==
  /\ sup # "lost" /\ machine.state = Connecting /\ followup = Input("OpenSucceeded")
       => applied = savedFilter
  /\ sup = "act" /\ machine.state = Connected /\ ~wasConnected => applied = savedFilter

\* Steps that leave the control and the filters alone.
LEMMA FilterStable ==
  ASSUME FilterInv,
         UNCHANGED <<sup, machine, followup, wasConnected, filters>>
  PROVE  FilterInv'
BY DEF FilterInv, filters

\* Executing, Keeping an action list: the filter is replayed before OpenSucceeded is answered.
LEMMA FilterExecuting ==
  ASSUME SupervisorTypeOK, FlowInv, FilterInv,
         \/ ExecuteEmit \/ ExecuteTxPolicy \/ ExecuteTimer \/ ExecuteClose \/ CloseReturns
         \/ ExecuteOpen \/ \E t \in Transports : OpenGives(t)
         \/ \E k \in FaultKinds : OpenFails(k) \/ FilterRefused(k)
         \/ FilterReplayed
  PROVE  FilterInv'
<1>1. CASE ExecuteEmit \/ ExecuteTxPolicy \/ ExecuteTimer
  BY <1>1, FilterStable DEF ExecuteEmit, ExecuteTxPolicy, ExecuteTimer, Executing, Keeping, filters
<1>2. CASE ExecuteClose
  <2>1. machine.state # Connecting /\ machine.state # Connected /\ machine' = machine
    <3>1. Fits(todo, machine.state)
      BY <1>2 DEF ExecuteClose, NextIs, FlowInv, Flow
    <3>2. InBackoff(machine.state) \/ machine.state = Closed
      BY <1>2, <3>1, NextFits DEF ExecuteClose
    <3> QED
      BY <1>2, <3>2, StatesDiffer DEF ExecuteClose, Executing, Keeping, InBackoff
  <2> QED
    BY <2>1 DEF FilterInv
<1>3. CASE CloseReturns
  <2>1. sup \in {"close", "reject"} /\ UNCHANGED <<machine, followup, wasConnected, filters>>
    BY <1>3 DEF CloseReturns, Executing, Keeping, filters
  <2>2. machine.state # Connected
    BY <2>1, StatesDiffer DEF FlowInv, Flow, InConnected, Idle
  <2> QED
    BY <2>1, <2>2 DEF FilterInv, filters
<1>4. CASE ExecuteOpen \/ (\E t \in Transports : OpenGives(t))
  BY <1>4 DEF ExecuteOpen, OpenGives, NextIs, Executing, Keeping, FilterInv
<1>5. CASE (\E k \in FaultKinds : OpenFails(k) \/ FilterRefused(k))
  <2>1. /\ machine.state = Connecting /\ machine' = machine
        /\ followup' # Input("OpenSucceeded")
    BY <1>5 DEF OpenFails, FilterRefused, Executing, Keeping, FlowInv, Flow, FollowsOpen,
       OpenFailed, Input
  <2> QED
    BY <2>1, StatesDiffer DEF FilterInv
<1>6. CASE FilterReplayed
  BY <1>6 DEF FilterReplayed, Executing, Keeping, FilterInv
<1> QED
  BY <1>1, <1>2, <1>3, <1>4, <1>5, <1>6

\* The saved filter changes only where no connection is being made.
LEMMA FilterOthers ==
  ASSUME SupervisorTypeOK, FlowInv, FilterInv,
         \/ Fed \/ FollowUp \/ BackToSelect \/ Exit \/ SetFilterReturns \/ HealthFires
         \/ HealthGood \/ StateSeenOther \/ RxFrame
         \/ \E f \in Asked : CommandSetFilter(f)
         \/ SupervisorLost \/ CyclicEnds \/ CyclicLost \/ Clients \/ TxEnvironment
  PROVE  FilterInv'
<1>1. CASE Fed
  <2>1. PICK in \in LinkInputs : Feed(in)
    BY <1>1, FedStep
  <2>2. /\ wasConnected' = (machine.state = Connected) /\ UNCHANGED followup
        /\ Reached(machine, in, machine'.state, todo')
    BY <2>1, ApplyAnswers DEF Feed
  <2>3. /\ machine.state # Connecting /\ followup = NoInput
    BY <1>1, FedStep DEF FlowInv, Flow, FollowsOpen, Idle
  <2>4. NoInput # Input("OpenSucceeded")
    BY DEF NoInput, Input
  <2> QED
    BY <2>2, <2>3, <2>4, StatesDiffer DEF FilterInv, Reached
<1>2. CASE FollowUp
  <2>1. /\ machine.state = Connecting /\ followup' = NoInput /\ UNCHANGED filters
        /\ Reached(machine, followup, machine'.state, todo')
        /\ followup.name = "OpenSucceeded" => followup = Input("OpenSucceeded")
        /\ sup # "lost"
    BY <1>2, FollowUpStep, ApplyAnswers DEF FollowUp, ListDone
  <2>2. NoInput # Input("OpenSucceeded")
    BY DEF NoInput, Input
  <2> QED
    BY <2>1, <2>2, StatesDiffer DEF FilterInv, Reached, filters
<1>3. CASE BackToSelect \/ Exit
  <2>1. /\ followup' = NoInput /\ sup' # "act"
    BY <1>3 DEF BackToSelect, Exit, Applied
  <2> QED
    BY <2>1 DEF FilterInv, NoInput, Input
<1>4. CASE \/ SetFilterReturns \/ HealthFires \/ HealthGood
           \/ \E f \in Asked : CommandSetFilter(f)
  <2>1. Idle /\ sup' # "act" /\ machine' = machine
    BY <1>4 DEF SetFilterReturns, HealthFires, HealthGood, CommandSetFilter, Take, Idle
  <2>2. machine.state # Connecting
    BY <2>1 DEF FlowInv, Flow, InConnecting, Idle
  <2> QED
    BY <2>1, <2>2 DEF FilterInv
<1>5. CASE StateSeenOther \/ RxFrame \/ CyclicEnds \/ CyclicLost \/ Clients \/ TxEnvironment
  <2>1. UNCHANGED <<sup, machine, followup, wasConnected, filters>>
    BY <1>5 DEF StateSeenOther, RxFrame, CyclicEnds, CyclicLost, Clients, CloseCalled,
       CloseQueued, FilterAsked, HandleDropped, QuietElapses, TxEnvironment, TxPostsFault,
       TxSees, TxEnds, TxLost, supVars, control
  <2> QED
    BY <2>1, FilterStable
<1>6. CASE SupervisorLost
  BY <1>6 DEF SupervisorLost, FilterInv
<1> QED
  BY <1>1, <1>2, <1>3, <1>4, <1>5, <1>6

\* A step of the supervisor falls under one of the two families of actions.
LEMMA NextSplit ==
  ASSUME [SupervisorNext]_supervisorVars
  PROVE  \/ ExecuteEmit \/ ExecuteTxPolicy \/ ExecuteTimer \/ ExecuteClose \/ CloseReturns
         \/ ExecuteOpen \/ (\E t \in Transports : OpenGives(t))
         \/ (\E k \in FaultKinds : OpenFails(k) \/ FilterRefused(k))
         \/ FilterReplayed
         \/ Fed \/ FollowUp \/ BackToSelect \/ Exit \/ SetFilterReturns \/ HealthFires
         \/ HealthGood \/ StateSeenOther \/ RxFrame
         \/ (\E f \in Asked : CommandSetFilter(f))
         \/ SupervisorLost \/ CyclicEnds \/ CyclicLost \/ Clients \/ TxEnvironment
         \/ UNCHANGED supervisorVars
BY DEF SupervisorNext, Task, Receive, Fed

\* A connection that is new since the select carries the saved filter.
LEMMA FilterInvariance == SupervisorSpec => []FilterInv
<1>1. SupervisorInit => FilterInv
  BY StatesDiffer DEF SupervisorInit, SupInit, FilterInv, NoInput, Input
<1>2. SupervisorTypeOK /\ FlowInv /\ FilterInv /\ [SupervisorNext]_supervisorVars => FilterInv'
  <2>1. UNCHANGED supervisorVars
          => UNCHANGED <<sup, machine, followup, wasConnected, filters>>
    BY DEF supervisorVars, supVars, control
  <2> QED
    BY <2>1, NextSplit, FilterExecuting, FilterOthers, FilterStable
<1> QED
  BY SupervisorTypesAlways, FlowInvariance, <1>1, <1>2, PTL DEF SupervisorSpec

\* When the supervisor is back in its select with a connection it did not have
\* before, the transport carries the filter saved last (actions.rs 38-58).
THEOREM FilterAlwaysReplayed == SupervisorSpec => FilterIsReplayed
<1> DEFINE Replayed == sup' = "select" /\ machine'.state = Connected /\ ~wasConnected /\ sup = "act"
                         => applied' = savedFilter'
<1>1. FilterInv /\ [SupervisorNext]_supervisorVars => Replayed
  <2> SUFFICES ASSUME FilterInv, [SupervisorNext]_supervisorVars, sup' = "select", sup = "act",
                      machine'.state = Connected, ~wasConnected
               PROVE  applied' = savedFilter'
    OBVIOUS
  <2>1. BackToSelect
    BY NextSplit DEF ExecuteEmit, ExecuteTxPolicy, ExecuteTimer, ExecuteClose, CloseReturns,
       ExecuteOpen, OpenGives, OpenFails, FilterRefused, FilterReplayed, Fed, Start,
       SilenceFault, BackoffFires, StableFires, HandlesGone, StateSeenClosed, RxFault, HealthBad,
       CommandClose, CommandTxFault, Take, Feed, Apply, FollowUp, Exit, SetFilterReturns,
       HealthFires, HealthGood, StateSeenOther, RxFrame, CommandSetFilter, SupervisorLost,
       CyclicEnds, CyclicLost, Clients, CloseCalled, CloseQueued, FilterAsked, HandleDropped,
       QuietElapses, TxEnvironment, TxPostsFault, TxSees, TxEnds, TxLost, supervisorVars, supVars,
       control
  <2> QED
    BY <2>1 DEF BackToSelect, FilterInv, filters
<1> QED
  BY FilterInvariance, <1>1, PTL DEF SupervisorSpec, FilterIsReplayed

-----------------------------------------------------------------------------
(* The silence window                                                      *)

QuietInv ==
  /\ sup # "lost" /\ machine.state = Connecting => ~wasConnected
  /\ machine.state = Connected /\ (Idle \/ (sup = "act" /\ wasConnected)) => ~rxOld

\* Steps that leave the control and the silence window alone.
LEMMA QuietStable ==
  ASSUME QuietInv, UNCHANGED <<sup, machine, wasConnected, quiet>>
  PROVE  QuietInv'
BY DEF QuietInv, quiet, Idle

\* Every step: a transport is only installed in Connecting, which the machine never enters
\* from Connected, and last_rx restarts when apply_input returns with it.
LEMMA QuietStep ==
  ASSUME SupervisorTypeOK, FlowInv, QuietInv, [SupervisorNext]_supervisorVars
  PROVE  QuietInv'
<1>1. CASE Fed
  <2>1. PICK in \in LinkInputs : Feed(in)
    BY <1>1, FedStep
  <2>2. /\ wasConnected' = (machine.state = Connected) /\ UNCHANGED quiet /\ sup' = "act"
        /\ Reached(machine, in, machine'.state, todo')
    BY <2>1, ApplyAnswers DEF Feed
  <2>3. machine.state # Connecting /\ (Idle \/ sup = "start")
    BY <1>1, FedStep
  <2>4. sup = "start" => machine.state # Connected
    BY StatesDiffer DEF FlowInv, Flow
  <2> QED
    BY <2>2, <2>3, <2>4, StatesDiffer DEF QuietInv, Reached, quiet, Idle, InBackoff
<1>2. CASE FollowUp
  <2>1. /\ machine.state = Connecting /\ UNCHANGED <<wasConnected, quiet>> /\ sup' = "act"
        /\ sup # "lost"
    BY <1>2, FollowUpStep, ApplyAnswers DEF FollowUp, ListDone
  <2> QED
    BY <2>1 DEF QuietInv, Idle
<1>3. CASE BackToSelect
  <2>1. sup = "act" /\ sup' = "select" /\ machine' = machine
    BY <1>3 DEF BackToSelect, Applied, ListDone
  <2> QED
    BY <1>3, <2>1 DEF BackToSelect, QuietInv, quiet, Idle
<1>4. CASE SetFilterReturns \/ HealthFires \/ HealthGood \/ \E f \in Asked : CommandSetFilter(f)
  <2>1. /\ Idle /\ sup' \in {"select", "health", "setFilter"}
        /\ UNCHANGED <<machine, wasConnected, quiet>>
    BY <1>4 DEF SetFilterReturns, HealthFires, HealthGood, CommandSetFilter, Take, Idle
  <2> QED
    BY <2>1 DEF QuietInv, quiet, Idle
<1>5. CASE RxFrame \/ QuietElapses
  <2>1. rxOld' = FALSE \/ rxOld' = rxOld
    BY <1>5 DEF RxFrame, QuietElapses
  <2>2. UNCHANGED <<sup, machine, wasConnected>>
    BY <1>5 DEF RxFrame, QuietElapses, control
  <2> QED
    BY <2>1, <2>2 DEF QuietInv, Idle
<1>6. CASE \/ ExecuteEmit \/ ExecuteTxPolicy \/ ExecuteTimer \/ ExecuteClose \/ CloseReturns
           \/ ExecuteOpen \/ (\E t \in Transports : OpenGives(t))
           \/ (\E k \in FaultKinds : OpenFails(k) \/ FilterRefused(k))
  <2>1. /\ sup \in {"act", "open", "filter", "reject", "close"}
        /\ sup' \in {"act", "open", "filter", "reject", "close"}
        /\ UNCHANGED <<machine, wasConnected, quiet>>
    BY <1>6 DEF ExecuteEmit, ExecuteTxPolicy, ExecuteTimer, ExecuteClose, CloseReturns,
       ExecuteOpen, OpenGives, OpenFails, FilterRefused, NextIs, Executing, Keeping, quiet
  <2>2. sup # "act" => machine.state # Connected
    BY <2>1, StatesDiffer DEF FlowInv, Flow, InConnected, Idle
  <2> QED
    BY <2>1, <2>2 DEF QuietInv, quiet, Idle
<1>9. CASE FilterReplayed
  <2>1. sup = "filter" /\ sup' = "act" /\ UNCHANGED <<machine, wasConnected>>
    BY <1>9 DEF FilterReplayed, Executing
  <2>2. machine.state = Connecting
    BY <2>1 DEF FlowInv, Flow, FollowsOpen
  <2> QED
    BY <2>1, <2>2, StatesDiffer DEF QuietInv
<1>7. CASE Exit \/ SupervisorLost
  <2>1. sup' \in {"done", "lost"} /\ UNCHANGED <<machine, wasConnected>>
    BY <1>7 DEF Exit, SupervisorLost
  <2>2. sup # "lost"
    BY <1>7 DEF Exit, SupervisorLost, Applied, ListDone
  <2> QED
    BY <2>1, <2>2 DEF QuietInv, Idle
<1>8. CASE \/ StateSeenOther \/ CyclicEnds \/ CyclicLost \/ (Clients /\ ~QuietElapses)
           \/ TxEnvironment \/ UNCHANGED supervisorVars
  <2>1. UNCHANGED <<sup, machine, wasConnected, quiet>>
    BY <1>8 DEF StateSeenOther, CyclicEnds, CyclicLost, Clients, CloseCalled, CloseQueued,
       FilterAsked, HandleDropped, TxEnvironment, TxPostsFault, TxSees, TxEnds, TxLost,
       supervisorVars, supVars, control
  <2> QED
    BY <2>1, QuietStable
<1> QED
  BY <1>1, <1>2, <1>3, <1>4, <1>5, <1>6, <1>7, <1>8, <1>9, NextSplit

\* In the select of a connected link the silence window counts from an instant after the
\* current transport was installed: neither the time of the open nor a frame of an
\* earlier connection is charged to this one (mod.rs:171, 337-341; receive.rs:34).
THEOREM QuietAlwaysOwn == SupervisorSpec => []QuietWindow
<1>1. SupervisorInit => QuietInv
  BY StatesDiffer DEF SupervisorInit, SupInit, QuietInv
<1>2. SupervisorTypeOK /\ FlowInv /\ QuietInv /\ [SupervisorNext]_supervisorVars => QuietInv'
  BY QuietStep
<1>3. QuietInv => QuietWindow
  BY DEF QuietInv, QuietWindow, Idle
<1> QED
  BY SupervisorTypesAlways, FlowInvariance, <1>1, <1>2, <1>3, PTL DEF SupervisorSpec

-----------------------------------------------------------------------------
(* The end is announced                                                    *)

Announced == lastEvent \in {"Closed", "Failed", "WorkerLost"}

EndInv ==
  sup # "lost" /\ machine.state = Closed =>
    Announced \/ (sup \in {"act", "close"} /\ Due("Emit"))

\* Steps that leave the control alone and at most report a lost worker.
LEMMA EndStable ==
  ASSUME EndInv, UNCHANGED <<sup, machine, todo, at>>, Announced => Announced'
  PROVE  EndInv'
BY DEF EndInv, Due

\* Every step: a list that closes the link still holds its last event, or has sent it.
LEMMA EndStep ==
  ASSUME SupervisorTypeOK, FlowInv, EndInv, [SupervisorNext]_supervisorVars
  PROVE  EndInv'
<1>1. CASE Fed
  <2>1. PICK in \in LinkInputs : Feed(in)
    BY <1>1, FedStep
  <2>2. /\ sup' = "act"
        /\ Has(todo', "Emit") => Due("Emit")'
        /\ Reached(machine, in, machine'.state, todo')
    BY <2>1, ApplyAnswers DEF Feed
  <2> QED
    BY <1>1, <2>2, FedStep DEF EndInv, Reached
<1>2. CASE FollowUp
  <2>1. /\ machine.state = Connecting /\ sup' = "act"
        /\ Has(todo', "Emit") => Due("Emit")'
        /\ Reached(machine, followup, machine'.state, todo')
    BY <1>2, FollowUpStep, ApplyAnswers
  <2> QED
    BY <2>1, StatesDiffer DEF EndInv, Reached
<1>3. CASE ExecuteEmit
  <2>1. sup = "act" /\ NextIs("Emit") /\ machine' = machine /\ lastEvent' = todo[at].arg
    BY <1>3 DEF ExecuteEmit, NextIs, Executing, Keeping
  <2>2. machine.state = Closed => todo[at].arg \in {"Closed", "Failed"}
    BY <2>1, NextFits DEF FlowInv, Flow
  <2> QED
    BY <2>1, <2>2 DEF EndInv, Announced
<1>4. CASE ExecuteTxPolicy \/ ExecuteTimer \/ ExecuteClose \/ ExecuteOpen
  <2>1. PICK op : op # "Emit" /\ NextIs(op)
    BY <1>4 DEF ExecuteTxPolicy, ExecuteTimer, ExecuteClose, ExecuteOpen
  <2>2. /\ sup = "act" /\ Advance /\ UNCHANGED <<machine, lastEvent>>
        /\ sup' \in {"act", "close"} \/ ExecuteOpen
    BY <1>4 DEF ExecuteTxPolicy, ExecuteTimer, ExecuteClose, ExecuteOpen, NextIs, Executing, Keeping
  <2>3. Due("Emit") => Due("Emit")'
    BY <2>1, <2>2, AdvanceDue
  <2>4. ExecuteOpen => machine.state # Closed
    BY <2>2, NextFits, StatesDiffer DEF ExecuteOpen, FlowInv, Flow
  <2> QED
    BY <2>2, <2>3, <2>4 DEF EndInv, Announced
<1>5. CASE CloseReturns
  <2>1. sup \in {"close", "reject"} /\ sup' = "act" /\ UNCHANGED <<machine, todo, at, lastEvent>>
    BY <1>5 DEF CloseReturns, Executing, Keeping
  <2> QED
    BY <2>1 DEF EndInv, Announced, Due
<1>6. CASE \/ (\E t \in Transports : OpenGives(t))
           \/ (\E k \in FaultKinds : OpenFails(k) \/ FilterRefused(k))
           \/ FilterReplayed
  <2>1. sup \in {"open", "filter"} /\ machine' = machine
    BY <1>6 DEF OpenGives, OpenFails, FilterRefused, FilterReplayed, Executing, Keeping
  <2> QED
    BY <2>1, StatesDiffer DEF FlowInv, Flow, FollowsOpen, EndInv
<1>7. CASE BackToSelect \/ Exit
  <2>1. /\ sup = "act" /\ at > Len(todo) /\ UNCHANGED <<machine, lastEvent>>
    BY <1>7 DEF BackToSelect, Exit, Applied, ListDone
  <2>2. ~Due("Emit")
    BY <2>1, NothingDue
  <2> QED
    BY <2>1, <2>2 DEF EndInv, Announced
<1>8. CASE SetFilterReturns \/ HealthFires \/ HealthGood \/ \E f \in Asked : CommandSetFilter(f)
  <2>1. Idle /\ UNCHANGED <<machine, lastEvent>>
    BY <1>8 DEF SetFilterReturns, HealthFires, HealthGood, CommandSetFilter, Take, Idle
  <2> QED
    BY <2>1 DEF EndInv, Announced, Idle
<1>9. CASE SupervisorLost
  BY <1>9 DEF SupervisorLost, EndInv
<1>10. CASE \/ StateSeenOther \/ RxFrame \/ CyclicEnds \/ CyclicLost \/ Clients
            \/ TxEnvironment \/ UNCHANGED supervisorVars
  <2>1. UNCHANGED <<sup, machine, todo, at>> /\ lastEvent' \in {lastEvent, "WorkerLost"}
    BY <1>10 DEF StateSeenOther, RxFrame, CyclicEnds, CyclicLost, Clients, CloseCalled,
       CloseQueued, FilterAsked, HandleDropped, QuietElapses, TxEnvironment, TxPostsFault, TxSees,
       TxEnds, TxLost, supervisorVars, supVars, control
  <2> QED
    BY <2>1, EndStable DEF Announced
<1> QED
  BY <1>1, <1>2, <1>3, <1>4, <1>5, <1>6, <1>7, <1>8, <1>9, <1>10, NextSplit

\* The task that reaches its last line has sent Closed or Failed, or a guard
\* has reported a worker since (machine.rs 161-333, actions.rs 110-112, mod.rs 350-358).
THEOREM EndAlwaysAnnounced == SupervisorSpec => []EndIsAnnounced
<1>1. SupervisorInit => EndInv
  BY StatesDiffer DEF SupervisorInit, SupInit, EndInv
<1>2. SupervisorTypeOK /\ FlowInv /\ EndInv /\ [SupervisorNext]_supervisorVars => EndInv'
  BY EndStep
<1>3. SupervisorTypeOK /\ FlowInv /\ EndInv => EndIsAnnounced
  BY DoneIsClosed DEF EndInv, Announced, EndIsAnnounced
<1> QED
  BY SupervisorTypesAlways, FlowInvariance, <1>1, <1>2, <1>3, PTL DEF SupervisorSpec

-----------------------------------------------------------------------------
(* The published state                                                     *)

\* What Link::state() and send() read is the state of the machine, unless a
\* guard has closed the link (mod.rs 104-119, guard.rs 61-77).
THEOREM StateAlwaysPublished == SupervisorSpec => []PublishedState
<1>1. SupervisorInit => PublishedState
  BY DEF SupervisorInit, ChannelInit, SupInit, PublishedState
<1>2. SupervisorTypeOK /\ FlowInv /\ PublishedState /\ [SupervisorNext]_supervisorVars
        => PublishedState'
  <2> SUFFICES ASSUME SupervisorTypeOK, FlowInv, PublishedState, [SupervisorNext]_supervisorVars
               PROVE  PublishedState'
    OBVIOUS
  <2>1. CASE Fed
    BY <2>1, FedStep, ApplyAnswers DEF Feed, PublishedState
  <2>2. CASE FollowUp
    BY <2>2, FollowUpStep, ApplyAnswers DEF PublishedState
  <2>3. CASE \/ ExecuteEmit \/ ExecuteTxPolicy \/ ExecuteTimer \/ ExecuteClose \/ CloseReturns
             \/ ExecuteOpen \/ (\E t \in Transports : OpenGives(t))
             \/ (\E k \in FaultKinds : OpenFails(k) \/ FilterRefused(k))
             \/ FilterReplayed \/ BackToSelect \/ Exit \/ SetFilterReturns \/ HealthFires
             \/ HealthGood \/ StateSeenOther \/ RxFrame
             \/ \E f \in Asked : CommandSetFilter(f)
    <3>1. UNCHANGED <<machine, linkState>>
      BY <2>3 DEF ExecuteEmit, ExecuteTxPolicy, ExecuteTimer, ExecuteClose, CloseReturns,
         ExecuteOpen, OpenGives, OpenFails, FilterRefused, FilterReplayed, BackToSelect, Exit,
         SetFilterReturns, HealthFires, HealthGood, StateSeenOther, RxFrame, CommandSetFilter,
         Executing, Keeping, channelVars, stateWatch, supVars, control
    <3> QED
      BY <3>1 DEF PublishedState
  <2>4. CASE SupervisorLost \/ CyclicEnds \/ CyclicLost \/ Clients \/ TxEnvironment
             \/ UNCHANGED supervisorVars
    <3>1. machine' = machine /\ linkState' \in {linkState, Closed}
      BY <2>4 DEF SupervisorLost, CyclicEnds, CyclicLost, Clients, CloseCalled, CloseQueued,
         FilterAsked, HandleDropped, QuietElapses, TxEnvironment, TxPostsFault, TxSees, TxEnds,
         TxLost, FatalGuard, PublishState, supervisorVars, channelVars, stateWatch, supVars,
         control
    <3> QED
      BY <3>1 DEF PublishedState
  <2> QED
    BY <2>1, <2>2, <2>3, <2>4, NextSplit
<1> QED
  BY SupervisorTypesAlways, FlowInvariance, <1>1, <1>2, PTL DEF SupervisorSpec

-----------------------------------------------------------------------------
(* The lifecycle: the supervisor implements LinkLifecycle.  The state is    *)
(* the machine's, the live transports are those that are open or being      *)
(* closed, and every step is a lifecycle step or a stutter.                 *)

live == {t \in Transports : Live(t)}
used == {t \in Transports : tstate[t] = "closed"}

\* How a step of the machine moves the state and the attempt counter.
Moved(m, in, n) ==
  \/ n = m
  \/ /\ m.state = Disconnected \/ InBackoff(m.state)
     /\ n.state = Connecting /\ n.attempt = m.attempt
  \/ /\ m.state = Connecting /\ in.name = "OpenSucceeded"
     /\ n.state = Connected /\ n.attempt = m.attempt
  \/ /\ m.state = Connected \/ (m.state = Connecting /\ in.name = "OpenFailed")
     /\ ~Exhausted(Saturate(m.attempt))
     /\ n.state = Backoff(Saturate(m.attempt)) /\ n.attempt = Saturate(m.attempt)
  \/ m.state = Connected /\ n.state = m.state /\ n.attempt = 0
  \/ m.state # Closed /\ n.state = Closed /\ n.attempt = m.attempt

\* Every transition is one of these moves.
LEMMA StepMoves ==
  ASSUME NEW m \in Machines, NEW in \in LinkInputs
  PROVE  Moved(m, in, Step(m, in).machine)
<1> DEFINE r == Step(m, in)
<1> HIDE DEF r
<1> SUFFICES Moved(m, in, r.machine)
  BY DEF r
<1>1. Transition(m, in, r)
  BY StepTransition DEF r
<1>2. m = [state |-> m.state, attempt |-> m.attempt]
  BY DEF Machines
<1> USE StatesDiffer DEF Result, Moved, InBackoff
<1>3. CASE r = Ignore(m)
  BY <1>2, <1>3 DEF Ignore
<1>4. CASE m.state # Closed /\ r = CloseByUser(m)
  BY <1>4 DEF CloseByUser
<1>5. CASE r = BeginOpen(m) /\ (m.state = Disconnected \/ m.state.name = "Backoff")
  BY <1>5 DEF BeginOpen
<1>6. CASE m.state = Connecting /\ in.name = "OpenSucceeded" /\ r = OpenedOk(m)
  BY <1>6 DEF OpenedOk
<1>7. CASE m.state = Connecting /\ in.name = "OpenFailed" /\ r \in {OpenDenied(m), FailOrBackoff(m)}
  BY <1>7 DEF OpenDenied, FailOrBackoff
<1>8. CASE m.state = Connected /\ \E e \in {"BusOff", "Reconnecting"} : r = ConnectedFault(m, e)
  BY <1>8 DEF ConnectedFault
<1>9. CASE m.state = Connected /\ r = FaultDenied(m)
  BY <1>9 DEF FaultDenied
<1>10. CASE /\ m.state = Connected
            /\ \/ r = Result(m.state, m.attempt, <<Emit("Warning")>>)
               \/ r = Result(m.state, 0, <<>>)
  BY <1>2, <1>10
<1> QED
  BY <1>1, <1>3, <1>4, <1>5, <1>6, <1>7, <1>8, <1>9, <1>10 DEF Transition

\* The machine of the supervisor moves so when an input is applied.
LEMMA ApplyMoves ==
  ASSUME SupervisorTypeOK, NEW in \in LinkInputs, Apply(in)
  PROVE  /\ Moved(machine, in, machine') /\ Saturate(machine.attempt) \in 1..AttemptMax
         /\ machine'.state \in LinkStates
<1>1. machine \in Machines /\ machine' \in Machines
  BY ApplyTypes DEF SupervisorTypeOK, SupTypeOK
<1>2. Saturate(machine.attempt) \in 1..AttemptMax
  BY <1>1, MachineAssumption DEF Machines, Saturate
<1> QED
  BY <1>1, <1>2, StepMoves DEF Apply, Machines

\* The names LinkLifecycle takes from LinkMachine are the supervisor's.
LEMMA SameNames ==
  /\ Lifecycle!Disconnected = Disconnected /\ Lifecycle!Connecting = Connecting
  /\ Lifecycle!Connected = Connected /\ Lifecycle!Closed = Closed
  /\ \A n : /\ Lifecycle!Backoff(n) = Backoff(n) /\ Lifecycle!Saturate(n) = Saturate(n)
            /\ Lifecycle!Exhausted(n) <=> Exhausted(n)
BY DEF Disconnected, Connecting, Connected, Closed, Backoff, Saturate, Exhausted,
       Lifecycle!Disconnected, Lifecycle!Connecting, Lifecycle!Connected, Lifecycle!Closed,
       Lifecycle!Backoff, Lifecycle!Saturate, Lifecycle!Exhausted

-----------------------------------------------------------------------------
(* Every step is a lifecycle step                                          *)

Lives == <<machine.state, machine.attempt, live, used>>

\* The lifecycle stays where it is when no transport changes between live,
\* used and neither.
LEMMA LifeStutter ==
  ASSUME machine' = machine,
         \A t \in Transports : /\ Live(t)' <=> Live(t)
                               /\ tstate'[t] = "closed" <=> tstate[t] = "closed"
  PROVE  UNCHANGED Lives
BY DEF Lives, live, used

\* Where nothing is held and no close is awaited, no transport is live.
LEMMA NothingHeld ==
  ASSUME Owned, transport = None, candidate = None, sup # "close"
  PROVE  live = {}
BY DEF Owned, live, Live, Transports

\* An input taken from the select: Begin, FailTo, Stable, End or a stutter.
LEMMA LifeFed ==
  ASSUME SupervisorTypeOK, FlowInv, OwnInv, Fed
  PROVE  Lifecycle!LifecycleNext \/ UNCHANGED Lives
<1>1. PICK in \in LinkInputs : Feed(in)
  BY FedStep
<1>2. /\ Moved(machine, in, machine') /\ Saturate(machine.attempt) \in 1..AttemptMax
      /\ live' = live /\ used' = used
  BY <1>1, ApplyMoves DEF Feed, live, used, Live
<1>3. /\ Idle \/ sup = "start"
      /\ machine.state # Connecting
  BY FedStep
<1>4. machine.state = Disconnected \/ InBackoff(machine.state) => live = {}
  <2>1. Flow /\ Owned
    BY <1>3 DEF FlowInv, OwnInv, Idle
  <2>2. machine.state = Disconnected \/ InBackoff(machine.state) => transport = None
    BY <1>3, <2>1, StatesDiffer DEF Flow, BackingOff, Idle
  <2>3. candidate = None /\ sup # "close"
    BY <1>3, <2>1 DEF Flow, FollowsOpen, Idle
  <2> QED
    BY <2>1, <2>2, <2>3, NothingHeld
<1> QED
  BY <1>2, <1>3, <1>4, SameNames, StatesDiffer
  DEF Moved, Lives, InBackoff, live, used, Lifecycle!LifecycleNext, Lifecycle!Begin,
      Lifecycle!FailTo, Lifecycle!Stable, Lifecycle!End

\* The round of apply_input after an open: Establish, FailTo, End or a stutter.
LEMMA LifeFollowUp ==
  ASSUME SupervisorTypeOK, FlowInv, OwnInv, FollowUp
  PROVE  Lifecycle!LifecycleNext \/ UNCHANGED Lives
<1>1. /\ Moved(machine, followup, machine') /\ Saturate(machine.attempt) \in 1..AttemptMax
      /\ machine.state = Connecting
  BY FollowUpStep, ApplyMoves
<1>2. live' = live /\ used' = used
  BY DEF FollowUp, live, used, Live
<1>3. sup = "act" /\ Flow /\ Owned
  BY DEF FollowUp, ListDone, FlowInv, OwnInv
<1>4. followup.name = "OpenSucceeded" => live # {}
  <2> SUFFICES ASSUME followup.name = "OpenSucceeded" PROVE live # {}
    OBVIOUS
  <2>1. followup = Input("OpenSucceeded")
    BY FollowUpStep
  <2>2. transport # None
    BY <1>1, <1>3, <2>1 DEF Flow, InConnecting
  <2>3. transport \in Transports
    BY <2>2 DEF SupervisorTypeOK, SupTypeOK
  <2> QED
    BY <1>3, <2>2, <2>3 DEF Owned, live, Live
<1>5. followup.name = "OpenFailed" => live = {}
  <2>1. followup.name = "OpenFailed" => transport = None
    BY <1>1, <1>3 DEF Flow, InConnecting, Input
  <2>2. candidate = None
    BY <1>3 DEF Flow, FollowsOpen
  <2> QED
    BY <1>3, <2>1, <2>2, NothingHeld
<1> QED
  BY <1>1, <1>2, <1>4, <1>5, SameNames, StatesDiffer
  DEF Moved, Lives, InBackoff, live, used, Lifecycle!LifecycleNext, Lifecycle!Establish,
      Lifecycle!FailTo, Lifecycle!End

\* Executing, Keeping an action list: opening is Acquire, the end of a close() is Release.
LEMMA LifeExecuting ==
  ASSUME SupervisorTypeOK, FlowInv, OwnInv,
         \/ ExecuteEmit \/ ExecuteTxPolicy \/ ExecuteTimer \/ ExecuteClose \/ CloseReturns
         \/ ExecuteOpen \/ \E t \in Transports : OpenGives(t)
         \/ \E k \in FaultKinds : OpenFails(k) \/ FilterRefused(k)
         \/ FilterReplayed
  PROVE  Lifecycle!LifecycleNext \/ UNCHANGED Lives
<1>1. /\ sup \in {"act", "open", "filter", "reject", "close"} /\ machine' = machine
  BY DEF ExecuteEmit, ExecuteTxPolicy, ExecuteTimer, ExecuteClose, CloseReturns, ExecuteOpen,
         OpenGives, OpenFails, FilterRefused, FilterReplayed, NextIs, Executing, Keeping
<1>2. /\ Flow /\ Owned /\ OneLiveTransport
      /\ tstate \in [Transports -> {"unopened", "open", "closing", "closed"}]
      /\ transport \in Transports \cup {None} /\ candidate \in Transports \cup {None}
  BY <1>1 DEF FlowInv, OwnInv, SupervisorTypeOK, SupTypeOK, ChannelTypeOK, SharedTypeOK
<1>3. CASE \/ ExecuteEmit \/ ExecuteTxPolicy \/ ExecuteTimer \/ ExecuteOpen \/ FilterReplayed
           \/ (\E k \in FaultKinds : OpenFails(k))
           \/ (ExecuteClose /\ transport = None)
  <2>1. tstate' = tstate
    BY <1>3 DEF ExecuteEmit, ExecuteTxPolicy, ExecuteTimer, ExecuteOpen, FilterReplayed,
       OpenFails, ExecuteClose
  <2> QED
    BY <1>1, <2>1, LifeStutter DEF Live
<1>4. CASE ExecuteClose /\ transport # None
  <2>1. tstate' = [tstate EXCEPT ![transport] = "closing"] /\ tstate[transport] = "open"
    BY <1>2, <1>4 DEF ExecuteClose, Owned
  <2> QED
    BY <1>1, <1>2, <2>1, LifeStutter DEF Live
<1>5. CASE \E k \in FaultKinds : FilterRefused(k)
  <2>1. tstate' = [tstate EXCEPT ![candidate] = "closing"] /\ tstate[candidate] = "open"
    BY <1>2, <1>5 DEF FilterRefused, Owned
  <2> QED
    BY <1>1, <1>2, <2>1, LifeStutter DEF Live
<1>6. ASSUME NEW t \in Transports, OpenGives(t) PROVE Lifecycle!Acquire(t)
  <2>1. /\ sup = "open" /\ tstate[t] = "unopened" /\ tstate' = [tstate EXCEPT ![t] = "open"]
    BY <1>6 DEF OpenGives
  <2>2. machine.state = Connecting /\ live = {}
    BY <1>2, <2>1, NothingHeld DEF Flow, FollowsOpen
  <2>3. live' = {t}
    BY <1>2, <2>1, <2>2 DEF live, Live
  <2>4. used' = used /\ t \notin used
    BY <1>2, <2>1 DEF used
  <2> QED
    BY <1>1, <2>2, <2>3, <2>4, SameNames DEF Lifecycle!Acquire, live, used
<1>7. CASE CloseReturns
  <2>1. /\ sup \in {"close", "reject"}
        /\ tstate' = [t \in Transports |-> IF tstate[t] = "closing" THEN "closed" ELSE tstate[t]]
    BY <1>7 DEF CloseReturns
  <2>2. CASE \A t \in Transports : tstate[t] # "closing"
    BY <1>1, <2>1, <2>2, LifeStutter DEF Live
  <2>3. ASSUME NEW t \in Transports, tstate[t] = "closing" PROVE Lifecycle!Release(t)
    <3>1. machine.state # Connected
      <4>1. sup = "reject" => machine.state = Connecting
        BY <1>2 DEF Flow, FollowsOpen
      <4>2. sup = "close" => ~InConnected
        BY DEF InConnected, Idle
      <4> QED
        BY <1>2, <2>1, <4>1, <4>2, StatesDiffer DEF Flow
    <3>2. \A u \in Transports : u # t => ~Live(u)
      BY <1>2, <2>3 DEF OneLiveTransport, Live
    <3>3. t \in live /\ live' = {}
      BY <2>1, <2>3, <3>2 DEF live, Live
    <3>4. used' = used \cup {t}
      BY <2>1, <2>3, <3>2 DEF used, Live
    <3> QED
      BY <1>1, <3>1, <3>3, <3>4, SameNames DEF Lifecycle!Release, live, used
  <2> QED
    BY <2>2, <2>3 DEF Lifecycle!LifecycleNext
<1> QED
  BY <1>3, <1>4, <1>5, <1>6, <1>7 DEF Lifecycle!LifecycleNext

\* No other task and no other branch moves the machine or a transport.
LEMMA LifeOthers ==
  ASSUME \/ BackToSelect \/ Exit \/ SetFilterReturns \/ HealthFires
         \/ HealthGood \/ StateSeenOther \/ RxFrame
         \/ \E f \in Asked : CommandSetFilter(f)
         \/ SupervisorLost \/ CyclicEnds \/ CyclicLost \/ Clients \/ TxEnvironment
         \/ UNCHANGED supervisorVars
  PROVE  UNCHANGED Lives
<1>1. UNCHANGED <<machine, tstate>>
  BY DEF BackToSelect, Exit, SetFilterReturns, HealthFires, HealthGood, StateSeenOther, RxFrame,
     CommandSetFilter, SupervisorLost, CyclicEnds, CyclicLost, Clients, CloseCalled, CloseQueued,
     FilterAsked, HandleDropped, QuietElapses, TxEnvironment, TxPostsFault, TxSees, TxEnds, TxLost,
     supervisorVars, channelVars, supVars, control
<1> QED
  BY <1>1, LifeStutter DEF Live

\* One connection at a time, each with a transport of its own; no retry before
\* the last transport is closed; no transport released under a link that says
\* Connected: over any interleaving the tasks of a link act as LinkLifecycle says.
THEOREM SupervisorImplements == SupervisorSpec => ImplementsLifecycle
<1>1. SupervisorInit => Lifecycle!LifecycleInit
  BY SameNames DEF SupervisorInit, ChannelInit, SupInit, Lifecycle!LifecycleInit, Live
<1>2. SupervisorTypeOK /\ FlowInv /\ OwnInv /\ [SupervisorNext]_supervisorVars
        => [Lifecycle!LifecycleNext]_(Lifecycle!lifecycleVars)
  <2> SUFFICES ASSUME SupervisorTypeOK, FlowInv, OwnInv, [SupervisorNext]_supervisorVars
               PROVE  Lifecycle!LifecycleNext \/ UNCHANGED Lifecycle!lifecycleVars
    OBVIOUS
  <2>1. Lifecycle!LifecycleNext \/ UNCHANGED Lives
    BY NextSplit, LifeExecuting, LifeFed, LifeFollowUp, LifeOthers
  <2>2. UNCHANGED Lives => UNCHANGED Lifecycle!lifecycleVars
    BY DEF Lives, live, used, Lifecycle!lifecycleVars
  <2> QED
    BY <2>1, <2>2
<1> QED
  BY SupervisorTypesAlways, FlowInvariance, OwnInvariance, <1>1, <1>2, PTL
  DEF SupervisorSpec, ImplementsLifecycle, Lifecycle!LifecycleSpec
=============================================================================
