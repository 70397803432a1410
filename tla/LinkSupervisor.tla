--------------------------- MODULE LinkSupervisor ---------------------------
(***************************************************************************)
(* The supervisor task (supervisor/mod.rs, supervisor/actions.rs) with the *)
(* clients that command it and the shutdown guards (supervisor/guard.rs).  *)
(*                                                                         *)
(* "sup" is where the task is: waiting in its select, executing the list   *)
(* of actions of the last machine step ("act"), or awaiting the transport  *)
(* in the middle of one.  Each action of the list is one step: between two *)
(* of them the other tasks run, which is what the code allows.  The state  *)
(* is published when the machine steps, before its actions are executed.   *)
(***************************************************************************)
EXTENDS LinkChannels

CONSTANTS
  HealthCheck,   \* health_interval is configured
  Silence,       \* rx_silence_timeout is configured
  Losable        \* the tasks that may panic

ASSUME SupervisorAssumption ==
  /\ HealthCheck \in BOOLEAN
  /\ Silence \in BOOLEAN
  /\ Losable \subseteq {"supervisor", "tx", "cyclic"}

VARIABLES
  machine,       \* LinkMachine
  sup,           \* where the task is
  todo, at,      \* the ActionSet of the current step, and the next one to execute
  followup,      \* input that starts another round of the apply_input loop
  wasConnected,  \* state_before_input == Connected
  transport,     \* the task's own Option<Arc<T>>
  candidate,     \* transport opened and not yet installed
  applied,       \* the filter the current transport last accepted
  savedFilter,
  backoffTimer, healthTimer, stableTimer,  \* deadline.is_some()
  rxQuiet,       \* the silence deadline counted from last_rx has passed
  rxOld,         \* ghost: last_rx was set before the current transport was installed
  lastEvent,     \* the last BusEvent sent by the supervisor or by a guard
  closer         \* progress of each Link::close call

control == <<machine, sup, todo, at, followup, wasConnected>>
conn    == <<transport, candidate>>
filters == <<applied, savedFilter>>
timers  == <<backoffTimer, healthTimer, stableTimer>>
quiet   == <<rxQuiet, rxOld>>
supVars == <<control, conn, filters, timers, quiet, lastEvent>>
app     == <<handles, closer>>
supervisorVars == <<channelVars, closer, supVars>>

NoFilter == "none"
NoInput  == Input("none")

Places == {"start", "select", "act", "open", "filter", "reject", "close", "health",
           "setFilter", "done", "lost"}
Events == {"none", "Connecting", "Connected", "Reconnecting", "BusOff", "Warning",
           "Closed", "Failed", "WorkerLost"}

SupTypeOK ==
  /\ machine \in Machines
  /\ sup \in Places
  /\ todo \in Seq(LinkActions)
  /\ at \in 1..(Len(todo) + 1)
  /\ followup \in LinkInputs \cup {NoInput}
  /\ wasConnected \in BOOLEAN
  /\ transport \in Transports \cup {None}
  /\ candidate \in Transports \cup {None}
  /\ applied \in Filters \cup {NoFilter}
  /\ savedFilter \in Filters
  /\ backoffTimer \in BOOLEAN /\ healthTimer \in BOOLEAN /\ stableTimer \in BOOLEAN
  /\ rxQuiet \in BOOLEAN /\ rxOld \in BOOLEAN
  /\ lastEvent \in Events
  /\ closer \in [Closers -> {"idle", "requesting", "waiting", "returned"}]

\* Every variable keeps its range whatever the other tasks post: above all the
\* command queue its capacity and the attempt counter its width.
SupervisorTypeOK == ChannelTypeOK /\ SupTypeOK

SupInit ==
  /\ machine = [state |-> Disconnected, attempt |-> 0]
  /\ sup = "start"
  /\ todo = <<>> /\ at = 1
  /\ followup = NoInput
  /\ wasConnected = FALSE
  /\ transport = None /\ candidate = None
  /\ applied = NoFilter
  /\ savedFilter \in Filters \ Rejected
  /\ backoffTimer = FALSE /\ healthTimer = FALSE /\ stableTimer = FALSE
  /\ rxQuiet = FALSE /\ rxOld = FALSE
  /\ lastEvent = "none"
  /\ closer = [c \in Closers |-> "idle"]

-----------------------------------------------------------------------------
(* apply_input: step the machine, publish its state, then execute todo *)

Apply(in) ==
  LET r == Step(machine, in)
  IN  /\ machine' = r.machine
      /\ PublishState(r.machine.state)
      /\ todo' = r.actions
      /\ at' = 1
      /\ sup' = "act"

NextIs(op) == sup = "act" /\ at <= Len(todo) /\ todo[at].op = op
Advance    == at' = at + 1 /\ UNCHANGED todo
ListDone   == sup = "act" /\ at > Len(todo)

\* What executing one action leaves alone, whatever the action.
Executing ==
  UNCHANGED <<policy, stateWatch, commands, tasks, app, machine,
              wasConnected, savedFilter, rxQuiet>>

Keeping == Executing /\ UNCHANGED rxOld

ExecuteEmit ==
  /\ NextIs("Emit") /\ Advance
  /\ lastEvent' = todo[at].arg
  /\ Keeping
  /\ UNCHANGED <<gateWatch, txWatch, tstate, sup, followup, conn, applied, timers>>

\* Hold becomes FailAll unless the policy keeps pending frames.
EffectiveGate(g) == IF g = "Hold" /\ policy # "Hold" THEN "FailAll" ELSE g

ExecuteTxPolicy ==
  /\ NextIs("ApplyTxPolicy") /\ Advance
  /\ PublishGate(EffectiveGate(todo[at].arg))
  /\ Keeping
  /\ UNCHANGED <<txWatch, tstate, sup, followup, conn, applied, timers, lastEvent>>

SetTimers(b, h, s) == backoffTimer' = b /\ healthTimer' = h /\ stableTimer' = s

ExecuteTimer ==
  /\ \/ NextIs("ArmBackoff")        /\ SetTimers(TRUE, healthTimer, stableTimer)
     \/ NextIs("CancelBackoff")     /\ SetTimers(FALSE, healthTimer, stableTimer)
     \/ NextIs("ArmHealthCheck")    /\ SetTimers(backoffTimer, HealthCheck, TRUE)
     \/ NextIs("CancelHealthCheck") /\ SetTimers(backoffTimer, FALSE, FALSE)
  /\ Advance
  /\ Keeping
  /\ UNCHANGED <<gateWatch, txWatch, tstate, sup, followup, conn, applied, lastEvent>>

\* Mutant of ExecuteClose: close() is started and not awaited.
CloseNotAwaited ==
  /\ NextIs("CloseTransport") /\ Advance
  /\ PublishTransport(None)
  /\ transport' = None
  /\ applied' = NoFilter
  /\ tstate' = [t \in Transports |-> IF t = transport THEN "closing" ELSE tstate[t]]
  /\ Keeping
  /\ UNCHANGED <<sup, gateWatch, followup, candidate, timers, lastEvent>>

\* The transport is taken and unpublished before its close() is awaited.
ExecuteClose ==
  /\ NextIs("CloseTransport") /\ Advance
  /\ PublishTransport(None)
  /\ transport' = None
  /\ applied' = NoFilter
  /\ IF transport = None
       THEN UNCHANGED <<sup, tstate>>
       ELSE sup' = "close" /\ tstate' = [tstate EXCEPT ![transport] = "closing"]
  /\ Keeping
  /\ UNCHANGED <<gateWatch, followup, candidate, timers, lastEvent>>

\* close() returns, of CloseTransport or of a transport that refused the filter.
CloseReturns ==
  /\ sup \in {"close", "reject"}
  /\ tstate' = [t \in Transports |-> IF tstate[t] = "closing" THEN "closed" ELSE tstate[t]]
  /\ candidate' = None
  /\ sup' = "act"
  /\ Keeping
  /\ UNCHANGED <<gateWatch, txWatch, todo, at, followup, transport, applied, timers, lastEvent>>

ExecuteOpen ==
  /\ NextIs("OpenTransport") /\ Advance
  /\ sup' = "open"
  /\ Keeping
  /\ UNCHANGED <<gateWatch, txWatch, tstate, followup, conn, applied, timers, lastEvent>>

\* timeout(open_timeout, factory.open()) gave a transport ...
OpenGives(t) ==
  /\ sup = "open"
  /\ tstate[t] = "unopened"
  /\ \A u \in Transports : u < t => tstate[u] # "unopened"
  /\ tstate' = [tstate EXCEPT ![t] = "open"]
  /\ candidate' = t
  /\ sup' = "filter"
  /\ Keeping
  /\ UNCHANGED <<gateWatch, txWatch, todo, at, followup, transport, applied, timers, lastEvent>>

\* ... or failed; a timeout counts as Fatal.
OpenFails(k) ==
  /\ sup = "open"
  /\ followup' = OpenFailed(k)
  /\ sup' = "act"
  /\ Keeping
  /\ UNCHANGED <<gateWatch, txWatch, tstate, todo, at, conn, applied, timers, lastEvent>>

\* Mutant of FilterReplayed: the new transport keeps the filter it opens with.
FilterForgotten ==
  /\ sup = "filter"
  /\ applied' = NoFilter
  /\ transport' = candidate
  /\ candidate' = None
  /\ PublishTransport(candidate)
  /\ followup' = Input("OpenSucceeded")
  /\ sup' = "act"
  /\ Executing
  /\ rxOld' = TRUE
  /\ UNCHANGED <<gateWatch, tstate, todo, at, timers, lastEvent>>

\* The saved filter is replayed on the new transport before anyone sees it.
FilterReplayed ==
  /\ sup = "filter"
  /\ savedFilter \notin Rejected
  /\ applied' = savedFilter
  /\ transport' = candidate
  /\ candidate' = None
  /\ PublishTransport(candidate)
  /\ followup' = Input("OpenSucceeded")
  /\ sup' = "act"
  /\ Executing
  /\ rxOld' = TRUE
  /\ UNCHANGED <<gateWatch, tstate, todo, at, timers, lastEvent>>

\* Mutant of FilterRefused: the transport that refused is dropped unclosed.
RefusedNotClosed(k) ==
  /\ sup = "filter"
  /\ candidate' = None
  /\ followup' = OpenFailed(k)
  /\ sup' = "act"
  /\ Keeping
  /\ UNCHANGED <<gateWatch, txWatch, tstate, todo, at, transport, applied, timers, lastEvent>>

FilterRefused(k) ==
  /\ sup = "filter"
  /\ tstate' = [tstate EXCEPT ![candidate] = "closing"]
  /\ followup' = OpenFailed(k)
  /\ sup' = "reject"
  /\ Keeping
  /\ UNCHANGED <<gateWatch, txWatch, todo, at, conn, applied, timers, lastEvent>>

\* The list is done and the open produced an input: another round of the loop.
FollowUp ==
  /\ ListDone /\ followup # NoInput
  /\ Apply(followup)
  /\ followup' = NoInput
  /\ UNCHANGED <<policy, gateWatch, txWatch, commands, tstate, tasks, app, wasConnected, conn,
                 filters, timers, quiet, lastEvent>>

Applied    == ListDone /\ followup = NoInput
EmptyList  == todo' = <<>> /\ at' = 1

\* Mutant of BackToSelect: last_rx restarts when the link was connected before.
SelectRestartsOld ==
  /\ Applied
  /\ machine.state # Closed
  /\ sup' = "select" /\ EmptyList
  /\ IF machine.state = Connected /\ wasConnected
       THEN rxQuiet' = FALSE /\ rxOld' = FALSE
       ELSE UNCHANGED quiet
  /\ wasConnected' = FALSE
  /\ UNCHANGED <<channelVars, closer, machine, followup, conn, filters, timers, lastEvent>>

\* apply_input returned with the link alive: last_rx restarts on a new connection.
\* (After Start it restarts always, which matters only if that connected.)
BackToSelect ==
  /\ Applied
  /\ machine.state # Closed
  /\ sup' = "select" /\ EmptyList
  /\ IF machine.state = Connected /\ ~wasConnected
       THEN rxQuiet' = FALSE /\ rxOld' = FALSE
       ELSE UNCHANGED quiet
  /\ wasConnected' = FALSE
  /\ UNCHANGED <<channelVars, closer, machine, followup, conn, filters, timers, lastEvent>>

\* Mutant of DropReceiver: the replies of queued close() calls are kept.
RepliesKept ==
  /\ supAlive' = FALSE
  /\ commands' = <<>>
  /\ UNCHANGED closer

\* The command receiver goes with the task: every close() waiting for a reply returns.
DropReceiver ==
  /\ supAlive' = FALSE
  /\ commands' = <<>>
  /\ closer' = [c \in Closers |-> IF closer[c] = "waiting" THEN "returned" ELSE closer[c]]

\* apply_input returned with the link closed: close the scheduler, reply, end the task.
Exit ==
  /\ Applied
  /\ machine.state = Closed
  /\ sup' = "done" /\ EmptyList
  /\ cyclicClosed' = TRUE
  /\ DropReceiver
  /\ UNCHANGED <<policy, stateWatch, gateWatch, txWatch, tstate, txAlive, cyclicAlive, handles,
                 machine, followup, wasConnected, conn, filters, timers, quiet, lastEvent>>

-----------------------------------------------------------------------------
(* The branches of the select *)

\* An input taken from the select, and what taking it leaves alone.
Feed(in) ==
  /\ Apply(in)
  /\ wasConnected' = (machine.state = Connected)
  /\ UNCHANGED <<policy, gateWatch, txWatch, tstate, tasks, app, followup, conn, filters, quiet,
                 lastEvent>>

Start ==
  /\ sup = "start"
  /\ Feed(Input("Start"))
  /\ UNCHANGED <<commands, timers>>

\* recv() is polled only while Connected; a frame restarts the silence window.
RxFrame ==
  /\ sup = "select" /\ machine.state = Connected
  /\ Silence
  /\ rxQuiet' = FALSE /\ rxOld' = FALSE
  /\ UNCHANGED <<channelVars, closer, control, conn, filters, timers, lastEvent>>

RxFault(in) ==
  /\ sup = "select" /\ machine.state = Connected
  /\ Feed(in)
  /\ UNCHANGED <<commands, timers>>

SilenceFault ==
  /\ sup = "select" /\ machine.state = Connected
  /\ Silence /\ rxQuiet
  /\ Feed(Input("HealthTimeout"))
  /\ UNCHANGED <<commands, timers>>

BackoffFires ==
  /\ sup = "select" /\ backoffTimer
  /\ backoffTimer' = FALSE
  /\ Feed(Input("BackoffElapsed"))
  /\ UNCHANGED <<commands, healthTimer, stableTimer>>

StableFires ==
  /\ sup = "select" /\ stableTimer
  /\ stableTimer' = FALSE
  /\ Feed(Input("StableElapsed"))
  /\ UNCHANGED <<commands, backoffTimer, healthTimer>>

\* The health deadline is re-armed, and status() awaited if a transport is installed.
HealthFires ==
  /\ sup = "select" /\ healthTimer
  /\ transport # None
  /\ sup' = "health"
  /\ UNCHANGED <<channelVars, closer, machine, todo, at, followup, wasConnected, conn, filters,
                 timers, quiet, lastEvent>>

HealthGood ==
  /\ sup = "health"
  /\ sup' = "select"
  /\ UNCHANGED <<channelVars, closer, machine, todo, at, followup, wasConnected, conn, filters,
                 timers, quiet, lastEvent>>

HealthBad(in) ==
  /\ sup = "health"
  /\ Feed(in)
  /\ UNCHANGED <<commands, timers>>

Take(m) ==
  /\ sup = "select" /\ commands # <<>> /\ Head(commands) = m
  /\ commands' = Tail(commands)

CommandClose(c) ==
  /\ Take(CloseRequest(c))
  /\ Feed(Input("Close"))
  /\ UNCHANGED timers

CommandTxFault(k, t) ==
  /\ Take(TxFault(k, t))
  /\ Feed(TransportFault(k))
  /\ UNCHANGED timers

\* The filter is saved first, whatever the transport then answers.
CommandSetFilter(f) ==
  /\ Take(FilterRequest(f))
  /\ savedFilter' = f
  /\ sup' = IF transport # None THEN "setFilter" ELSE "select"
  /\ UNCHANGED <<policy, stateWatch, gateWatch, txWatch, tstate, tasks, app, machine, todo, at,
                 followup, wasConnected, conn, applied, timers, quiet, lastEvent>>

SetFilterReturns ==
  /\ sup = "setFilter"
  /\ applied' \in {applied} \cup ({savedFilter} \ Rejected)
  /\ sup' = "select"
  /\ UNCHANGED <<channelVars, closer, machine, todo, at, followup, wasConnected, conn,
                 savedFilter, timers, quiet, lastEvent>>

\* router_rx or transaction_rx returns None: no Link and no control end is left.
\* (supervisor_rx cannot end first: every Link holds a sender of all three.)
RouterOpen      == handles \cap {"link", "subscription"} # {}
TransactionOpen == handles \cap {"link", "pending"} # {}

\* Mutant of HandlesGone: the handles are watched only while connected.
HandlesGoneIfConnected ==
  /\ sup = "select" /\ machine.state = Connected
  /\ ~RouterOpen \/ ~TransactionOpen
  /\ Feed(Input("Close"))
  /\ UNCHANGED <<commands, timers>>

HandlesGone ==
  /\ sup = "select"
  /\ ~RouterOpen \/ ~TransactionOpen
  /\ Feed(Input("Close"))
  /\ UNCHANGED <<commands, timers>>

\* shutdown_state.changed(): a guard may have published Closed.
GuardClosed == linkState = Closed /\ machine.state # Closed

StateSeenClosed ==
  /\ sup = "select" /\ stateUnseen
  /\ GuardClosed
  /\ Feed(Input("Close"))
  /\ UNCHANGED <<commands, timers>>

StateSeenOther ==
  /\ sup = "select" /\ stateUnseen
  /\ ~GuardClosed
  /\ stateUnseen' = FALSE
  /\ UNCHANGED <<policy, linkState, gateWatch, txWatch, commands, tstate, tasks, app, supVars>>

-----------------------------------------------------------------------------
(* The task, and the ways it can end without reaching its last line *)

Task ==
  \/ Start \/ ExecuteEmit \/ ExecuteTxPolicy \/ ExecuteTimer \/ ExecuteClose \/ CloseReturns
  \/ ExecuteOpen \/ FollowUp \/ BackToSelect \/ Exit
  \/ \E t \in Transports : OpenGives(t)
  \/ \E k \in FaultKinds : OpenFails(k) \/ FilterRefused(k)
  \/ FilterReplayed \/ SetFilterReturns \/ HealthFires \/ HealthGood
  \/ \E in \in {Input("BusOff"), Input("HealthTimeout")} : HealthBad(in)
  \/ BackoffFires \/ StableFires \/ SilenceFault \/ HandlesGone \/ StateSeenClosed
  \/ StateSeenOther
  \/ \E c \in Closers : CommandClose(c)
  \/ \E k \in {"Fatal", "Permanent"}, t \in Transports : CommandTxFault(k, t)
  \/ \E f \in Asked : CommandSetFilter(f)

RxFaults == {Input("BusOff")} \cup {TransportFault(k) : k \in FaultKinds}
Receive  == RxFrame \/ \E in \in RxFaults : RxFault(in)

\* The supervisor panics in a call into the transport; its own state receiver drops first.
SupervisorLost ==
  /\ "supervisor" \in Losable
  /\ \/ sup \in {"open", "filter", "reject", "close", "health", "setFilter"}
     \/ sup = "select" /\ machine.state = Connected
  /\ sup' = "lost" /\ EmptyList
  /\ lastEvent' = "WorkerLost" /\ FatalGuard(cyclicAlive)
  /\ DropReceiver
  /\ transport' = None /\ candidate' = None
  /\ UNCHANGED <<policy, txWatch, tstate, txAlive, cyclicAlive, handles, machine, followup,
                 wasConnected, filters, timers, quiet>>

\* The scheduler takes CyclicCommand::Close and ends.
CyclicEnds ==
  /\ cyclicAlive /\ cyclicClosed
  /\ cyclicAlive' = FALSE
  /\ UNCHANGED <<policy, stateWatch, gateWatch, txWatch, commands, tstate, supAlive, txAlive,
                 cyclicClosed,
                 app, supVars>>

CyclicLost ==
  /\ "cyclic" \in Losable /\ cyclicAlive
  /\ cyclicAlive' = FALSE
  /\ lastEvent' = "WorkerLost"
  /\ UNCHANGED <<policy, stateWatch, gateWatch, txWatch, commands, tstate, supAlive, txAlive,
                 cyclicClosed,
                 app, control, conn, filters, timers, quiet>>

-----------------------------------------------------------------------------
(* Clients: Link::close, Link::set_hardware_filter, dropping handles; and time *)

\* close() returns at once if the published state is Closed.
CloseCalled(c) ==
  /\ "link" \in handles /\ closer[c] = "idle"
  /\ closer' = [closer EXCEPT ![c] = IF linkState = Closed THEN "returned" ELSE "requesting"]
  /\ UNCHANGED <<policy, stateWatch, gateWatch, txWatch, commands, tstate, tasks, handles,
                 supVars>>

CloseQueued(c) ==
  /\ closer[c] = "requesting"
  /\ IF ~supAlive
       THEN closer' = [closer EXCEPT ![c] = "returned"] /\ UNCHANGED commands
       ELSE /\ Len(commands) < QueueBound
            /\ commands' = Append(commands, CloseRequest(c))
            /\ closer' = [closer EXCEPT ![c] = "waiting"]
  /\ UNCHANGED <<policy, stateWatch, gateWatch, txWatch, tstate, tasks, handles, supVars>>

\* One client at a time asks for a filter, and awaits the reply.
FilterPending ==
  sup = "setFilter" \/ \E i \in DOMAIN commands : commands[i].cmd = "SetHardwareFilter"

FilterAsked(f) ==
  /\ "link" \in handles /\ supAlive /\ ~FilterPending
  /\ Len(commands) < QueueBound
  /\ commands' = Append(commands, FilterRequest(f))
  /\ UNCHANGED <<policy, stateWatch, gateWatch, txWatch, tstate, tasks, app, supVars>>

HandleDropped(h) ==
  /\ h \in handles
  /\ h = "link" => \A c \in Closers : closer[c] \in {"idle", "returned"}
  /\ handles' = handles \ {h}
  /\ UNCHANGED <<policy, stateWatch, gateWatch, txWatch, commands, tstate, tasks, closer,
                 supVars>>

QuietElapses ==
  /\ Silence /\ ~rxQuiet
  /\ rxQuiet' = TRUE
  /\ UNCHANGED <<channelVars, closer, control, conn, filters, timers, rxOld, lastEvent>>

Clients ==
  \/ \E c \in Closers : CloseCalled(c) \/ CloseQueued(c)
  \/ \E f \in Asked : FilterAsked(f)
  \/ \E h \in Droppable : HandleDropped(h)
  \/ QuietElapses

-----------------------------------------------------------------------------
(* What the tx worker may do to the channels.  TxWorker is shown to do no more. *)

TxPostsFault(k, t) ==
  /\ txAlive /\ supAlive
  /\ tstate[t] # "unopened"
  /\ Len(commands) < QueueBound
  /\ commands' = Append(commands, TxFault(k, t))
  /\ UNCHANGED <<policy, stateWatch, gateWatch, txWatch, tstate, tasks, app, supVars>>

TxSees ==
  /\ txAlive
  /\ gateUnseen' \in {gateUnseen, FALSE}
  /\ transportUnseen' \in {transportUnseen, FALSE}
  /\ UNCHANGED <<policy, stateWatch, gate, transportWatch, commands, tstate, tasks, app, supVars>>

TxEnds ==
  /\ txAlive
  /\ ~supAlive \/ ("link" \notin handles /\ ~cyclicAlive)
  /\ txAlive' = FALSE
  /\ UNCHANGED <<policy, stateWatch, gateWatch, txWatch, commands, tstate, supAlive, cyclicAlive,
                 cyclicClosed, app, supVars>>

TxLost ==
  /\ "tx" \in Losable /\ txAlive
  /\ txAlive' = FALSE
  /\ lastEvent' = "WorkerLost" /\ FatalGuard(supAlive \/ cyclicAlive)
  /\ UNCHANGED <<policy, txWatch, commands, tstate, supAlive, cyclicAlive, app, control, conn,
                 filters,
                 timers, quiet>>

TxEnvironment ==
  \/ \E k \in {"Fatal", "Permanent"}, t \in Transports : TxPostsFault(k, t)
  \/ TxSees \/ TxEnds \/ TxLost

-----------------------------------------------------------------------------
SupervisorInit == ChannelInit /\ SupInit
SupervisorNext == Task \/ Receive \/ SupervisorLost \/ CyclicEnds \/ CyclicLost
                    \/ Clients \/ TxEnvironment
SupervisorSpec == SupervisorInit /\ [][SupervisorNext]_supervisorVars

(* Fairness.  The task runs, and the transport answers each call: open() has *)
(* a timeout in the code, close() and set_filter() are trusted to return.    *)
(* select! polls its branches from a random one, so a branch that is ready   *)
(* again and again is taken; a full command channel serves senders in order. *)

Progress ==
  \/ Start \/ ExecuteEmit \/ ExecuteTxPolicy \/ ExecuteTimer \/ ExecuteClose \/ CloseReturns
  \/ ExecuteOpen \/ FollowUp \/ BackToSelect \/ Exit \/ HealthGood \/ SetFilterReturns
  \/ \E k \in FaultKinds : OpenFails(k)
  \/ FilterReplayed \/ \E k \in FaultKinds : FilterRefused(k)

Command ==
  \/ \E c \in Closers : CommandClose(c)
  \/ \E k \in {"Fatal", "Permanent"}, t \in Transports : CommandTxFault(k, t)
  \/ \E f \in Asked : CommandSetFilter(f)

SupervisorFairness ==
  /\ WF_supervisorVars(Progress)
  /\ SF_supervisorVars(Command)
  /\ SF_supervisorVars(BackoffFires)
  /\ SF_supervisorVars(HandlesGone)
  /\ SF_supervisorVars(StateSeenClosed)
  /\ \A c \in Closers : SF_supervisorVars(CloseQueued(c))

SupervisorFairSpec == SupervisorSpec /\ SupervisorFairness

-----------------------------------------------------------------------------
(* Properties *)

Live(t) == tstate[t] \in {"open", "closing"}

\* Two transports of one link never coexist: the factory is not asked for
\* another before close() of the last one has returned.
OneLiveTransport == \A t, u \in Transports : Live(t) /\ Live(u) => t = u

\* Back in its select the supervisor can always move on: in Backoff a retry is
\* armed and no timer of the old connection is, and the transport is gone; in
\* Connected the transport is open and published, and no retry is armed.
Retrying ==
  /\ machine.state.name = "Backoff"
  /\ backoffTimer /\ ~healthTimer /\ ~stableTimer
  /\ transport = None

Serving ==
  /\ machine.state = Connected
  /\ ~backoffTimer
  /\ transport # None /\ tstate[transport] = "open"
  /\ txAlive => transportWatch = transport

Steady == Retrying \/ Serving

SelectIsSteady == sup \in {"select", "health", "setFilter"} => Steady

\* The published state differs from the machine's only because a guard closed it.
PublishedState == linkState = machine.state \/ linkState = Closed

\* A silence fault (mod.rs:180-183, 238-241) is charged to this connection: the window that
\* has passed began after its transport was installed (actions.rs:52-53), whatever the
\* machine went through on the way and however long the open took.
QuietWindow ==
  sup = "select" /\ machine.state = Connected /\ rxQuiet => ~rxOld

\* The task never ends without having announced it.
EndIsAnnounced == sup = "done" => lastEvent \in {"Closed", "Failed", "WorkerLost"}

\* What is due of the current list.
Due(op) == \E i \in at..Len(todo) : todo[i].op = op

Returns(c) == closer[c] # "returned" /\ closer'[c] = "returned"
CleanedUp  == sup = "lost" \/ \A t \in Transports : ~Live(t)
CleaningUp == sup = "close" \/ (sup = "act" /\ Due("CloseTransport"))

\* close() returns when no transport is left open, unless the task was lost. One that
\* finds the link Closed returns at once (link.rs:515-517), against link.rs:68-70 and
\* docs/concepts.md:65-67: then the cleanup may still be under way, or, if only a guard
\* has closed the link, not have begun.
CloseAwaitsCleanup ==
  [][\A c \in Closers : Returns(c) =>
       \/ CleanedUp'
       \/ closer[c] = "idle" /\ linkState = Closed /\ (CleaningUp \/ GuardClosed)]_supervisorVars

\* A connection that comes back carries the filter saved last.
FilterIsReplayed ==
  [][sup' = "select" /\ machine'.state = Connected /\ ~wasConnected /\ sup = "act"
       => applied' = savedFilter']_supervisorVars

\* The supervisor implements the lifecycle.
Lifecycle == INSTANCE LinkLifecycle WITH
  state <- machine.state,
  attempt <- machine.attempt,
  live <- {t \in Transports : Live(t)},
  used <- {t \in Transports : tstate[t] = "closed"}

ImplementsLifecycle == Lifecycle!LifecycleSpec

\* Every close() returns.
CloseCompletes == \A c \in Closers : closer[c] = "requesting" ~> closer[c] = "returned"

\* When every handle is gone the task ends by itself.
HandlesGoneEnds == handles = {} ~> ~supAlive

=============================================================================
