------------------------------ MODULE PcanChannel ------------------------------
(***************************************************************************)
(* PcanChannel and PcanFactory of pcan-basic (channel.rs).  A factory      *)
(* opens the channel on a blocking thread, one open at a time, and an open *)
(* that its caller gave up on still runs to its end and cleans up.  An     *)
(* open channel takes send, status and set_filter from any task, behind a  *)
(* gate that keeps them off the driver once close() has taken the handle.  *)
(***************************************************************************)
EXTENDS PcanRx

CONSTANTS
  Callers,     \* tasks that call the channel
  SendRetries  \* writes repeated while the driver is busy (8 in the code)

ASSUME ChannelAssumption ==
  /\ SendRetries \in Nat
  /\ \A b \in Setups : b.callers \subseteq Callers

VARIABLES
  permit,   \* the open that holds open_gate, or 0
  job,      \* the blocking task of that open
  asker,    \* what became of each call of open()
  shut,     \* each channel: "none" yet, "open", "closing" (closed is set), "closed"
  call,     \* what each task is doing
  txLock,   \* tx_lock: who holds it, if anybody
  gate,     \* ffi_gate: likewise
  hwFilter  \* what PCAN_MESSAGE_FILTER passes: "open", "range" or "shut"

chanVars == <<permit, job, asker, shut, call, txLock, gate, hwFilter>>
pcanVars == <<driverVars, rxVars, chanVars>>

Calls == [op : {"send", "status", "set_filter"}, on : Opens,
          pc : {"idle", "lock", "gate", "ffi", "range", "nap"}, tries : 0..SendRetries]
NoCall == [op |-> "status", on |-> 1, pc |-> "idle", tries |-> 0]

PcanTypeOK ==
  /\ DriverTypeOK /\ RxTypeOK
  /\ permit \in Opens \cup {0}
  /\ job \in {"idle", "open", "params", "rx", "filter", "range", "stop", "cleanup", "failed",
              "built"}
  /\ asker \in [Opens -> {"none", "queued", "awaiting", "left", "holds", "refused"}]
  /\ shut \in [Opens -> {"none", "open", "closing", "closed"}]
  /\ call \in [Callers -> Calls]
  /\ txLock \subseteq Callers /\ gate \subseteq Callers
  /\ Cardinality(txLock) <= 1 /\ Cardinality(gate) <= 1
  /\ hwFilter \in {"open", "range", "shut"}
  /\ (permit = 0) = (job = "idle")

PcanInit ==
  /\ DriverInit /\ RxInit
  /\ permit = 0 /\ job = "idle" /\ hwFilter = "open"
  /\ asker = [o \in Opens |-> "none"]
  /\ shut = [o \in Opens |-> "none"]
  /\ call = [c \in Callers |-> NoCall]
  /\ txLock = {} /\ gate = {}

Held == {o \in Opens : asker[o] = "holds"}
\* close_sync runs on a task of the runtime when the channel has been handed out, and on
\* the blocking thread when the runtime drops an output nobody took.
ClosingTask == \E o \in Held : shut[o] = "closing"

\* With a single worker, nothing asynchronous runs while close_sync blocks it, and
\* close_sync does not start inside another task's synchronous section.
TasksRun == setup.workers > 1 \/ ~ClosingTask
BetweenPolls == setup.workers > 1 \/ (gate = {} /\ reader.pc \notin Polling)

-----------------------------------------------------------------------------
(* PcanFactory::open *)

\* open() of the supervisor: the previous one is over, and nothing receives.
Ask(o) ==
  /\ asker[o] = "none" /\ o <= setup.opens /\ reader.pc = "idle"
  /\ \A p \in 1..(o - 1) : asker[p] \in {"left", "refused"}
                           \/ (asker[p] = "holds" /\ shut[p] = "closed")
  /\ asker' = [asker EXCEPT ![o] = "queued"]
  /\ UNCHANGED <<driverVars, rxVars, permit, job, shut, call, txLock, gate, hwFilter>>

\* The permit, then spawn_blocking.
Acquire(o) ==
  /\ asker[o] = "queued" /\ permit = 0
  /\ permit' = o /\ job' = "open"
  /\ asker' = [asker EXCEPT ![o] = "awaiting"]
  /\ UNCHANGED <<driverVars, rxVars, shut, call, txLock, gate, hwFilter>>

\* open_timeout, or a shutdown, drops the future; the task that has begun goes on.
GiveUp(o) ==
  /\ asker[o] \in {"queued", "awaiting"}
  /\ asker' = [asker EXCEPT ![o] = "left"]
  /\ UNCHANGED <<driverVars, rxVars, permit, job, shut, call, txLock, gate, hwFilter>>

JobGoes(from, to) == job = from /\ job' = to
JobKeeps == UNCHANGED <<permit, asker, shut, call, txLock, gate>>

\* The configuration is refused, or CAN_Initialize answers.
JobOpens ==
  /\ \/ JobGoes("open", "failed") /\ UNCHANGED <<driverVars, hwFilter>>
     \/ /\ JobGoes("open", "params")
        /\ Initialize(permit, TRUE) /\ hwFilter' = "open"
     \/ /\ JobGoes("open", "cleanup")
        /\ Initialize(permit, FALSE) /\ UNCHANGED hwFilter
  /\ UNCHANGED rxVars /\ JobKeeps

\* The required parameters: one that is refused ends the open.
JobSetsParameters ==
  /\ JobGoes("params", "rx") \/ JobGoes("params", "cleanup")
  /\ UNCHANGED <<driverVars, rxVars, hwFilter>> /\ JobKeeps

JobCreatesSource ==
  /\ \/ JobGoes("rx", "filter") /\ CreateSource(permit)
     \/ JobGoes("rx", "cleanup") /\ UNCHANGED <<driverVars, rxVars>>
  /\ UNCHANGED hwFilter /\ JobKeeps

\* apply_filter: a range first closes the filter, then opens the range.
JobFilters ==
  /\ \/ JobGoes("filter", "built") /\ hwFilter' \in {"open", "shut"}
     \/ JobGoes("filter", "range") /\ hwFilter' = "shut"
     \/ JobGoes("range", "built") /\ hwFilter' = "range"
     \/ job \in {"filter", "range"} /\ job' = "stop" /\ UNCHANGED hwFilter
  /\ shut' = IF job' = "built" THEN [shut EXCEPT ![permit] = "open"] ELSE shut
  /\ UNCHANGED <<driverVars, rxVars, permit, asker, call, txLock, gate>>

\* A failed filter: rx.stop(), then the clean-up.
JobStops ==
  /\ job = "stop"
  /\ \/ stop # "stopped" /\ StopStep /\ UNCHANGED job
     \/ stop = "stopped" /\ job' = "cleanup" /\ UNCHANGED <<driverVars, rxVars>>
  /\ UNCHANGED hwFilter /\ JobKeeps

JobCleansUp ==
  /\ JobGoes("cleanup", "failed")
  /\ Uninitialize(permit, ~registered /\ thread \in {"none", "gone"})
  /\ UNCHANGED <<rxVars, hwFilter>> /\ JobKeeps

ReleasePermit == permit' = 0 /\ job' = "idle"

\* The output reaches the caller, and the permit goes back.
JobAnswers ==
  /\ job \in {"failed", "built"}
  /\ asker[permit] = "awaiting" /\ TasksRun
  /\ asker' = [asker EXCEPT ![permit] = IF job = "built" THEN "holds" ELSE "refused"]
  /\ ReleasePermit
  /\ UNCHANGED <<driverVars, rxVars, shut, call, txLock, gate, hwFilter>>

\* mutant of Discarded: the permit goes back before the channel is closed.
DiscardedFirst == shut[permit] \in {"none", "open", "closing", "closed"}
\* The tuple is dropped in order: the channel's close_sync ends before the permit.
Discarded == shut[permit] \in {"none", "closed"}

\* Nobody waits for the output any more.
JobIsDropped ==
  /\ job \in {"failed", "built"}
  /\ asker[permit] = "left" /\ Discarded
  /\ ReleasePermit
  /\ UNCHANGED <<driverVars, rxVars, asker, shut, call, txLock, gate, hwFilter>>

JobStep == \/ JobOpens \/ JobSetsParameters \/ JobCreatesSource \/ JobFilters \/ JobStops
           \/ JobCleansUp \/ JobAnswers \/ JobIsDropped

-----------------------------------------------------------------------------
(* close_sync *)

\* closed is set, by close() or by Drop; a second call finds it set and returns.
BeginClose(o) ==
  /\ shut[o] = "open"
  /\ \/ asker[o] = "holds" /\ BetweenPolls
     \/ asker[o] = "left" /\ permit = o
  /\ shut' = [shut EXCEPT ![o] = "closing"]
  /\ UNCHANGED <<driverVars, rxVars, permit, job, asker, call, txLock, gate, hwFilter>>

StopSource(o) ==
  /\ shut[o] = "closing" /\ source = o
  /\ StopStep
  /\ UNCHANGED chanVars

\* The gate is free: no call is inside the driver, and none will enter.
GateIsFree == gate = {}

EndClose(o) ==
  /\ shut[o] = "closing" /\ stop = "stopped" /\ GateIsFree
  /\ Uninitialize(o, ~registered /\ thread \in {"none", "gone"})
  /\ shut' = [shut EXCEPT ![o] = "closed"]
  /\ UNCHANGED <<rxVars, permit, job, asker, call, txLock, gate, hwFilter>>

CloseStep(o) == StopSource(o) \/ EndClose(o)

-----------------------------------------------------------------------------
(* send, status, set_filter *)

Moves(c, pc) == call' = [call EXCEPT ![c].pc = pc]
Returns(c) == call' = [call EXCEPT ![c] = NoCall] /\ txLock' = txLock \ {c}

\* The first look at closed; only send takes tx_lock.
BeginCall(c, op) ==
  /\ c \in setup.callers /\ call[c].pc = "idle" /\ TasksRun
  /\ \E o \in Held :
       /\ shut[o] = "open"
       /\ call' = [call EXCEPT ![c] = [op |-> op, on |-> o, tries |-> 0,
                                       pc |-> IF op = "send" THEN "lock" ELSE "gate"]]
  /\ UNCHANGED <<driverVars, rxVars, permit, job, asker, shut, txLock, gate, hwFilter>>

LockTx(c) ==
  /\ call[c].pc = "lock" /\ txLock = {} /\ TasksRun
  /\ txLock' = {c} /\ Moves(c, "gate")
  /\ UNCHANGED <<driverVars, rxVars, permit, job, asker, shut, gate, hwFilter>>

\* mutant of StillOpen: closed is not read again behind the gate.
SeenOpen(c) == shut[call[c].on] # "none"
StillOpen(c) == shut[call[c].on] = "open"

EnterGate(c) ==
  /\ call[c].pc = "gate" /\ gate = {} /\ TasksRun
  /\ IF StillOpen(c)
     THEN gate' = {c} /\ Moves(c, "ffi") /\ UNCHANGED txLock
     ELSE Returns(c) /\ UNCHANGED gate
  /\ UNCHANGED <<driverVars, rxVars, permit, job, asker, shut, hwFilter>>

Calling(c, pc) ==
  /\ call[c].pc = pc
  /\ Reached(call[c].on, call[c].op)
  /\ UNCHANGED <<setup, handle, hw, signal, arrived, rxVars, permit, job, asker, shut>>

\* CAN_Write and CAN_GetStatus return, with a frame sent, a status or an error.
Write(c) ==
  /\ Calling(c, "ffi") /\ call[c].op # "set_filter"
  /\ gate' = {} /\ Returns(c) /\ UNCHANGED hwFilter

\* The driver's queue is full: sleep outside the gate, then TxQueueFull.
WriteIsBusy(c) ==
  /\ Calling(c, "ffi") /\ call[c].op = "send" /\ call[c].tries < SendRetries
  /\ gate' = {}
  /\ call' = [call EXCEPT ![c].pc = "nap", ![c].tries = @ + 1]
  /\ UNCHANGED <<txLock, hwFilter>>

SleepEnds(c) ==
  /\ call[c].pc = "nap" /\ TasksRun
  /\ Moves(c, "gate")
  /\ UNCHANGED <<driverVars, rxVars, permit, job, asker, shut, txLock, gate, hwFilter>>

\* apply_filter, and each of its calls may fail.
Filter(c) ==
  /\ Calling(c, "ffi") /\ call[c].op = "set_filter"
  /\ \/ gate' = {} /\ Returns(c) /\ hwFilter' \in {"open", "shut", hwFilter}
     \/ Moves(c, "range") /\ hwFilter' = "shut" /\ UNCHANGED <<gate, txLock>>

FilterRange(c) ==
  /\ Calling(c, "range")
  /\ gate' = {} /\ Returns(c)
  /\ hwFilter' \in {"range", hwFilter}

\* The future is dropped where it waits.
CancelCall(c) ==
  /\ call[c].pc \in {"lock", "nap"} /\ TasksRun
  /\ Returns(c)
  /\ UNCHANGED <<driverVars, rxVars, permit, job, asker, shut, gate, hwFilter>>

CallStep(c) == \/ LockTx(c) \/ EnterGate(c) \/ Write(c) \/ WriteIsBusy(c) \/ SleepEnds(c)
               \/ Filter(c) \/ FilterRange(c)

-----------------------------------------------------------------------------
(* The channel's specification *)

Receives == \/ TasksRun /\ (ReaderStep \/ CancelRecv)
            \/ TasksRun /\ BeginRecv /\ \E o \in Held : shut[o] = "open"

PcanNext ==
  \/ \E o \in Opens : Ask(o) \/ Acquire(o) \/ GiveUp(o) \/ BeginClose(o) \/ CloseStep(o)
  \/ JobStep
  \/ \E c \in Callers, op \in {"send", "status", "set_filter"} : BeginCall(c, op)
  \/ \E c \in Callers : CallStep(c) \/ CancelCall(c)
  \/ Receives /\ UNCHANGED chanVars
  \/ ThreadStep /\ UNCHANGED chanVars
  \/ TasksRun /\ Reactor /\ UNCHANGED chanVars
  \/ \E kind \in {"event", "odd", "fail"} :
       hwFilter # "shut" /\ BusDelivers(kind) /\ UNCHANGED chanVars

PcanSpec == PcanInit /\ [][PcanNext]_pcanVars

-----------------------------------------------------------------------------
(* Properties *)

\* channel.rs 163-166, rx_lifecycle.rs 3: no call reaches the driver on a handle its
\* caller has not initialized, or no longer; and what is registered goes first.
NoStrayCalls == stray = {}

\* A receiver asleep has nothing waiting for it: no message lies in the driver's queue
\* without an edge, a readiness or an event that will fetch it.
SourceSleepsOverNothing ==
  /\ reader.pc = "parked" /\ registered /\ ~signal => hw = <<>>
  /\ thread = "wait" /\ stop = "no" /\ ~signal => hw = <<>>

\* Until the source is stopped, every message is delivered, or on its way, once and in
\* the order of the driver, or counted as dropped, which Backpressure never does.
EveryMessageIsKept ==
  source = handle /\ handle # 0 /\ stop = "no" /\ thread # "gone" =>
    /\ \A i, j \in DOMAIN Pipeline : i < j => Pipeline[i] < Pipeline[j]
    /\ "odd" \notin setup.kinds => Len(Pipeline) + dropped = arrived
    /\ setup.policy = "Backpressure" => dropped = 0

\* Whatever step of an open fails, and whoever gave up on it, nothing is left behind
\* once its permit is back: only a channel somebody holds keeps the driver.
NothingLeaks ==
  permit = 0 /\ (\A o \in Held : shut[o] = "closed") =>
    handle = 0 /\ ~registered /\ thread \in {"none", "gone"}

\* close() returns: the thread it joins never waits for the receiver it blocks.
CloseReturns == \A o \in Opens : shut[o] = "closing" ~> shut[o] = "closed"

=============================================================================
