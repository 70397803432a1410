# TLA+ models of pcan_kit

pcan_kit is a Rust workspace for CAN adapters: two transports (PCAN-Basic through
FFI, and Linux SocketCAN) under one link runtime (`pcan-link`) that reconnects,
queues transmissions, schedules cyclic frames, routes reception and runs
request/response transactions. This directory holds the models of that code, what
TLC checks of them on small instances, and what TLAPS proves of them for all.

Paths below are relative to `src/crates/`.

## 1. Inventory

### The link runtime (`pcan-link`)

| Component | State | Operations | Talks to |
|---|---|---|---|
| Reconnect state machine, `supervisor/machine.rs` | `LinkState`, `attempt` | `step(input)`: next state and an ordered list of actions | called by the supervisor only |
| Supervisor task, `supervisor/mod.rs`, `actions.rs` | its transport, saved filter, three deadlines, `last_rx` | one `select!` over reception, four deadlines, commands, two control channels and the state watch; `apply_input` runs the machine's actions | publishes three watches (state, gate, transport), drains the commands, closes the scheduler |
| Shutdown guards, `supervisor/guard.rs` | armed or not | `Drop`: a lost worker closes the gate, publishes `Closed`, announces the loss | the same watches, from any task |
| Transmit worker, `txqueue.rs` | staged frames, the frame in hand, the gate it has read | loop: take, expire, borrow the transport, send, retry, put back, post a fault; fail all; hold; wait | reads two watches, its bounded channel; posts `TxFault` |
| Cyclic scheduler, `cyclic.rs` | heap of deadlines, entries with generations, pending updates | add, merged update, stop, trigger, tick, compact, close | queues frames on the worker's channel |
| RX router, `router.rs`, `supervisor/receive.rs` | subscriptions with bounded queues | subscribe, cancel, dispatch with three overflow policies, close all | called by the supervisor |
| Transactions, `transaction.rs` | slots with bounded buffers | prepare, send, collect, retry, cancel, disconnect all | called by the supervisor, waited for by clients |
| Control budgets, `control.rs` | permits and leases | admit, lease, give back | router, transactions, scheduler |
| Link handle and builder, `link.rs`, `builder.rs` | senders of all the channels | `try_send`, `send_timeout`, `send_await`, `set_hardware_filter`, `request`, `subscribe`, `schedule_cyclic`, `close` | everything above |
| Backoff policy, `supervisor/backoff.rs` | none (a jitter seed) | `base_delay`, `delay` | state machine |
| Events, statistics, `events.rs`, `pcan-core/stats.rs` | broadcast channel, counters | emit, count | all tasks, the application |

### The transports and the rest

| Component | State | Operations |
|---|---|---|
| PCAN-Basic channel and factory, `pcan-basic/src/channel.rs` | closed flag, FFI gate, transmit lock, process-wide open gate | open (blocking thread, timeout), send (retry on a full queue), status, set filter, close |
| PCAN-Basic reception, `pcan-basic/src/rx/` | RX thread, bounded queue, stop flag | read, push with two policies, recv, stop and join; edge-triggered readiness on Linux, an event on Windows |
| SocketCAN, `pcan-socketcan/src/socket.rs`, `errframe.rs` | socket, closed flag, shutdown watch | recv, send, status, set filter, close |
| Configuration, conversion, discovery (`config.rs`, `convert.rs`, `enumerate.rs` of both back ends) | none | conversions of data, enumeration of devices |
| FFI, `pcan-basic-sys` | loaded library | symbol loading, status words |
| Core types, `pcan-core` | none | frames, identifiers, filters, errors with four fault kinds, the `Transport` and factory traits, a test double |
| Facade, `pcan-kit` | none | dispatch to one of two back ends, merged discovery |

### How they interact, and what is hard

One link is four kinds of actor: the supervisor, the transmit worker, the
scheduler, and any number of client tasks. They share

* **three watch channels** written by the supervisor and, on a loss, by a guard: the
  public state, the transmit gate (`Open`, `Hold`, `FailAll`), the transport;
* **the supervisor's bounded command channel** (64), fed by `close`,
  `set_hardware_filter` and the worker's `TxFault`, and two unbounded control channels;
* **the bounded frame channel**, fed by clients and by the scheduler.

A watch keeps only the latest value, so the order in which the gate, the transport and
the state are written, and in which the worker reads them and marks them as seen, decides
whether a frame is sent on the right connection, kept, failed, or forgotten. What a test
hardly reaches:

* a gate or a transport that changes between two reads of one loop iteration;
* a task that publishes, then awaits, while a guard publishes something else;
* a frame put back at the front over a reconnection, an expiry or a shutdown;
* a fault that arrives after the connection it is about has gone;
* which of `close()`, a dropped handle, a spent budget, a permanent fault or a panic ends
  the link first, and what is left open then;
* full bounded queues between tasks that wait for each other.

What makes each part correct:

* **state machine** – any sequence of inputs leaves deadlines that fit the state, one
  transport at a time, a budget that ends the link, and an announced end;
* **supervisor** – the order of close and open, the filter replayed on each connection,
  silence measured from the connection, `close()` that awaits the cleanup unless it finds the link
  Closed, termination;
* **guards** – a lost worker ends the link for good;
* **transmit worker** – frames leave in the order they were accepted, each is answered
  once and at last, staging is bounded, an expired frame is not sent, no change of the gate
  or the transport is slept through;
* **cyclic scheduler** – a merged update is never lost, an old generation never sends, late
  ticks follow their policy and burst limit, leases come back;
* **router, transactions, control budgets** – a slot lives as long as its owner, overflow
  policies keep their order and count, no receiver sleeps on a frame, a retry starts from
  nothing, a lost connection ends a wait, leases bound the command channels;
* **PCAN-Basic** – one open at a time across timeouts, no driver call after
  uninitialise, no lost edge, no lost message, no deadlock in stop;
* **SocketCAN** – the same of the closed flag and the readiness;
* **data on the way** – a frame that reaches the application is legal, what is sent comes back
  as it was, a hardware filter stops nothing a subscription wants, a bus off that the driver
  tells of is reported as one, but for two places where the code does not listen (*Findings*).

`PROJECT.json` lists each hazard at its line, with the properties that cover it or the reason
why none does.

## 2. The modules

```
LinkMachine            machine.rs: Step, a pure operator
  LinkLifecycle        abstract: state, attempts, live transports
  LinkChannels         mod.rs, guard.rs: watches, commands, transports, guards
    LinkSupervisor     mod.rs, actions.rs, clients, and the worker as a contract
      MCLinkSupervisor
      SupervisorProofs, SupervisorPromises
    TxWorker           txqueue.rs, sending clients, and the rest as a contract
      FrameQueue       abstract: one queue of frames
      TxWorkerProofs
    LinkRuntime        LinkSupervisor and TxWorker together
      MCLinkRuntime
      RuntimeProofs    on SupervisorPromises and TxWorkerProofs
CyclicScheduler        cyclic.rs, control.rs: handles, slots, commands, the scheduler
  MCCyclicScheduler
  CyclicProofs
ReceiveTask            control.rs, the task that owns router and table
  RxRouter             router.rs, Link::subscribe
  Transactions         transaction.rs, Link::prepare and request
    Reception          receive.rs: RxRouter and Transactions together
      MCReception
      ReceptionProofs
PcanDriver             external: the PCAN-Basic driver of one channel
  PcanRx               rx/mod.rs, rx/linux.rs, rx/windows.rs
    PcanChannel        channel.rs
SocketCan              socket.rs
  AnyTransport         any.rs: PcanChannel or SocketCan
    MCAnyTransport
    TransportProofs
CanFrames              pcan-core: identifiers, frames, filters, statuses
  PcanMessages         convert.rs, status.rs, read_one, the filter range
  SocketMessages       socket.rs, errframe.rs: conversions, filters
    FramePath          one frame from end to end, over either back end
      MCFramePath
      FrameProofs
```

**LinkMachine** is `LinkMachine::step` translated match arm by match arm. A result is the
next machine and the ordered list of actions. The delay of `ArmBackoff`, the numbers in
the events and the fault causes are left out; `attempt` saturates at `AttemptMax` as the
`u32` does at its own maximum.

**LinkChannels** holds what `SharedRuntime` and the channels hold. A watch is its value and
one flag, *unseen*, per receiver that matters: `changed()` returns on the flag and clears
it, `borrow()` reads and clears nothing, `send` without a receiver changes nothing. A
transport is the number of its `open()` and a life: unopened, open, closing, closed.
`FatalGuard` is the drop of a fatal guard.

**LinkSupervisor**. `sup` says where the task is: in its `select!` (`select`), executing an action
list (`act`), or awaiting one call of the transport (`open`, `filter`, `reject`, `close`, `health`,
`setFilter`). `Apply` steps the machine *and publishes the state*, then each action of the list is a
step of its own (`ExecuteEmit`, `ExecuteTxPolicy`, `ExecuteTimer`, `ExecuteClose`, `ExecuteOpen`),
because another thread may run between any two of them. `rxQuiet` says that a silence window has
passed since `last_rx`; the ghost `rxOld` that `last_rx` is older than the current transport:
installing one (`FilterReplayed`) sets it, a frame (`RxFrame`) and the restart in `BackToSelect`
clear it. `FollowUp` is the second round of the loop in `apply_input`, `BackToSelect` and `Exit` its
return. One action per branch of the `select!` follows, then the clients. Any call of the transport
may fail with any fault kind, or panic if `Losable` says so. In this module alone the worker is
`TxEnvironment`: it may post a fault of any transport that was ever opened, see its watches, end, or
be lost.

**TxWorker**. `worker` says where `run_tx` is. `Top` reads the gate (and marks nothing);
`take` is an open gate, `drain` is `FailAll`, `hold` is `Hold`; `borrow` reads the transport
with a frame in hand; `send` awaits it; `fault` waits for room in the command channel;
`parkT` is the wait for a transport in the middle of the loop; `park` is the `select!` at its
end. A frame is the number at which the channel accepted it; `outcome` is the answer its
sender gets. `Environment` is the contract of everybody else, and mentions exactly what
the worker relies on: the gate opens only over a published transport, and a transport is
withdrawn only under a gate that is not open, before it is closed.

**LinkRuntime** lets both take their own steps. `KeepsContracts` (`SupervisorSpec` and
`TxWorkerSpec`) says that each is within what the other's module lets its environment do, so
what holds of each part under its contract holds of the link. A run checks it on small
instances; RuntimeProofs proves it.

**LinkLifecycle** says what a link promises of its connection: `Begin` only when no
transport is left, one live transport, none released while the state is Connected, a budget
that is exact, no transport used twice. **FrameQueue** says what it promises of its frames:
one queue, left only at the front, to the bus or with one other answer.

**CyclicScheduler**. An item is one `schedule_cyclic`. `slot` is its `PendingUpdate`, shared by
the threads that call its handle and the scheduler. A call is two or three steps, since the code
takes no lock over them: it writes its value (`SetFrame`, `SetPeriod`, `SetPaused`,
`PushTrigger`), swaps the flag (`Wake`), and sends `ApplyUpdate` if the flag was clear
(`SendWake`). The scheduler answers with four: it receives the command (`TakeUpdate`), clears the
flag (`ClearFlag`), copies the state under the lock (`TakeState`), and swaps the trigger counter,
applies all and sends (`TakeTriggers`). `sched` says where it is, `entries` and `heap` are its
locals; a tick is `TickStarts`, one `PopStale` or `PopDue` per node, `TickEnds`, with the instant
it woke at kept in `sched`. `Loop` is the return to the top, with `compact_heap`. `Leased` says
who holds a clone of an item's lease: the handle, the entry, its commands, the one being handled.
The clock moves on by `Elapse` at any time, so the scheduler stalls as long as it likes.
`CountMax` is `u32::MAX`, `LastInstant` the last `Instant`: a tick advances its entry by `CountMax`
periods at most, and is phased anew where the next instant overflows (`Ahead`, `Overflows`,
`Advanced`); where the code adds to an `Instant` without a check, the task panics (`AddPanics`,
`UpdatePanics`). Three ghosts watch over it: `phase`, the due time an entry was phased with last;
`uncounted`, the ticks that came while it ran and the triggers called for, less what the statistics
have counted, where `Elapse` adds a tick when the clock reaches it and not when the scheduler
notices; `stalled`, that an entry was once behind by more than `CountMax` ticks. It has no
steps in common with the other modules but `Close`, and the frame queue takes or refuses each of
its frames by choice (`accepted`).

**ReceiveTask** is what router and transactions share: the supervisor task as both see it (it
runs, has announced its end, has closed both, has ended and dropped both receivers), and the
`ControlBudget`. A lease is not counted up and down: `Subscribed` and `Prepared` say who is in
possession of one, as the clones in the code do, and `Admits` counts them.

**RxRouter**. `subscriber` says where a call of `subscribe` is, then where its `Subscription`
is. The answer is a guard: `CancelSubscribe` is the drop of a future before the command is
handled, after it, or with the answer delivered, and in the last case sends the `Unsubscribe`.
`recv()` is four steps (`BeginRecv`, `PopFrame`, `CheckClosed`, `ParkRecv`), between which the
router may push or close; `permit` and `woken` are what tokio's `Notify` keeps, including the
hand-over of a permit by a `Notified` that is dropped. `Route` is `Router::dispatch` with the
three policies, the drop count and the report throttled to one a second.

**Transactions**. A slot is a member of `table`, its channel a `buffer` of signals. `Respond` is
`dispatch` with `retain_mut` (`HasSpace`, `Awaited`, `StaysAfter`), `DisconnectAll` takes all
slots at once and tells whom it can. `wait_attempt` is `ReceiveSignal`, `ChannelEnds` and
`DeadlineReturns`, in the order of its biased select: a deadline wins over what is buffered.
`ClearAndRetry` empties the buffer and begins again. Cancellation is possible at each await.

**Reception** is `RxDispatch`: a frame goes to the router and then to the table in one
synchronous step; a fault disconnects the table; the end of the task closes both. The
subscribers and requesters come in between any two steps.

**PcanDriver** is external: the receive queue and event of one hardware channel and the open
that has initialised it; it records each call that reaches it on a handle that is not the
caller's (`stray`).

**PcanRx**. `setup.platform` is the source `RxSource::new` chose: `event` (Linux, the event fd
in `AsyncFd`), `poll` (a thread that looks every millisecond), `windows` (a thread that waits for
the event). The thread looks or waits, reads, hands over (`ThreadPushes`, `ThreadGivesUp`), and
`Patient` is the policy. `poll_event` is `ReadInPoll`, `PollReady`, `ClearReady`, where a
clearing counts only if its guard saw the present tick. `stop()` is `ClaimStop`, `Unblock`,
`JoinThread`, `Release`, `NotifyShutdown`.

**PcanChannel**. An open is a number. `Ask`, `Acquire`, `GiveUp` are the caller; `JobStep` is the
blocking thread in `open_channel`, which goes on when the caller has left, and whose output is
then dropped before the permit is (`Discarded`). `close_sync` sets the flag, stops the source,
waits for the gate, uninitialises. A call of `send`, `status` or `set_filter` looks at the flag,
takes its lock, takes the gate, looks again (`StillOpen`), calls the driver. With one worker thread
nothing asynchronous runs while `close_sync` blocks it (`TasksRun`).

**SocketCan**. `recv` and `send` are one loop in two directions: look at `closed`, call the
kernel, wait for readiness or the shutdown, look again, call under `try_io`.

**AnyTransport** is either back end, and states what the link relies on for both.

**CanFrames**, **PcanMessages**, **SocketMessages** are operators: constructors, the
deserialiser, the DLC table, filters; the PCAN messages, status words, `read_one`, the
filter range; the `can_frame`s, kernel filters, error frames. A payload is its length and how
many bytes at its front are not zero, which tells padding and truncation from data; flag words are
sets of names. An identifier, a mask or a `can_id` is the set of its bits that are one, so that
`&` is the intersection and `|` the union, and the order of two numbers is decided by the highest
bit in which they differ (`AtMost`): the operators are those of the code for any width, and open to
proof. MCFramePath has TLC compare them with the bitwise operators on numbers (`BitsAreNumbers`).
`Option` and `Result` are sets of at most one. **FramePath** takes one frame from
the application or from the bus through encoding, hardware filter, decoding and subscription.

### Abstractions

* Time: an armed timer may fire at any later moment; a frame may become too old, and a
  silence window may pass, at any moment (`Age`, `QuietElapses`).
* The three parts of a fatal guard's drop (gate, state, event) are one step: no receiver
  distinguishes their order. So are the drops of a task's locals when it ends.
* Events are only the last one sent. Statistics, the capabilities and bus-status
  watches, and the contents of frames are left out.
* The application keeps no `state_watch()` receiver: if it did, the guard of the last
  task would still publish Closed.
* The `FilterAsked` client waits for its answer before it asks again.
* In CyclicScheduler a frame is its version and a payload of another length is not offered;
  priorities order only entries due at one instant, here in any order; the `u64` late ticks, the
  generations and the statistics are not large enough to saturate. Sends on a link that is not
  connected and on a full queue are the same refusal. `Close` is sent once. A lost scheduler is
  `Close` at the moment it is taken.
* In Reception a frame is its identifier and whether it is an echo; a subscription's filter and a
  matcher are sets of identifiers. Time is a second that may pass, and a deadline that may pass at
  any moment. `PendingResponse::wait` is a request without retries. `subscribe_all_raw` (a
  broadcast channel) and the counters of `status()` are left out. The send of a request
  returns or fails, as TxWorker shows.
* The driver raises its event when `PCAN_RECEIVE_EVENT` is set on a queue that is not empty, and
  registering a readable fd raises an edge. One `recv()` runs at a time, as in the supervisor's
  select. Opens follow one another as the link makes them, and overlap only with an open that was
  given up. Two factories on one channel, `WAIT_FAILED`, and a panic of a blocking task are left out.
* In the run of FramePath identifiers have two and three bits: every rule, range and identifier of
  that size is tried. `StandardWidth` and `ExtendedWidth` are constants, and the theorems hold for
  11 and 29 as for any other.
* A panic happens in a call into the transport, which is foreign code, or at any time
  for the scheduler, which is not modelled inside.

## 3. The runs

| Run | Instance | Shows |
|---|---|---|
| `supervisor` | 2 opens, budget 1, queue of 1, 1 closer, 2 filters (1 refused), health and silence watchdogs, DropAll, all three tasks may panic, last Link dropped | one live transport (`OneLiveTransport`), `QuietWindow`, `EndIsAnnounced`, `CloseAwaitsCleanup`, `FilterIsReplayed`, refinement of LinkLifecycle |
| `supervisor_live` | 1 open, queue of 2, 1 closer, all three kinds of handle | `CloseCompletes`, `HandlesGoneEnds` |
| `runtime` | 2 opens, 2 frames, capacity 1, Hold and FailFast | `RuntimeTypeOK` with saturation, `WaitFindsChange`, `GateHasTransport`, `ExpiredIsNotTaken`, refinement of FrameQueue |
| `runtime_live` | 1 open, 1 frame, Hold, the worker may panic, last Link dropped | `FramesAreAnswered`, both contracts (`KeepsContracts`) |
| `cyclic` | 2 items in a budget of 1, 2 calls, time 0 to 2, instants up to 3, tick counts up to 2, an entry that bursts and ends after 2 frames, one that skips, and one whose delay leads past the last instant; heap compacted above 1 node per entry plus 1 | `CyclicTypeOK` with the bound of the unbounded channel, `UpdateIsEscorted`, `DeadlinesAreKept`, `EverythingIsCounted` |
| `cyclic_live` | 1 item, 2 calls, time 0 to 2, bursts and triggers up to 2, no overflow | `CallsTakeEffect` (updates are applied, `stop()` returns) |
| `reception` | subscribers and requesters of every policy and mode in budgets of 1 and 2, up to 3 frames, the task may end at any point | `SlotIsEscorted`, `SleeperIsWoken`, `FramesAreAccounted`, `FramesKeepOrder`, `AnswersHaveNoGap`, `SubscribeReturns`, `LossIsHeard`, `ReceptionTypeOK` with the bound of the command channels |
| `transports` | PCAN-Basic on the three sources with both policies, 1 and 2 opens, 1 and 2 worker threads, up to 3 messages, a caller against close; SocketCAN with one receiver, one sender, 2 frames each way, room for 1 | `NoStrayCalls`, `NothingSleeps`, `EveryMessageIsKept`, `NothingLeaks`, `CloseReturns`, `RecvHearsClose`, `ClosedIsFinal` |
| `frames` | 4 routes; every message type, status word of 1 or 2 bits and error frame of up to 3 classes; every rule over identifiers of 2 and 3 bits, pairs of rules, remote frames, on PCAN also rules that only serde can make | `FramesAreLegal`, `FramesComeBack`, `FilterIsFaithful`, `StatusIsTrue` |
| `loss_forgotten`, `window_overrun`, `event_swallowed` | see *Findings* | what a comment or a doc says and the code does not do |

**Bounds.** Two opens are the least at which something of an old connection can meet a new one, and
no action looks at more than the current and the previous transport. Two frames are the least that
can be swapped, with capacity 1 so that the second waits in the channel while the first is staged,
in hand or put back. The command queue of 1 or 2 makes every sender meet a full queue; with 2 a
`close()` can stand behind the fault that ends the task. A budget of 1 with `AttemptMax` 2 meets the
budget; unlimited attempts with `AttemptMax` 1 meet the saturation. When the factory has no
transport left to give (`MaxOpens`), `open()` only fails: the behaviours stay real. For the
scheduler two calls are what the flag needs: one whose command is being handled, one that comes
meanwhile. Its second item can only be admitted when every clone of the first one's lease is gone;
with a budget of 1, `AddSlots` never refuses first. Three instants let an entry of period 1 be late
by three ticks, more than its burst of 1 and more than `CountMax`; with `LastInstant` one beyond, a
period of 2 overflows at a tick, a delay and a new period at their commands. `cyclic_live` keeps
both constants out of reach: the clock of the model stops, and an entry phased anew with what is now
would be due for ever. In `reception` each setup is one question (which callers take part, how many
frames arrive), since callers meet only in the budget, the table and the task: two subscribers
compete for one lease, a queue of one overflows at the second frame, and two attempts of a request
need an answer too late and one in time. In `transports` two opens are one that was given up and one
that follows; three messages are one delivered, one in hand and one queued. `CHECK_DEADLOCK FALSE`
everywhere, since a closed link really stops, as does a bus that has brought its last message.

**Fairness** (`SupervisorFairness`, `TxFairness`, `RuntimeFairness`). The runtime polls a task
that can run: weak fairness of its steps. The transport answers: `open()` and `status()` have
a timeout in the code; `close()` and `set_filter()` are awaited without one and are
*trusted* to return, which is an assumption on the back ends. `select!` starts polling at a
random branch, so a branch ready again and again is taken: strong fairness of the commands,
the backoff, the handles and the state watch, but not of reception or the health check, which
need never bring anything. A bounded tokio channel serves its waiting senders in order:
strong fairness of `CloseQueued`. Time passes: weak fairness of `Age`. Nothing is assumed
of clients or of panics. `FairCyclicSpec` assumes that a call on a handle that has begun goes on
(it is synchronous code) and that the scheduler takes a command, and handles a tick, when it can;
not that time passes. `ReceptionFairness` assumes that the task takes its commands in the end (its
`select!` is random) and closes down once it has announced its end, and that a caller which has been
woken runs; not that frames arrive or deadlines pass. `AnyFairness` assumes that threads and
synchronous code go on, that a task that is ready is polled and that the reactor turns; each of
these steps stays enabled until it is taken or has become needless, so weak fairness is enough. The
driver's and the kernel's calls return.

Each property has a mutant in `PROJECT.json`: a change a plausible bug would make, under
which the same run finds the property violated.

## 4. What is proved

Everything here holds for all values of the constants that the `ASSUME`s of LinkMachine,
LinkChannels, LinkSupervisor, TxWorker, CyclicScheduler, ReceiveTask, RxRouter, Transactions,
PcanDriver, PcanChannel, SocketCan, CanFrames and FramePath allow, and rests on nothing else but the
hypotheses of two theorems that are explained there (`PlainTraffic`, `KernelSeesIds`). TLC evaluates
these assumptions in the runs.

### The supervisor

Two modules, one on the other, about `SupervisorSpec`: the supervisor with any worker that
keeps to `TxEnvironment`, any clients, any order of steps and any loss of a task.

**SupervisorProofs.** `StepTransition` names the transition that answers an input in a state;
`SupervisorTypesAlways` follows for every action. None of the other properties is inductive: between
two actions of a list the timers and the transport are out of step with the state, which has been
published already. `StepAnswers` says what a list may hold (`Fits`: which actions with which state,
an open only at the end), in which order (`GateFirst`: the gate before the close) and what it must
hold for the state it leads to (`Reached`). From it:

* `FlowInvariance` – `FlowInv`: for each state of the machine, where the task can be, which
  deadlines are armed *or still due* in the rest of the list, and where a transport may be held.
* `OwnInvariance` – `OwnInv`: who holds the one live transport, and that it is the one the
  worker's watch shows. `OneLiveAlways` and, with `FlowInv` at the end of a list,
  `SelectAlwaysSteady` follow.
* `SupervisorKeepsGate` – with an open gate, what is left of the list sets the gate before it
  closes the transport (`GateBeforeClose`); a guard only shuts the gate.

**SupervisorPromises.** `CloseAlwaysAwaits`: a request of `close()` is answered only by `Exit` or
after it, and there nothing is due, so no transport is held (`ClosedIsClean`). A call that finds the
link Closed returns at once: if the machine is Closed and a transport is left, it is in `close()` or
its `CloseTransport` is still due in the list; if only a guard has closed the link, nothing is said.
`FilterAlwaysReplayed`, `QuietAlwaysOwn`, `EndAlwaysAnnounced` and `StateAlwaysPublished` each add
one small invariant to `FlowInv`: which filter the transport has while `OpenSucceeded` waits for its
answer, that a transport installed since `last_rx` is one of a link that was not connected before
and so gets a new window, that the last event is still due or sent.

`SupervisorImplements`: `SupervisorSpec` implements `LinkLifecycle` with the
state and counter of the machine, the open and closing transports as `live`, the closed ones as
`used`. `StepMoves` classifies what a step does to state and counter, budget and saturation
included; `FlowInv` and `OwnInv` give the guards of `Begin` and `Acquire` (nothing live) and
`Establish` (something live).

### The worker

`TxWorkerProofs` proves, of `TxWorkerSpec` (the worker under the contract of the others):

* `WatchInvariance` – the inductive invariant `WatchInv` of the two watches. Neither
  `WaitFindsChange` nor `GateChangeWakes` is inductive: what makes the wait safe is that the
  worker read an open gate some steps before, that an open gate had a transport
  (`GateHasTransport`), and that a transport that has gone since left a change the worker has
  not marked as seen (`WithdrawalUnseen`). The same of the gate is `GateReadOrUnseen`.
* `GateAlwaysHasTransport`, `WaitAlwaysFindsChange`, `GateChangeAlwaysWakes` follow.
* `TxInvariance` – types, with what the worker's hand holds at each place (`HandInv`) and
  the bound on staging: a frame that is put back finds room only because the place it left
  in the staged segment cannot be filled while it is in hand.
* `TxTypesAlways`, `StagedAlwaysBounded` follow, and `ExpiredNeverTaken`: what gets into the hand
  for sending is the oldest frame, looked at in the same step.
* `QueueImplements` – the worker implements FrameQueue, with the channel behind the staged segment
  behind the frame in hand as its one queue (`Unanswered`). Lemmas about sequences say where the
  front is while a frame is in hand, and what taking, putting back, parking and draining do to the
  whole; from them each step is `Delivered`, `Lost`, `Joined` or `Kept` (`StepMovesQueue`). That
  only the next number is accepted is `NumberInv`: no number above the last has an answer.

### The whole link

`RuntimeProofs`, of `RuntimeSpec`, discharges the two contracts, in two rounds, since neither part
can lean on the other's theorems before the other's contract is known to be kept:

* the worker's steps are `TxEnvironment`'s, from `HeldInv` alone, which is inductive with both tasks
  at work: a transport in anybody's hand was opened, and a fault is posted only with one
  (`WorkerKeepsContract`, `KeepsSupervisorSpec`);
* so the supervisor's invariants hold of the whole, and with them (`LinkInv`: `FlowInv`, `OwnInv`,
  `GateInv`) its steps are `Environment`'s (`SupervisorKeepsContract`): the gate opens only over a
  published transport, a close withdraws it under a gate that is shut, and a refused candidate was
  never published.

`ContractsAreKept` is both, `RuntimeTypesAlways` and `LinkKeepsPromises` what follows: every promise
above, with no contract left to assume.

### The cyclic scheduler

`CyclicProofs`, of `CyclicSpec`: any number of items, calls and callers, any budget, any stalls.
The inductive invariant `CyclicInv` (`CyclicInvariance`) is the conjunction of the types
(`HandleShape`, `SchedShape`, `GhostShape`) and of

* `LifeInv`, `OrderInv` – an item has nothing before its `schedule_cyclic`, no entry and no node
  before its Add is taken; its Add is the first of its commands and its Stop comes once, after the
  handle was given up, so no command finds an entry of another life.
* `FlagInv` – the flag of a slot stands for one wake-up and no more: a caller about to send it, the
  command in the channel, or the scheduler that has received it.
* `EscortInv` – while an entry lives *or its Add is on its way*, a set flag has its wake-up, and what
  the slot holds that the entry has not got is `Escorted`. That the frame is compared with what the
  scheduler has taken already (`FrameTaken`) is what makes it inductive between `take()` and its use.
* `NodeInv` – a node has an older generation than its entry, or the entry's deadline.
* `PhaseInv` – the next due time is a whole number of periods after the instant an entry was phased
  with, and no more than one period ahead of the clock unless it is that instant itself. Without the
  second half the clock could pass a tick that the entry is already beyond.
* `CountInv`, `StallInv`, `TickInv` – what is uncounted is the triggers in the slot and the ticks
  outstanding, by arithmetic on quotients (`Division`, `OneLater`, `TicksPassed`): a tick comes with
  the clock exactly when one more is outstanding (`TickComes`), and a handled one goes on past all it
  has counted, or by fewer after a stall of more than `CountMax` (`Advancing`), which is why the
  claim that nothing is counted twice needs `~stalled`.
* `BudgetInv` – the items that hold a lease fit the budget.

`UpdateAlwaysEscorted`, `PhaseAlwaysKept`, `EverythingAlwaysCounted` follow; so do
`CommandsAlwaysBounded` and `CyclicTypesAlways`, since an item has one command of each kind at most
and each is a lease (`BudgetBoundsCommands`). `EntriesAlwaysDue` adds `DueInv`: each running entry
has its node. A generation only moves together with a new node or a pause, a pop is followed by the
next deadline, and a compaction builds the heap from the entries themselves.

### The reception

`ReceptionProofs`, of `ReceptionSpec`: any number of subscribers and requesters, of frames, and
an end of the task at any point. `RouterIsMoved` first reduces the steps of the whole to those
that touch the router, and `RouteEffects` a dispatched frame to what it does to one
subscription: skipped, pushed, overflowed or shut.

* `SleeperAlwaysWoken` – `PushLeavesWake` says more than the property: from the moment recv()
  has found the queue empty a frame leaves a permit or a wake-up, and from the moment it has
  found the flag unset a close leaves a wake-up.
* `SlotAlwaysEscorted` – after the end there are no slots; before it, a command sent is one that
  will be read, and the queue only gains at its end and loses at its front (`AppendKeeps`,
  `TailKeeps`). The front is the only place where an escort can vanish, and that step takes
  the slot with it.
* `FramesAlwaysAccounted`, `FramesAlwaysInOrder` – `DeliveryInv`: a call that is not in the router
  yet has seen nothing; what was received, what is queued and what is dropped add up; and
  `InOrder`, which four lemmas about sequences (`OrderPop`, `OrderPush`, `OrderExchange`,
  `OrderDrop`) carry through each step.
* `CommandsAlwaysFit` – `LeasesFit`: a call has one command in its channel at most, and none while it
  is idle or holds what it got (`LoneSubscriber`, `LoneRequest`), so that each command in a channel
  belongs to a different lease; the leases fit, since one is taken at a time (`AdmittedFit`).
* `AnswersAlwaysWhole` – `AnswerInv`: behind the answers taken the buffer goes on with the next ones
  (`GoesOn`), and below the limit it has all that came (`MissesNone`). A full buffer does drop
  answers; for First and Exactly it has as many places as the limit, so that only answers beyond
  the limit are lost and the clause stays inductive. A Window has fewer, which is finding 2.
* `ReceptionTypesAlways` – the same with the bounds: a capacity is chosen while the queue is
  empty, a full queue trades one frame for one, `register` looks at the table before it adds.

### The transports

`TransportProofs`, of `AnySpec`: any number of opens, callers and messages.

* `NoCallStrays`, `NothingIsLeaked` – `PcanInv` says at each moment who has the driver: the job
  of the open that has the permit, or the one channel that lives (`SoleInv`, `HandleInv`). The
  source belongs to one of them and is quiet before the handle goes back (`SourceInv`); a call
  inside the driver has the gate, so that the channel it is on cannot end (`CallInv`). That a
  new open finds nothing alive (`PermitIsAlone`) rests on the order of the supervisor's opens and
  on the permit that an abandoned job keeps until its channel is closed.
* `NothingEverSleeps` – `SleepInv` and `SocketInv`: for what lies in the queue there is an edge
  that has not been taken, or a readiness that has not been asked for. The premise `PlainTraffic`
  leaves out the messages `read_one` makes nothing of; finding `event_swallowed` shows that the
  statement is false with them.
* `ClosedAlwaysFinal` – each step of a socket's loop takes its task out of those that have decided to
  call the kernel (`Decided`) or leaves it there; once closed is set none comes in, because it is
  read again behind each wait. What is left is the one call of a task that had read the flag.
* `AnyTypesAlways` – `WireInv` and `SocketCounts`: a lock that is free or has one caller (`Lone`),
  which `Cardinality` is too weak a form of to be inductive; a hand that is full exactly while the
  thread pushes; and frames the kernel has handed over and still has, together no more than arrive.
* `MessagesAlwaysKept` – `KeptInv`: the pipeline, delivered, channel, hand, driver, rises, and
  together with the dropped it has what arrived. Each step moves one message from one place to
  the next, which the `Pipe` lemmas state as equations of sequences (`PipeReads`, `PipePushes`,
  `PipeTakes`, `PipePolls`), or takes one out (`PipeDrops`, `PipeSwallows`). Between
  CAN_Initialize and the source the queue alone is the pipeline, which is why the job's
  positions are part of the invariant; and `SourceAge` says that an old source is never that
  of the open under way, so that the statement is not met by a queue that was just reset.

### The frame path

`FrameProofs`, of `PathSpec`: any widths, any rules, payloads, serialized frames and messages.
`PathInv` is inductive: each stage holds exactly what the stage before made, from a frame of the
application or a message of the bus. The rest is what the operators do.

* `FramesAlwaysLegal` – each constructor and each conversion makes at most one frame, and a legal one
  (`Good`), whatever it is given: `NewMade`, `RemoteMade`, `NewFdMade`, `EsiMade`, then the four
  decoders. `Application` is not all legal (serde may bring ESI without FD), so that it is not
  enough to say that frames are passed on unchanged.
* `FramesAlwaysComeBack` – `BackOverFd`, `BackOverClassic`, `BackOverSocket`: decoding undoes
  encoding on legal frames. What it needs is that a legal length survives the DLC table
  (`DlcAndBack`) and the rounding up (`RoundUpKeeps`), and that ESI, which `new_fd` does not set, is
  put back (`EsiRestored`). That no filter stops an echo which is wanted is the next theorem.
* `FilterAlwaysFaithful` – `RangeLosesNothing` and `RangeLetsNothingElse`: if the wildcard bits are
  0 to n - 1, the identifiers from `from` to `from + 2^n - 1` are those that differ from it in
  wildcard bits only. `RangeNumbers` is the heart: a number between `a` and `a | w` that differed
  from `a` above `w` would differ in a highest bit (`HighestBit`, by well-founded induction). On a
  socket the kernel compares `can_id`s, and `KernelLosesNothing` shows that it sees in them what
  `FilterSet::matches` sees in the identifier (`DecodedBits`). This needs `KernelSeesIds`: rules made
  by `FilterRule`'s constructors, and standard identifiers without bits above 10. TLC checks that
  each channel of the run satisfies it. Without it the statement is false, see *Findings*.
* `StatusAlwaysTrue` – `StatesOfWords` and `WarningsAreBits`: state and warnings are read off the same
  bits, in a word, a status message or an error frame (`WordFits`, `MetadataFits`,
  `ErrorFrameFits`). A word with BUSOFF is a failure before it is anything else (`BusOffFails`), a
  state is BusOff only if its bit is set (`BusOffIsABit`), and a message of the driver is no frame
  (`MetadataIsNoFrame`): `PcanStatus` and `SocketStatus` say of each back end which bus off is
  reported. The two exceptions are the disjunct `Unheard`, see *Findings*.

### Only model-checked

Liveness under fairness is beyond the prover: `CloseCompletes`, `HandlesGoneEnds`,
`FramesAreAnswered`, `CallsTakeEffect`, `SubscribeReturns`, `LossIsHeard`, `CloseReturns`,
`RecvHearsClose`. Every other property of a passing run is a theorem. `PublishedState`,
`SelectIsSteady`, `SupervisorTypeOK`, `StagedIsBounded` and `GateChangeWakes` are proved and not in
a run.

## 5. Findings

1. **The loss of the worker is forgotten** (`loss_forgotten`). The guard publishes Closed; if
   the supervisor is awaiting inside `apply_input`, its next round publishes its own state
   over it, and the link goes on without a worker, against `guard.rs:20-24`.
2. **A window may end without its answers** (`window_overrun`). The buffer of a transaction holds
   64 answers at most (`link.rs:425`); one more is dropped, and the window returns Ok with the others.
   `transaction.rs:199-200` says that an incomplete success is never returned;
   `events.rs:87` and `docs/concepts.md:75-79` admit that it is, with an event.
3. **A message nobody understands hides the next one** (`event_swallowed`). `read_one` answers
   Empty for a message that is neither a frame nor a status it knows (`rx/mod.rs:129-139`), which
   `poll_event` and the Windows loop take for an empty queue: an event queued behind it
   waits for the next edge, against the intent of `rx/linux.rs:154-157`.

Seen while modelling, with no run of their own:

* `TxFault` does not say which transport failed: a Permanent answer of an old clone closes the
  connection that followed (`supervisor/mod.rs:260`, against `actions.rs:64-65`), and a stale one
  disconnects newer transactions (`mod.rs:321`).
* A `Subscription` and a `PendingResponse` kept after the last Link is dropped keep the tasks alive
  (`link.rs:68-69`).
* A `close()` that finds the link Closed returns at once (`link.rs:515-517`), against
  `link.rs:68-70` and `docs/concepts.md:65-67`, which recommend it for awaiting the cleanup: Closed is
  published before the `CloseTransport` of the same step is executed (`actions.rs:33-36`), after a
  permanent fault as after another `close()`, and TLC finds the call that returns with the transport
  open. `CloseAwaitsCleanup` names this as its one exception. A second `close()` of a transport
  returns at once likewise.
* `set_frame` then `trigger_once` between the two halves of `take()` send the frame before
  (`cyclic.rs:253`, against 655-656).
* `recv()` of a subscription may return None with a frame queued, when the frame and the close both
  come between its two looks (`router.rs:127-132`).
* On SocketCAN a frame may go out just after `close()` has returned, if the flag was read before
  (`socket.rs:738`, against 736-737), one for each task and no more (`ClosedIsFinal`); a PCAN channel
  has a gate against it.
* A `set_filter` that fails at its second call leaves a PCAN channel deaf: the filter has been closed
  (`channel.rs:130`), and nothing opens it again before the next `set_filter` or `open()`. The Err
  tells the caller so; `docs/concepts.md:135-138` would rather receive too much than lose a frame in
  silence.
* Of a PCAN error frame only the warnings are read (`rx/mod.rs:46-57`): with BUSOFF and BUSHEAVY it
  is reported as Warning, with BUSPASSIVE as ErrorPassive, with BUSOFF alone not at all. A status
  message that says BUSOFF is dropped behind a word with a warning (`rx/mod.rs:118-120`), and the
  status then says what the word says. `StatusIsTrue` names both as its exceptions; the health
  check, which reads a status word, is what tells the link.
* A tick that is outstanding when `set_period`, `pause` or `resume` takes the node of its entry away
  is neither sent nor skipped (`cyclic.rs:655-676`). After a stall of more than `u32::MAX` periods an
  entry advances by that many and its ticks are counted again (`cyclic.rs:746`).
* An entry whose next instant overflows is to be phased anew "from the current time"
  (`cyclic.rs:748-756`). It was due in the past, so that now plus one period overflows as well: it is
  due now, and sends without a pause. A period or a delay that overflows when it is added to
  `Instant::now()` panics the scheduler (`cyclic.rs:631, 673`).
* A frame read by serde may carry ESI without FD; its echo is not recognised on PCAN FD. A read
  that reports warnings with its status word discards the message that came with it. A message
  that cannot be decoded is Empty on PCAN and Permanent on SocketCAN.
* `FilterRule` derives `Deserialize` without masking (`filter.rs:10`), though `parts()` says its values
  keep to the bits of an identifier (`filter.rs:57-60`). A rule read with bit 29 in its `id` becomes
  `CAN_INV_FILTER` in `kernel_filters` (`socket.rs:110-115`): the kernel's filter is inverted, and with
  such a rule the model stops a frame that the subscription wants. On PCAN stray bits do no harm to
  what is wanted, which the theorem covers.

## 6. Plan

Done: the link runtime (state machine, channels, guards, supervisor, transmit worker, their
composition, cyclic scheduler, reception with router and transactions), both transports with
their common facade, the way of a frame through the conversions, and the proofs of the supervisor
and the worker under their contracts and of both together, of the cyclic scheduler, the reception,
the transports and the frame path.

Every safety and action property of a passing run is proved. What could come next: two factories
on one PCAN channel, the identity of the transport in `TxFault`, and the watches of capabilities and
bus status.

### Not modelled

* The depth counter and the high-water events of `txqueue.rs`, statistics, and the watches of
  capabilities and bus status: nothing in the program reads them.
* `supervisor/backoff.rs`: floating-point arithmetic and jitter.
* Device enumeration, bit timing tables, FFI symbol loading and C layouts, `discover.rs`,
  `open.rs`: input and output, without state that two actors share.
* `testing.rs`: the models give every answer a transport may give.
