------------------------------ MODULE TxWorker ------------------------------
(***************************************************************************)
(* The transmit worker (txqueue.rs, run_tx), the clients that queue frames *)
(* (Link::try_send, send_timeout, send_await in link.rs), and the contract *)
(* under which the rest of the link may touch the channels they share.     *)
(*                                                                         *)
(* Frames are numbered in the order the bounded channel accepts them, and  *)
(* a number stands for the TxItem.  Time is the set "old" of the frames    *)
(* whose age has passed max_pending_age: any frame may join it any time.   *)
(***************************************************************************)
EXTENDS LinkChannels

CONSTANTS
  Capacity,    \* RuntimeConfig.tx_capacity, of the channel and of pending
  RetryLimit,  \* RuntimeConfig.tx_retry_limit
  Senders,     \* clients that send frames
  MaxFrames,   \* bound: how many frames the channel accepts in a behaviour
  TxMayPanic   \* whether a call of Transport::send may panic

ASSUME TxAssumption ==
  /\ Capacity \in Nat \ {0}
  /\ RetryLimit \in Nat
  /\ MaxFrames \in Nat
  /\ TxMayPanic \in BOOLEAN

VARIABLES
  worker,     \* where the worker is
  wGate,      \* current_gate: the gate as read at the top of the loop
  pending,    \* VecDeque<TxItem>, the staged frames
  chan,       \* mpsc<TxItem>, the queued frames
  inflight,   \* the item taken and not yet answered, 0 for none
  held,       \* current_transport
  retry,
  faultKind,  \* kind of the TxFault being posted
  accepted,   \* how many frames the channel has accepted
  old,        \* unanswered frames older than max_pending_age
  outcome,    \* what became of each accepted frame
  bus,        \* frames a transport took, in order
  sender      \* progress of each client

queue      == <<pending, chan, inflight>>
sending    == <<held, retry, faultKind>>
record     == <<old, outcome, bus>>
workerVars == <<worker, wGate, queue, sending, accepted, record, sender>>
\* Everything but the version flag of the supervisor's own state receiver.
txVars ==
  <<policy, linkState, gateWatch, txWatch, commands, tstate, tasks, handles, workerVars>>

Frames == 1..MaxFrames
NoFrame == 0

TxPlaces == {"top", "take", "drain", "hold", "borrow", "parkT", "send", "fault", "park",
             "done", "lost"}
Outcomes == {"none", "queued", "sent", "expired", "failed", "dropped", "closed"}

TxTypeOK ==
  /\ worker \in TxPlaces
  /\ wGate \in TxGates
  /\ pending \in Seq(Frames) /\ Len(pending) <= Capacity
  /\ chan \in Seq(Frames) /\ Len(chan) <= Capacity
  /\ inflight \in Frames \cup {NoFrame}
  /\ held \in Transports \cup {None}
  /\ retry \in 0..RetryLimit
  /\ faultKind \in {"none", "Fatal", "Permanent"}
  /\ accepted \in 0..MaxFrames
  /\ old \subseteq Frames
  /\ outcome \in [Frames -> Outcomes]
  /\ bus \in Seq(Frames)
  /\ sender \in [Senders -> {"idle", "waiting"}]

TxInit ==
  /\ worker = "top" /\ wGate = "Hold"
  /\ pending = <<>> /\ chan = <<>> /\ inflight = NoFrame
  /\ held = None /\ retry = 0 /\ faultKind = "none"
  /\ accepted = 0
  /\ old = {}
  /\ outcome = [i \in Frames |-> "none"]
  /\ bus = <<>>
  /\ sender = [s \in Senders |-> "idle"]

-----------------------------------------------------------------------------
(* The loop of run_tx *)

\* The frames of s, all of them given the same outcome.
Resolve(s, result) ==
  LET answered == {s[k] : k \in DOMAIN s}
  IN  /\ outcome' = [i \in Frames |-> IF i \in answered THEN result ELSE outcome[i]]
      /\ old' = old \ answered

Goto(place) == worker' = place /\ UNCHANGED <<wGate, sending>>

\* The iteration is over and its variables are gone.
Leave(place) ==
  /\ worker' = place /\ wGate' = "Hold"
  /\ held' = None /\ retry' = 0 /\ faultKind' = "none"

Again == Leave("top")

\* gate.borrow() marks nothing as seen.
Top ==
  /\ worker = "top"
  /\ wGate' = gate
  /\ worker' = CASE gate = "Open"    -> "take"
                 [] gate = "FailAll" -> "drain"
                 [] gate = "Hold"    -> "hold"
  /\ UNCHANGED <<channelVars, queue, sending, accepted, record, sender>>

\* The staged frame first, else one from the channel: park if there is none.
TakeNothing ==
  /\ worker = "take"
  /\ pending = <<>> /\ chan = <<>>
  /\ Goto("park")
  /\ UNCHANGED <<channelVars, queue, accepted, record, sender>>

Oldest == Head(pending \o chan)

RemoveOldest ==
  IF pending # <<>>
    THEN pending' = Tail(pending) /\ UNCHANGED chan
    ELSE chan' = Tail(chan) /\ UNCHANGED pending

TakeExpired ==
  /\ worker = "take"
  /\ pending \o chan # <<>>
  /\ Oldest \in old
  /\ RemoveOldest
  /\ Resolve(<<Oldest>>, "expired")
  /\ Again
  /\ UNCHANGED <<channelVars, inflight, accepted, bus, sender>>

\* Mutant of TakeFresh: the age is not looked at.
TakeAny ==
  /\ worker = "take"
  /\ pending \o chan # <<>>
  /\ RemoveOldest
  /\ inflight' = Oldest
  /\ Goto("borrow")
  /\ UNCHANGED <<channelVars, accepted, record, sender>>

TakeFresh ==
  /\ worker = "take"
  /\ pending \o chan # <<>>
  /\ Oldest \notin old
  /\ RemoveOldest
  /\ inflight' = Oldest
  /\ Goto("borrow")
  /\ UNCHANGED <<channelVars, accepted, record, sender>>

\* Mutant of PutBack: the frame is queued again behind the others.
PutLast == chan' = Append(chan, inflight) /\ inflight' = NoFrame /\ UNCHANGED pending

PutBack == pending' = <<inflight>> \o pending /\ inflight' = NoFrame /\ UNCHANGED chan

\* Mutant of BorrowNone: the value is read with borrow_and_update().
BorrowNoneSeen ==
  /\ worker = "borrow"
  /\ transportWatch = None
  /\ transportUnseen' = FALSE
  /\ PutBack
  /\ Goto("parkT")
  /\ UNCHANGED <<policy, stateWatch, gateWatch, transportWatch, commands, tstate, tasks, handles,
                 accepted, record, sender>>

BorrowNone ==
  /\ worker = "borrow"
  /\ transportWatch = None
  /\ PutBack
  /\ Goto("parkT")
  /\ UNCHANGED <<channelVars, accepted, record, sender>>

BorrowSome ==
  /\ worker = "borrow"
  /\ transportWatch # None
  /\ held' = transportWatch /\ retry' = 0
  /\ worker' = "send"
  /\ UNCHANGED <<channelVars, wGate, queue, faultKind, accepted, record, sender>>

\* A closed transport answers Error::Closed, which is Permanent.
Answers(kind) == tstate[held] = "closed" => kind = "Permanent"

SendOk ==
  /\ worker = "send"
  /\ Answers("Ok")
  /\ bus' = Append(bus, inflight)
  /\ Resolve(<<inflight>>, "sent")
  /\ inflight' = NoFrame
  /\ Again
  /\ UNCHANGED <<channelVars, pending, chan, accepted, sender>>

SendRetries ==
  /\ worker = "send"
  /\ Answers("Transient") /\ retry < RetryLimit
  /\ retry' = retry + 1
  /\ UNCHANGED <<channelVars, worker, wGate, queue, held, faultKind, accepted, record, sender>>

\* Recoverable, or Transient once too often: the frame is given up.
SendGivesUp ==
  /\ worker = "send"
  /\ Answers("Recoverable") \/ (Answers("Transient") /\ retry = RetryLimit)
  /\ Resolve(<<inflight>>, "failed")
  /\ inflight' = NoFrame
  /\ Again
  /\ UNCHANGED <<channelVars, pending, chan, accepted, bus, sender>>

SendFaults(kind) ==
  /\ worker = "send"
  /\ Answers(kind)
  /\ PutBack
  /\ faultKind' = kind
  /\ worker' = "fault"
  /\ UNCHANGED <<channelVars, wGate, held, retry, accepted, record, sender>>

\* Mutant of PostFault: the fault does not wait for room.
PostFaultAnyway ==
  /\ worker = "fault"
  /\ commands' = IF supAlive THEN Append(commands, TxFault(faultKind, held)) ELSE commands
  /\ Again
  /\ UNCHANGED <<policy, stateWatch, gateWatch, txWatch, tstate, tasks, handles, queue,
                 accepted, record, sender>>

\* supervisor.send(TxFault).await: it waits for room, and fails without a supervisor.
PostFault ==
  /\ worker = "fault"
  /\ IF supAlive
       THEN /\ Len(commands) < QueueBound
            /\ commands' = Append(commands, TxFault(faultKind, held))
       ELSE UNCHANGED commands
  /\ Again
  /\ UNCHANGED <<policy, stateWatch, gateWatch, txWatch, tstate, tasks, handles, queue,
                 accepted, record, sender>>

Drain ==
  /\ worker = "drain"
  /\ pending' = <<>> /\ chan' = <<>>
  /\ Resolve(pending \o chan, "dropped")
  /\ Goto("park")
  /\ UNCHANGED <<channelVars, inflight, accepted, bus, sender>>

\* pending is filled up to the capacity, then its expired front is dropped.
Lesser(a, b) == IF a < b THEN a ELSE b

Hold ==
  /\ worker = "hold"
  /\ LET moved  == IF Len(pending) < Capacity THEN Lesser(Len(chan), Capacity - Len(pending))
                                              ELSE 0
         filled == pending \o SubSeq(chan, 1, moved)
     IN  \E n \in 0..Len(filled) :
           /\ \A k \in 1..n : filled[k] \in old
           /\ n < Len(filled) => filled[n + 1] \notin old
           /\ pending' = SubSeq(filled, n + 1, Len(filled))
           /\ chan' = SubSeq(chan, moved + 1, Len(chan))
           /\ Resolve(SubSeq(filled, 1, n), "expired")
  /\ Goto("park")
  /\ UNCHANGED <<channelVars, inflight, accepted, bus, sender>>

-----------------------------------------------------------------------------
(* Waiting: for a transport ("parkT") or in the select ("park") *)

SeeTransport ==
  /\ worker \in {"parkT", "park"}
  /\ transportUnseen
  /\ transportUnseen' = FALSE
  /\ Again
  /\ UNCHANGED <<policy, stateWatch, gateWatch, transportWatch, commands, tstate, tasks, handles,
                 queue, accepted, record, sender>>

SeeGate ==
  /\ worker = "park"
  /\ gateUnseen
  /\ gateUnseen' = FALSE
  /\ Again
  /\ UNCHANGED <<policy, stateWatch, gate, txWatch, commands, tstate, tasks, handles,
                 queue, accepted, record, sender>>

ParkReceives ==
  /\ worker = "park"
  /\ Len(pending) < Capacity /\ chan # <<>>
  /\ pending' = Append(pending, Head(chan))
  /\ chan' = Tail(chan)
  /\ Again
  /\ UNCHANGED <<channelVars, inflight, accepted, record, sender>>

\* Mutant of ParkExpires: the expiry is armed only while the gate is open.
ParkExpiresIfOpen ==
  /\ worker = "park"
  /\ wGate = "Open"
  /\ pending # <<>> /\ Head(pending) \in old
  /\ Again
  /\ UNCHANGED <<channelVars, queue, accepted, record, sender>>

ParkExpires ==
  /\ worker = "park"
  /\ wGate = "Hold"
  /\ pending # <<>> /\ Head(pending) \in old
  /\ Again
  /\ UNCHANGED <<channelVars, queue, accepted, record, sender>>

\* Every sender of frames is gone: the Links, and the scheduler with its clone.
NoMoreFrames == "link" \notin handles /\ ~cyclicAlive

\* The exits of the loop.  The frames left in both queues are dropped unanswered.
Exits ==
  /\ \/ worker \in {"parkT", "park"} /\ ~supAlive /\ ~transportUnseen
     \/ worker = "park" /\ Len(pending) < Capacity /\ chan = <<>> /\ NoMoreFrames
  /\ txAlive' = FALSE
  /\ Leave("done")
  /\ Resolve(pending \o chan, "closed")
  /\ pending' = <<>> /\ chan' = <<>>
  /\ UNCHANGED <<policy, stateWatch, gateWatch, txWatch, commands, tstate, supAlive, cyclicAlive,
                 cyclicClosed, handles, inflight, accepted, bus, sender>>

\* A panic in Transport::send unwinds the task.
Panics ==
  /\ TxMayPanic
  /\ worker = "send"
  /\ txAlive' = FALSE
  /\ FatalGuard(supAlive \/ cyclicAlive)
  /\ Leave("lost")
  /\ Resolve(<<inflight>> \o pending \o chan, "closed")
  /\ pending' = <<>> /\ chan' = <<>> /\ inflight' = NoFrame
  /\ UNCHANGED <<policy, txWatch, commands, tstate, supAlive, cyclicAlive, handles,
                 accepted, bus, sender>>

WorkerRuns ==
  \/ Top \/ TakeNothing \/ TakeExpired \/ TakeFresh \/ BorrowNone \/ BorrowSome
  \/ SendOk \/ SendRetries \/ SendGivesUp \/ \E k \in {"Fatal", "Permanent"} : SendFaults(k)
  \/ PostFault \/ Drain \/ Hold
  \/ SeeTransport \/ SeeGate \/ ParkReceives \/ ParkExpires \/ Exits

-----------------------------------------------------------------------------
(* Clients, and time *)

\* disconnected_if_fail_fast() lets the call through to the channel.
Admitted == linkState # Closed /\ (policy = "FailFast" => linkState = Connected)

SendCalled(s) ==
  /\ sender[s] = "idle" /\ "link" \in handles
  /\ Admitted
  /\ accepted < MaxFrames
  /\ sender' = [sender EXCEPT ![s] = "waiting"]
  /\ UNCHANGED <<channelVars, worker, wGate, queue, sending, accepted, record>>

\* The channel has room: the frame gets the next number.
SendQueued(s) ==
  /\ sender[s] = "waiting"
  /\ txAlive /\ Len(chan) < Capacity
  /\ accepted < MaxFrames
  /\ accepted' = accepted + 1
  /\ chan' = Append(chan, accepted + 1)
  /\ outcome' = [outcome EXCEPT ![accepted + 1] = "queued"]
  /\ sender' = [sender EXCEPT ![s] = "idle"]
  /\ UNCHANGED <<channelVars, worker, wGate, pending, inflight, sending, old, bus>>

\* TxQueueFull, a timeout of send_timeout, Closed, or the end of the bound.
SendRefused(s) ==
  /\ sender[s] = "waiting"
  /\ ~txAlive \/ Len(chan) = Capacity \/ accepted = MaxFrames
  /\ sender' = [sender EXCEPT ![s] = "idle"]
  /\ UNCHANGED <<channelVars, worker, wGate, queue, sending, accepted, record>>

\* queued_at is taken before the wait for room: a frame may be old when accepted.
Age(i) ==
  /\ i \in 1..accepted /\ i \notin old
  /\ outcome[i] = "queued"
  /\ old' = old \cup {i}
  /\ UNCHANGED <<channelVars, worker, wGate, queue, sending, accepted, outcome, bus, sender>>

TxClients ==
  \/ \E s \in Senders : SendCalled(s) \/ SendQueued(s) \/ SendRefused(s)
  \/ \E i \in Frames : Age(i)

-----------------------------------------------------------------------------
(* The contract of the other tasks: what they may do to the shared channels. *)
(* LinkRuntime shows that the supervisor and its clients do no more.         *)

RestOfWorker == UNCHANGED workerVars

EnvState(s) ==
  /\ supAlive /\ s # Disconnected
  /\ PublishState(s)
  /\ commands' = commands \/ (commands # <<>> /\ commands' = Tail(commands))
  /\ UNCHANGED <<policy, gateWatch, txWatch, tstate, tasks, handles>>
  /\ RestOfWorker

EnvTakes ==
  /\ supAlive /\ commands # <<>>
  /\ commands' = Tail(commands)
  /\ UNCHANGED <<policy, stateWatch, gateWatch, txWatch, tstate, tasks, handles>>
  /\ RestOfWorker

\* The gate is opened only over a published transport.
EnvGate(g) ==
  /\ supAlive
  /\ g = "Open" => transportWatch # None
  /\ PublishGate(g)
  /\ UNCHANGED <<policy, stateWatch, txWatch, commands, tstate, tasks, handles>>
  /\ RestOfWorker

EnvPublishes(t) ==
  /\ supAlive
  /\ tstate[t] = "open" /\ transportWatch = None
  /\ PublishTransport(t)
  /\ UNCHANGED <<policy, stateWatch, gateWatch, commands, tstate, tasks, handles>>
  /\ RestOfWorker

\* A transport is withdrawn only under a gate that is not open, before it is closed.
EnvWithdraws ==
  /\ supAlive
  /\ gate # "Open"
  /\ PublishTransport(None)
  /\ tstate' = [t \in Transports |-> IF t = transportWatch THEN "closing" ELSE tstate[t]]
  /\ UNCHANGED <<policy, stateWatch, gateWatch, commands, tasks, handles>>
  /\ RestOfWorker

EnvTransport(t, next) ==
  /\ supAlive
  /\ t = transportWatch => ~txAlive
  /\ <<tstate[t], next>>
       \in {<<"unopened", "open">>, <<"open", "closing">>, <<"closing", "closed">>}
  /\ tstate' = [tstate EXCEPT ![t] = next]
  /\ UNCHANGED <<policy, stateWatch, gateWatch, txWatch, commands, tasks, handles>>
  /\ RestOfWorker

EnvAsks(m) ==
  /\ supAlive /\ Len(commands) < QueueBound
  /\ commands' = Append(commands, m)
  /\ UNCHANGED <<policy, stateWatch, gateWatch, txWatch, tstate, tasks, handles>>
  /\ RestOfWorker

EnvEnds ==
  /\ supAlive
  /\ supAlive' = FALSE /\ commands' = <<>>
  /\ \/ cyclicClosed' = TRUE /\ UNCHANGED <<stateWatch, gateWatch>>
     \/ FatalGuard(cyclicAlive)
  /\ UNCHANGED <<policy, txWatch, tstate, txAlive, cyclicAlive, handles>>
  /\ RestOfWorker

EnvSchedulerEnds ==
  /\ cyclicAlive' = FALSE
  /\ UNCHANGED <<policy, stateWatch, gateWatch, txWatch, commands, tstate, supAlive, txAlive,
                 cyclicClosed, handles>>
  /\ RestOfWorker

EnvDrops(h) ==
  /\ handles' = handles \ {h}
  /\ h = "link" => \A s \in Senders : sender[s] = "idle"
  /\ UNCHANGED <<policy, stateWatch, gateWatch, txWatch, commands, tstate, tasks>>
  /\ RestOfWorker

Environment ==
  \/ \E s \in LinkStates : EnvState(s)
  \/ EnvTakes
  \/ \E g \in TxGates : EnvGate(g)
  \/ \E t \in Transports : EnvPublishes(t)
  \/ EnvWithdraws
  \/ \E t \in Transports, next \in {"open", "closing", "closed"} : EnvTransport(t, next)
  \/ \E c \in Closers : EnvAsks(CloseRequest(c))
  \/ \E f \in Asked : EnvAsks(FilterRequest(f))
  \/ EnvEnds \/ EnvSchedulerEnds
  \/ \E h \in Droppable : EnvDrops(h)

-----------------------------------------------------------------------------
TxWorkerInit == ChannelInit /\ TxInit
TxWorkerNext == WorkerRuns \/ Panics \/ TxClients \/ Environment
TxWorkerSpec == TxWorkerInit /\ [][TxWorkerNext]_txVars

(* Fairness: the worker runs, Transport::send answers, time passes, and the *)
(* supervisor keeps taking commands as long as it lives.                    *)

TxFairness ==
  /\ WF_txVars(WorkerRuns)
  /\ WF_txVars(EnvTakes)
  /\ \A i \in Frames : WF_txVars(Age(i))

TxWorkerFairSpec == TxWorkerSpec /\ TxFairness

-----------------------------------------------------------------------------
(* Properties *)

\* The accepted frames that have no answer yet, in the worker's hands.
Unanswered == (IF inflight = NoFrame THEN <<>> ELSE <<inflight>>) \o pending \o chan

\* The staged segment keeps to its capacity, the frame in flight included: a
\* frame that is put back always finds its place.
StagedIsBounded == Len(pending) + (IF inflight = NoFrame THEN 0 ELSE 1) <= Capacity

\* The wait for a transport in the middle of the loop never blocks: it listens
\* to neither the gate nor the expiry, so it must find a change waiting.
WaitFindsChange == worker = "parkT" => transportUnseen

\* The worker never sleeps in its select on a gate that is not the current one
\* without a change to wake it.
GateChangeWakes == worker = "park" /\ wGate # gate => gateUnseen

\* A frame that expired outside the worker's hand is not taken for sending.
ExpiredIsNotTaken ==
  [][\A i \in Frames : i \in old /\ inflight # i => inflight' # i]_txVars

\* The two queues and the frame in flight implement one queue.
OneQueue == INSTANCE FrameQueue WITH
  queue <- Unanswered, delivered <- bus, answer <- outcome

ImplementsFrameQueue == OneQueue!FrameSpec

\* Every accepted frame is answered: sent, failed, expired, dropped or closed.
FramesAreAnswered == \A i \in Frames : outcome[i] = "queued" ~> outcome[i] # "queued"
=============================================================================
