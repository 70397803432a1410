-------------------------------- MODULE PcanRx --------------------------------
(***************************************************************************)
(* RxSource of pcan-basic: what brings the driver's messages to recv().    *)
(*   event    linux.rs: recv() itself reads, woken by the event fd that    *)
(*            AsyncFd registers with the reactor;                          *)
(*   poll     ThreadRx (mod.rs): a thread reads every millisecond, for     *)
(*            drivers without the fd;                                      *)
(*   windows  WinRxThread: a thread waits for the driver's event.          *)
(* The threads hand over in a bounded channel.  One recv() at a time runs, *)
(* as in the supervisor's select.                                          *)
(***************************************************************************)
EXTENDS PcanDriver

VARIABLES
  source,      \* the open whose RxSource this is, or 0
  registered,  \* event: the AsyncFd is registered
  ready,       \* event: AsyncFd's readiness
  notified,    \* event: shutdown has been sent
  thread,      \* the RX thread
  held,        \* the message it is handing over
  chan,        \* the channel between thread and recv()
  chanClosed,  \* its receiver was closed
  stop,        \* how far RxSource::stop is
  reader,      \* recv(): where it is, whether its watch predates the shutdown, and
               \* whether its guard saw the present tick of the readiness
  delivered,   \* numbers recv() returned since the source was created
  dropped      \* how many DropOnFull dropped

rxVars == <<source, registered, ready, notified, thread, held, chan, chanClosed,
            stop, reader, delivered, dropped>>

Threaded == setup.platform \in {"poll", "windows"}
\* The position the thread starts from and returns to.
Rest == IF setup.platform = "poll" THEN "look" ELSE "wait"
Room == IF setup.capacity < 1 THEN 1 ELSE setup.capacity

\* Positions of recv() inside one poll, where linux.rs holds the registration's lock.
Polling == {"read", "ready", "try", "clear"}

RxTypeOK ==
  /\ source \in Opens \cup {0}
  /\ registered \in BOOLEAN /\ ready \in BOOLEAN /\ notified \in BOOLEAN /\ chanClosed \in BOOLEAN
  /\ thread \in {"none", "look", "wait", "read", "push", "gone"}
  /\ held \in Seq(Messages) /\ Len(held) <= 1
  /\ chan \in Seq(Messages) /\ Len(chan) <= Room
  /\ stop \in {"no", "claimed", "unblocked", "released", "stopped"}
  /\ reader.pc \in {"idle", "checked", "poll", "parked", "waiting"} \cup Polling
  /\ (thread = "push") = (held # <<>>)

RxInit ==
  /\ source = 0 /\ registered = FALSE /\ ready = FALSE
  /\ notified = FALSE /\ thread = "none" /\ held = <<>> /\ chan = <<>>
  /\ chanClosed = FALSE /\ stop = "no"
  /\ reader = [pc |-> "idle", fresh |-> FALSE, seen |-> FALSE]
  /\ delivered = <<>> /\ dropped = 0

\* RxSource::new.  Registering an fd that is readable already raises an edge; that the
\* driver does as much for the Windows event is assumed.
CreateSource(o) ==
  /\ source' = o
  /\ registered' = ~Threaded
  /\ signal' = (setup.platform # "poll" /\ hw # <<>>)
  /\ ready' = FALSE
  /\ notified' = FALSE
  /\ thread' = IF Threaded THEN Rest ELSE "none"
  /\ held' = <<>> /\ chan' = <<>> /\ chanClosed' = FALSE /\ stop' = "no"
  /\ delivered' = <<>> /\ dropped' = 0
  /\ UNCHANGED <<setup, handle, hw, arrived, stray, reader>>

\* The receive event is someone's: the reactor's, or the Windows thread's.
Listens == registered \/ (setup.platform = "windows" /\ thread \notin {"none", "gone"})

BusDelivers(kind) == Arrive(kind, Listens) /\ UNCHANGED rxVars

-----------------------------------------------------------------------------
(* The receiving threads *)

\* while !stop
ThreadLooks ==
  /\ thread = "look"
  /\ thread' = IF stop = "no" THEN "read" ELSE "gone"
  /\ UNCHANGED <<driverVars, source, registered, ready, notified, held, chan, chanClosed,
                 stop, reader, delivered, dropped>>

\* WaitForMultipleObjects: the stop event comes first; the receive event resets itself.
ThreadWaits ==
  /\ thread = "wait"
  /\ \/ /\ stop = "unblocked"
        /\ thread' = "gone" /\ UNCHANGED <<signal, held>>
     \/ /\ stop # "unblocked" /\ signal
        /\ signal' = FALSE /\ thread' = "read" /\ UNCHANGED held
  /\ UNCHANGED <<setup, handle, hw, arrived, stray, source, registered, ready, notified,
                 chan, chanClosed, stop, reader, delivered, dropped>>

\* An empty queue sends the polling thread to sleep and the Windows one to its event.
ThreadReads ==
  /\ thread = "read"
  /\ ReadOne(source)
  /\ IF ReadOutcome = "Empty"
     THEN thread' = Rest /\ UNCHANGED held
     ELSE thread' = "push" /\ held' = <<Head(hw)>>
  /\ UNCHANGED <<setup, handle, signal, arrived, source, registered, ready, notified, chan,
                 chanClosed, stop, reader, delivered, dropped>>

\* mutant of Patient: only the errors are waited for.
PatientOnErrors == held[1].kind = "fail"
\* backpressure_send asks for the stop flag in every round; try_send alone does not.
Patient == setup.policy = "Backpressure" \/ held[1].kind = "fail"
\* mutant of HandsOver: blocking_send, which does not ask for the stop flag.
HandsOverBlocking == ~chanClosed
HandsOver == ~(Patient /\ stop # "no") /\ ~chanClosed
Again == IF held[1].kind = "fail" THEN "gone"
         ELSE IF setup.platform = "poll" THEN "look" ELSE "read"

\* mutant of ThreadGivesUp: the message is kept by a thread that has ended.
GivesUpHolding == thread' = "gone" /\ UNCHANGED <<chan, dropped, held>>
ThreadGivesUp == thread' = "gone" /\ held' = <<>> /\ UNCHANGED <<chan, dropped>>

ThreadPushes ==
  /\ thread = "push"
  /\ \/ ~HandsOver /\ ThreadGivesUp
     \/ /\ HandsOver /\ Len(chan) < Room
        /\ chan' = Append(chan, held[1]) /\ held' = <<>> /\ thread' = Again
        /\ UNCHANGED dropped
     \/ /\ HandsOver /\ Len(chan) = Room /\ ~Patient
        /\ dropped' = dropped + 1 /\ held' = <<>> /\ thread' = Again
        /\ UNCHANGED chan
  /\ UNCHANGED <<driverVars, source, registered, ready, notified, chanClosed, stop, reader,
                 delivered>>

ThreadStep == ThreadLooks \/ ThreadWaits \/ ThreadReads \/ ThreadPushes

-----------------------------------------------------------------------------
(* recv() *)

At(pc) == reader' = [reader EXCEPT !.pc = pc, !.seen = @ /\ pc = "clear"]
Return(message) == delivered' = Append(delivered, message.number) /\ At("idle")

\* The closed flags, read before anything else.
BeginRecv ==
  /\ reader.pc = "idle" /\ stop = "no"
  /\ At("checked")
  /\ UNCHANGED <<driverVars, source, registered, ready, notified, thread, held, chan,
                 chanClosed, stop, delivered, dropped>>

\* shutdown.subscribe(), or the channel's lock.
Settle ==
  /\ reader.pc = "checked"
  /\ reader' = [reader EXCEPT !.pc = IF Threaded THEN "waiting" ELSE "poll",
                              !.fresh = ~notified]
  /\ UNCHANGED <<driverVars, source, registered, ready, notified, thread, held, chan,
                 chanClosed, stop, delivered, dropped>>

\* Receiver::recv: what is queued, then the end once no sender is left.
TakeFromThread ==
  /\ reader.pc = "waiting"
  /\ \/ chan # <<>> /\ chan' = Tail(chan) /\ Return(Head(chan))
     \/ /\ chan = <<>> /\ (thread = "gone" \/ chanClosed)
        /\ At("idle") /\ UNCHANGED <<chan, delivered>>
  /\ UNCHANGED <<driverVars, source, registered, ready, notified, thread, held, chanClosed,
                 stop, dropped>>

\* The shutdown first; then poll_event, which needs the registration.
PollEvent ==
  /\ reader.pc = "poll"
  /\ At(IF (reader.fresh /\ notified) \/ ~registered THEN "idle" ELSE "read")
  /\ UNCHANGED <<driverVars, source, registered, ready, notified, thread, held, chan,
                 chanClosed, stop, delivered, dropped>>

\* read_one, before the readiness is asked for and again under try_io.
ReadInPoll ==
  /\ reader.pc \in {"read", "try"}
  /\ ReadOne(source)
  /\ IF ReadOutcome = "Empty"
     THEN At(IF reader.pc = "read" THEN "ready" ELSE "clear") /\ UNCHANGED delivered
     ELSE Return(Head(hw))
  /\ UNCHANGED <<setup, handle, signal, arrived, source, registered, ready, notified, thread,
                 held, chan, chanClosed, stop, dropped>>

PollReady ==
  /\ reader.pc = "ready"
  /\ reader' = [reader EXCEPT !.pc = IF ready THEN "try" ELSE "parked", !.seen = ready]
  /\ UNCHANGED <<driverVars, source, registered, ready, notified, thread, held, chan,
                 chanClosed, stop, delivered, dropped>>

\* mutant of ClearReady: cleared by hand once the queue was found empty, and then asleep.
ClearByHand ==
  /\ reader.pc = "clear"
  /\ ready' = FALSE
  /\ At("ready")
  /\ UNCHANGED <<driverVars, source, registered, notified, thread, held, chan, chanClosed,
                 stop, delivered, dropped>>

\* try_io clears the readiness its guard saw and no later one; then the loop reads again.
ClearReady ==
  /\ reader.pc = "clear"
  /\ ready' = (ready /\ ~reader.seen)
  /\ At("read")
  /\ UNCHANGED <<driverVars, source, registered, notified, thread, held, chan, chanClosed,
                 stop, delivered, dropped>>

ReaderStep == Settle \/ TakeFromThread \/ PollEvent \/ ReadInPoll \/ PollReady \/ ClearReady

\* select! drops recv() where it waits.
CancelRecv ==
  /\ reader.pc \in {"poll", "parked", "waiting"}
  /\ At("idle")
  /\ UNCHANGED <<driverVars, source, registered, ready, notified, thread, held, chan,
                 chanClosed, stop, delivered, dropped>>

Awake == IF reader.pc = "parked" THEN "poll" ELSE reader.pc
Woken == At(Awake)

\* The reactor sees the edge: readiness, a new tick, and the task that waits runs again.
Reactor ==
  /\ signal /\ registered
  /\ signal' = FALSE
  /\ ready' = TRUE
  /\ reader' = [reader EXCEPT !.pc = Awake, !.seen = FALSE]
  /\ UNCHANGED <<setup, handle, hw, arrived, stray, source, registered, notified, thread, held,
                 chan, chanClosed, stop, delivered, dropped>>

-----------------------------------------------------------------------------
(* RxSource::stop *)

\* closed.swap, and the stop flag of a thread.
ClaimStop ==
  /\ stop = "no"
  /\ stop' = "claimed"
  /\ UNCHANGED <<driverVars, source, registered, ready, notified, thread, held, chan,
                 chanClosed, reader, delivered, dropped>>

\* The channel is closed when nobody waits on it; Windows sets the stop event.
Unblock ==
  /\ Threaded /\ stop = "claimed"
  /\ chanClosed' = (reader.pc # "waiting")
  /\ stop' = "unblocked"
  /\ UNCHANGED <<driverVars, source, registered, ready, notified, thread, held, chan,
                 reader, delivered, dropped>>

JoinThread ==
  /\ Threaded /\ stop = "unblocked" /\ thread = "gone"
  /\ stop' = "stopped"
  /\ UNCHANGED <<driverVars, source, registered, ready, notified, thread, held, chan,
                 chanClosed, reader, delivered, dropped>>

\* The registration is taken under its lock, and dropped.
Release ==
  /\ ~Threaded /\ stop = "claimed" /\ reader.pc \notin Polling
  /\ registered' = FALSE
  /\ stop' = "released"
  /\ UNCHANGED <<driverVars, source, ready, notified, thread, held, chan, chanClosed,
                 reader, delivered, dropped>>

NotifyShutdown ==
  /\ ~Threaded /\ stop = "released"
  /\ notified' = TRUE
  /\ stop' = "stopped"
  /\ IF reader.fresh THEN Woken ELSE UNCHANGED reader
  /\ UNCHANGED <<driverVars, source, registered, ready, thread, held, chan, chanClosed,
                 delivered, dropped>>

StopStep == ClaimStop \/ Unblock \/ JoinThread \/ Release \/ NotifyShutdown

-----------------------------------------------------------------------------
(* What the properties speak of *)

Numbers(messages) == [i \in DOMAIN messages |-> messages[i].number]

\* Where the messages of this initialization are that nobody dropped, oldest first.
Pipeline == delivered \o Numbers(chan) \o Numbers(held) \o Numbers(hw)
=============================================================================
