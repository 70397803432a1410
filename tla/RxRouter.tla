------------------------------- MODULE RxRouter -------------------------------
(***************************************************************************)
(* Subscriptions.  A caller of Link::subscribe sends a command and waits   *)
(* for its answer; the router, inside the supervisor task, keeps one slot  *)
(* and one bounded queue per subscription and pushes the frames that pass  *)
(* its filter.  The subscriber takes them in recv(), and unsubscribes by   *)
(* dropping what it holds, whenever it does.                               *)
(*                                                                         *)
(* A frame is known by its number among those that passed the filter of    *)
(* the subscription.  Notify is modelled by what recv() can see of it: a   *)
(* permit left by notify_one, and whether notify_waiters came after        *)
(* notified() was made.  The order of the slots is left out.               *)
(***************************************************************************)
EXTENDS ReceiveTask

CONSTANTS
  Subscribers,       \* calls of Link::subscribe
  SubscribeConfigs,  \* the SubscribeConfig values they come with
  MaxSeconds         \* the clock stops here (bound of the model)

ASSUME RouterAssumption ==
  /\ MaxSeconds \in Nat \ {0} /\ SubscribeConfigs # {}
  /\ \A c \in SubscribeConfigs :
       /\ c = [filter |-> c.filter, capacity |-> c.capacity,
               overflow |-> c.overflow, echo |-> c.echo]
       /\ c.filter \subseteq Ids /\ c.capacity \in Nat
       /\ c.overflow \in {"DropNewest", "DropOldest", "Close"}
       /\ c.echo \in BOOLEAN

VARIABLES
  subscriber,  \* where each call is, then where its Subscription is
  config,      \* what it subscribed with, once it has
  routerRx,    \* the unbounded channel of RouterCommand
  slots,       \* Router::slots
  queue,       \* Queue::state of each subscription
  closed,      \* Queue::closed
  permit,      \* Queue::notify holds a permit
  woken,       \* notify_waiters was called since recv() made its notified()
  dropped,     \* Slot::dropped
  reported,    \* Slot::last_reported_second
  second,      \* seconds since the task began, counted from 1
  matched,     \* ghost: frames that passed the filter
  got          \* ghost: the frames recv() returned

subscriptionVars == <<queue, closed, permit, woken, dropped, reported, matched, got>>
routerVars == <<subscriber, config, routerRx, slots, second, subscriptionVars>>

Subscribe(s)   == [op |-> "Subscribe", sub |-> s]
Unsubscribe(s) == [op |-> "Unsubscribe", sub |-> s]
RouterCommands == {Subscribe(s) : s \in Subscribers} \cup {Unsubscribe(s) : s \in Subscribers}

\* Where a call waits for its answer; where the answer was delivered, and
\* waits to be taken; and where the caller has the Subscription: between two
\* calls of recv(), or at one of its four points.
Receiving == {"popping", "checking", "parking", "waiting"}
Holding   == {"held"} \cup Receiving
Stations  == {"idle", "asked", "cancelled", "answered", "gone"} \cup Holding

Queued(s) == \E i \in 1..Len(routerRx) : routerRx[i].sub = s

\* The lease is in the command, in the Subscription, or in the Unsubscribe.
Subscribed == {s \in Subscribers : subscriber[s] \in {"answered"} \cup Holding \/ Queued(s)}

RouterTypeOK ==
  /\ subscriber \in [Subscribers -> Stations]
  /\ config \in [Subscribers -> SubscribeConfigs]
  /\ routerRx \in Seq(RouterCommands)
  /\ slots \subseteq Subscribers
  /\ queue \in [Subscribers -> Seq(Nat \ {0})]
  /\ \A s \in Subscribers : Len(queue[s]) <= config[s].capacity
  /\ closed \in [Subscribers -> BOOLEAN]
  /\ permit \in [Subscribers -> BOOLEAN]
  /\ woken \in [Subscribers -> BOOLEAN]
  /\ dropped \in [Subscribers -> Nat]
  /\ reported \in [Subscribers -> 0..MaxSeconds]
  /\ second \in 1..MaxSeconds
  /\ matched \in [Subscribers -> Nat]
  /\ got \in [Subscribers -> Seq(Nat \ {0})]

RouterInit ==
  /\ subscriber = [s \in Subscribers |-> "idle"]
  /\ config = [s \in Subscribers |-> CHOOSE c \in SubscribeConfigs : TRUE]
  /\ routerRx = <<>>
  /\ slots = {}
  /\ queue = [s \in Subscribers |-> <<>>]
  /\ closed = [s \in Subscribers |-> FALSE]
  /\ permit = [s \in Subscribers |-> FALSE]
  /\ woken = [s \in Subscribers |-> FALSE]
  /\ dropped = [s \in Subscribers |-> 0]
  /\ reported = [s \in Subscribers |-> 0]
  /\ second = 1
  /\ matched = [s \in Subscribers |-> 0]
  /\ got = [s \in Subscribers |-> <<>>]

-----------------------------------------------------------------------------
(* The caller. *)

Goto(s, station) == subscriber' = [subscriber EXCEPT ![s] = station]

\* mutant of SendUnsubscribe: an answer that nobody took is not a Subscription yet.
SendIfTaken(s) ==
  routerRx' = IF Reachable /\ subscriber[s] # "answered"
              THEN Append(routerRx, Unsubscribe(s)) ELSE routerRx

\* The drop of a Subscription, wherever it is: its lease goes with the command.
SendUnsubscribe(s) ==
  routerRx' = IF Reachable THEN Append(routerRx, Unsubscribe(s)) ELSE routerRx

\* Link::subscribe up to its await.  The state is read first, so that the
\* command may be sent to a task that has announced its end meanwhile.
AskToSubscribe(s) ==
  /\ subscriber[s] = "idle"
  /\ Admits(Subscribed) /\ Reachable
  /\ \E c \in SubscribeConfigs :
       c.capacity # 0 /\ config' = [config EXCEPT ![s] = c]
  /\ Goto(s, "asked")
  /\ routerRx' = Append(routerRx, Subscribe(s))
  /\ UNCHANGED <<slots, second, subscriptionVars>>

\* The same, with one of its errors.
FailToSubscribe(s) ==
  /\ subscriber[s] = "idle"
  /\ \/ task # "running"
     \/ \E c \in SubscribeConfigs : c.capacity = 0
     \/ ~Admits(Subscribed)
  /\ Goto(s, "gone")
  /\ UNCHANGED <<config, routerRx, slots, second, subscriptionVars>>

\* The future is dropped, before there is an answer or with it undelivered.
CancelSubscribe(s) ==
  /\ \/ /\ subscriber[s] = "asked"
        /\ Goto(s, "cancelled")
        /\ UNCHANGED routerRx
     \/ /\ subscriber[s] = "answered"
        /\ Goto(s, "gone")
        /\ SendUnsubscribe(s)
  /\ UNCHANGED <<config, slots, second, subscriptionVars>>

TakeSubscription(s) ==
  /\ subscriber[s] = "answered"
  /\ Goto(s, "held")
  /\ UNCHANGED <<config, routerRx, slots, second, subscriptionVars>>

\* Also while it is in recv(): the future goes first.
DropSubscription(s) ==
  /\ subscriber[s] \in Holding
  /\ Goto(s, "gone")
  /\ SendUnsubscribe(s)
  /\ UNCHANGED <<config, slots, second, subscriptionVars>>

-----------------------------------------------------------------------------
(* Queue::recv and Queue::try_recv. try_recv is a recv that does not wait. *)

\* let notified = self.notify.notified(): the top of the loop.
BeginRecv(s) ==
  /\ subscriber[s] = "held"
  /\ Goto(s, "popping")
  /\ woken' = [woken EXCEPT ![s] = FALSE]
  /\ UNCHANGED <<config, routerRx, slots, second, queue, closed, permit, dropped,
                 reported, matched, got>>

PopFrame(s) ==
  /\ subscriber[s] = "popping"
  /\ \/ /\ queue[s] # <<>>
        /\ queue' = [queue EXCEPT ![s] = Tail(@)]
        /\ got' = [got EXCEPT ![s] = Append(@, Head(queue[s]))]
        /\ Goto(s, "held")
     \/ queue[s] = <<>> /\ Goto(s, "checking") /\ UNCHANGED <<queue, got>>
  /\ UNCHANGED <<config, routerRx, slots, second, closed, permit, woken, dropped,
                 reported, matched>>

\* None to the caller, who keeps the Subscription, or on to the await.
CheckClosed(s) ==
  /\ subscriber[s] = "checking"
  /\ Goto(s, IF closed[s] THEN "held" ELSE "parking")
  /\ UNCHANGED <<config, routerRx, slots, second, subscriptionVars>>

\* mutant of ParkRecv: notified() is made where it is awaited.
ParkAnew(s) ==
  /\ subscriber[s] = "parking"
  /\ Goto(s, "waiting")
  /\ woken' = [woken EXCEPT ![s] = FALSE]
  /\ UNCHANGED <<config, routerRx, slots, second, queue, closed, permit, dropped,
                 reported, matched, got>>

\* The first poll of notified.await.
ParkRecv(s) ==
  /\ subscriber[s] = "parking"
  /\ Goto(s, "waiting")
  /\ UNCHANGED <<config, routerRx, slots, second, subscriptionVars>>

\* notified.await returns and the loop begins again.
WakeRecv(s) ==
  /\ subscriber[s] = "waiting" /\ (woken[s] \/ permit[s])
  /\ Goto(s, "popping")
  /\ permit' = [permit EXCEPT ![s] = @ /\ woken[s]]
  /\ woken' = [woken EXCEPT ![s] = FALSE]
  /\ UNCHANGED <<config, routerRx, slots, second, queue, closed, dropped, reported,
                 matched, got>>

\* The future of recv() is dropped by a select, or try_recv finds it empty.
CancelRecv(s) ==
  /\ subscriber[s] = "waiting"
  /\ Goto(s, "held")
  /\ UNCHANGED <<config, routerRx, slots, second, subscriptionVars>>

-----------------------------------------------------------------------------
(* The router. *)

\* Queue::close of a set of subscriptions.
CloseQueues(subs) ==
  /\ closed' = [s \in Subscribers |-> closed[s] \/ s \in subs]
  /\ woken' = [s \in Subscribers |-> woken[s] \/ s \in subs]

\* Router::handle of a Subscribe.  The caller may have gone away, before the
\* command is looked at or between that and the answer.
HandleSubscribe(s) ==
  /\ Selecting /\ routerRx # <<>> /\ Head(routerRx) = Subscribe(s)
  /\ \/ /\ subscriber[s] = "cancelled"
        /\ routerRx' = Tail(routerRx)
        /\ UNCHANGED <<subscriber, slots, closed, woken>>
     \/ /\ subscriber[s] = "asked"
        /\ slots' = slots \cup {s}
        /\ Goto(s, "answered")
        /\ routerRx' = Tail(routerRx)
        /\ UNCHANGED <<closed, woken>>
     \/ /\ subscriber[s] = "asked"
        /\ CloseQueues({s})
        /\ Goto(s, "gone")
        /\ routerRx' = Append(Tail(routerRx), Unsubscribe(s))
        /\ UNCHANGED slots
  /\ UNCHANGED <<config, second, queue, permit, dropped, reported, matched, got>>

HandleUnsubscribe(s) ==
  /\ Selecting /\ routerRx # <<>> /\ Head(routerRx) = Unsubscribe(s)
  /\ routerRx' = Tail(routerRx)
  /\ slots' = slots \ {s}
  /\ CloseQueues(slots \cap {s})
  /\ UNCHANGED <<subscriber, config, second, queue, permit, dropped, reported, matched, got>>

Passes(s, frame) == (frame.echo => config[s].echo) /\ frame.id \in config[s].filter

\* mutant of HasRoom: one too many.
HasRoomAtLimit(s) == Len(queue[s]) <= config[s].capacity

HasRoom(s) == Len(queue[s]) < config[s].capacity

\* mutant of Exchange: the newest frame gives way.
ExchangeNewest(q, number) == [q EXCEPT ![Len(q)] = number]

\* DropOldest on a full queue.
Exchange(q, number) == Append(Tail(q), number)

\* mutant of Elapsed: without saturating_add(1).
ElapsedFromZero == second - 1

\* The seconds since the task began, as RxDispatch::frame counts them.
Elapsed == second

\* Router::dispatch.
Route(frame) ==
  LET wanted == {s \in slots : ~closed[s] /\ Passes(s, frame)}
      pushed == {s \in wanted : HasRoom(s)}
      full   == wanted \ pushed
      shut   == {s \in full : config[s].overflow = "Close"}
      swapped == {s \in full : config[s].overflow = "DropOldest"}
      late   == {s \in full \ shut : Elapsed > reported[s]}
  IN /\ slots' = {s \in slots : ~closed[s]} \ shut
     /\ matched' = [s \in Subscribers |-> matched[s] + (IF s \in wanted THEN 1 ELSE 0)]
     /\ queue' = [s \in Subscribers |->
                    IF s \in pushed THEN Append(queue[s], matched'[s])
                    ELSE IF s \in swapped THEN Exchange(queue[s], matched'[s])
                    ELSE queue[s]]
     /\ permit' = [s \in Subscribers |-> permit[s] \/ s \in pushed \cup swapped]
     /\ dropped' = [s \in Subscribers |-> dropped[s] + (IF s \in full \ shut THEN 1 ELSE 0)]
     /\ reported' = [s \in Subscribers |-> IF s \in late THEN Elapsed ELSE reported[s]]
     /\ CloseQueues(shut)
     /\ UNCHANGED <<subscriber, config, routerRx, second, got>>

\* Router::close_all, from RxDispatch::close or from the router's Drop.
CloseRouter ==
  /\ slots' = {}
  /\ CloseQueues(slots)

RouterClosed ==
  /\ CloseRouter
  /\ UNCHANGED <<subscriber, config, routerRx, second, queue, permit, dropped, reported,
                 matched, got>>

\* mutant of RouterEnded: the commands outlive the task.
EndedWithCommands ==
  /\ CloseRouter
  /\ UNCHANGED <<subscriber, routerRx, config, second, queue, permit, dropped, reported,
                 matched, got>>

\* The receiver is dropped: commands not handled are dropped with their reply.
RouterEnded ==
  /\ CloseRouter
  /\ routerRx' = <<>>
  /\ subscriber' = [s \in Subscribers |->
                      IF subscriber[s] = "asked" THEN "gone" ELSE subscriber[s]]
  /\ UNCHANGED <<config, second, queue, permit, dropped, reported, matched, got>>

NextSecond ==
  /\ second < MaxSeconds
  /\ second' = second + 1
  /\ UNCHANGED <<subscriber, config, routerRx, slots, subscriptionVars>>

SubscriberStep(s) ==
  \/ AskToSubscribe(s) \/ FailToSubscribe(s) \/ CancelSubscribe(s)
  \/ TakeSubscription(s) \/ DropSubscription(s)
  \/ BeginRecv(s) \/ PopFrame(s) \/ CheckClosed(s) \/ ParkRecv(s) \/ WakeRecv(s) \/ CancelRecv(s)

RouterStep(s) == HandleSubscribe(s) \/ HandleUnsubscribe(s)
=============================================================================
