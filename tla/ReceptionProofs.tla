--------------------------- MODULE ReceptionProofs ---------------------------
(***************************************************************************)
(* Proofs about the router of subscriptions and the table of transactions, *)
(* for every number of callers, subscription, specification and budget.    *)
(***************************************************************************)
EXTENDS Reception, SequenceTheorems, FunctionTheorems, FiniteSetTheorems, TLAPS

\* What the router goes through in a step of the supervisor or of its callers.
RouterMoves ==
  \/ \E s \in Subscribers : SubscriberStep(s) \/ RouterStep(s)
  \/ \E frame \in RxFrames : Route(frame)
  \/ NextSecond \/ RouterClosed \/ RouterEnded

\* Every other step leaves it alone.
LEMMA RouterIsMoved == [ReceptionNext]_receptionVars => RouterMoves \/ UNCHANGED routerVars
<1> SUFFICES ASSUME [ReceptionNext]_receptionVars PROVE RouterMoves \/ UNCHANGED routerVars
  OBVIOUS
<1>1. ASSUME NEW s \in Subscribers, SubscriberActs(s) \/ RouterActs(s) PROVE RouterMoves
  BY <1>1 DEF SubscriberActs, RouterActs, RouterMoves
<1>2. ASSUME NEW t \in Requests, RequestActs(t) \/ TableActs(t) PROVE UNCHANGED routerVars
  BY <1>2 DEF RequestActs, TableActs
<1>3. ASSUME NEW frame \in RxFrames, Dispatch(frame) PROVE RouterMoves
  BY <1>3 DEF Dispatch, RouterMoves
<1>4. CASE Disconnect \/ CloseAnnounced
  BY <1>4 DEF Disconnect, CloseAnnounced
<1>5. CASE Tick \/ Close \/ End
  BY <1>5 DEF Tick, Close, End, RouterMoves
<1>6. CASE UNCHANGED receptionVars
  BY <1>6 DEF receptionVars
<1> QED
  BY <1>1, <1>2, <1>3, <1>4, <1>5, <1>6 DEF ReceptionNext

-----------------------------------------------------------------------------
(* The variables of the router.                                            *)

\* RouterTypeOK without the capacity of the queues, which is never 0.
RouterShape ==
  /\ subscriber \in [Subscribers -> Stations]
  /\ config \in [Subscribers -> SubscribeConfigs]
  /\ routerRx \in Seq(RouterCommands)
  /\ slots \subseteq Subscribers
  /\ queue \in [Subscribers -> Seq(Nat \ {0})]
  /\ closed \in [Subscribers -> BOOLEAN]
  /\ permit \in [Subscribers -> BOOLEAN]
  /\ woken \in [Subscribers -> BOOLEAN]
  /\ dropped \in [Subscribers -> Nat]
  /\ reported \in [Subscribers -> 0..MaxSeconds]
  /\ second \in 1..MaxSeconds
  /\ matched \in [Subscribers -> Nat]
  /\ got \in [Subscribers -> Seq(Nat \ {0})]
  /\ \A s \in Subscribers : s \in slots \/ subscriber[s] = "asked" => config[s].capacity # 0

LEMMA CommandsAreTyped ==
  \A s \in Subscribers : Subscribe(s) \in RouterCommands /\ Unsubscribe(s) \in RouterCommands
BY DEF RouterCommands

LEMMA ShapeInit == ReceptionInit => RouterShape
<1> SUFFICES ASSUME ReceptionInit PROVE RouterShape
  OBVIOUS
<1>1. (CHOOSE c \in SubscribeConfigs : TRUE) \in SubscribeConfigs
  BY RouterAssumption
<1> QED
  BY <1>1, RouterAssumption DEF ReceptionInit, RouterInit, RouterShape, Stations

\* The calls of a subscriber keep every variable in its range.
LEMMA ShapeSubscriber ==
  ASSUME RouterShape, NEW s \in Subscribers, SubscriberStep(s)
  PROVE  RouterShape'
<1> USE CommandsAreTyped DEF RouterShape, Stations, Holding, Receiving, Goto, SendUnsubscribe,
        subscriptionVars
<1>1. CASE AskToSubscribe(s)
  BY <1>1 DEF AskToSubscribe
<1>2. CASE FailToSubscribe(s)
  BY <1>2 DEF FailToSubscribe
<1>3. CASE CancelSubscribe(s)
  <2>1. CASE subscriber[s] = "asked"
    BY <1>3, <2>1 DEF CancelSubscribe
  <2>2. CASE subscriber[s] = "answered"
    <3>1. Goto(s, "gone") /\ SendUnsubscribe(s)
          /\ UNCHANGED <<config, slots, second, subscriptionVars>>
      BY <1>3, <2>2 DEF CancelSubscribe
    <3> QED
      BY <3>1
  <2> QED
    BY <1>3, <2>1, <2>2 DEF CancelSubscribe
<1>4. CASE TakeSubscription(s)
  BY <1>4 DEF TakeSubscription
<1>5. CASE DropSubscription(s)
  BY <1>5 DEF DropSubscription
<1>6. CASE BeginRecv(s)
  BY <1>6 DEF BeginRecv
<1>7. CASE PopFrame(s)
  <2>1. CASE queue[s] # <<>>
    <3>1. /\ Head(queue[s]) \in Nat \ {0} /\ Tail(queue[s]) \in Seq(Nat \ {0})
          /\ Append(got[s], Head(queue[s])) \in Seq(Nat \ {0})
      BY <2>1
    <3>2. /\ queue' = [queue EXCEPT ![s] = Tail(@)]
          /\ got' = [got EXCEPT ![s] = Append(@, Head(queue[s]))]
          /\ Goto(s, "held")
          /\ UNCHANGED <<config, routerRx, slots, second, closed, permit, woken, dropped,
                         reported, matched>>
      BY <1>7, <2>1 DEF PopFrame
    <3> QED
      BY <3>1, <3>2
  <2>2. CASE queue[s] = <<>>
    BY <1>7, <2>2 DEF PopFrame
  <2> QED
    BY <2>1, <2>2
<1>8. CASE CheckClosed(s)
  BY <1>8 DEF CheckClosed
<1>9. CASE ParkRecv(s)
  BY <1>9 DEF ParkRecv
<1>10. CASE WakeRecv(s)
  BY <1>10 DEF WakeRecv
<1>11. CASE CancelRecv(s)
  BY <1>11 DEF CancelRecv
<1> QED
  BY <1>1, <1>2, <1>3, <1>4, <1>5, <1>6, <1>7, <1>8, <1>9, <1>10, <1>11 DEF SubscriberStep

\* So do the commands the router handles.
LEMMA ShapeRouter ==
  ASSUME RouterShape, NEW s \in Subscribers, RouterStep(s)
  PROVE  RouterShape'
<1> USE CommandsAreTyped DEF RouterShape, Stations, Goto, CloseQueues
<1>1. CASE HandleSubscribe(s)
  <2>1. routerRx # <<>> /\ Tail(routerRx) \in Seq(RouterCommands)
    BY <1>1 DEF HandleSubscribe
  <2>2. subscriber' \in [Subscribers -> Stations] /\ slots' \subseteq Subscribers
    BY <1>1 DEF HandleSubscribe
  <2>3. routerRx' \in Seq(RouterCommands)
    <3>1. routerRx' = Tail(routerRx) \/ routerRx' = Append(Tail(routerRx), Unsubscribe(s))
      BY <1>1 DEF HandleSubscribe
    <3>2. Append(Tail(routerRx), Unsubscribe(s)) \in Seq(RouterCommands)
      BY <2>1
    <3> QED
      BY <2>1, <3>1, <3>2
  <2>4. closed' \in [Subscribers -> BOOLEAN] /\ woken' \in [Subscribers -> BOOLEAN]
    BY <1>1 DEF HandleSubscribe
  <2> QED
    BY <1>1, <2>2, <2>3, <2>4 DEF HandleSubscribe
<1>2. CASE HandleUnsubscribe(s)
  BY <1>2 DEF HandleUnsubscribe
<1> QED
  BY <1>1, <1>2 DEF RouterStep

\* What a dispatched frame does to one subscription.
Skipped(s) ==
  /\ s \in slots' => s \in slots
  /\ queue'[s] = queue[s] /\ matched'[s] = matched[s] /\ dropped'[s] = dropped[s]
  /\ permit'[s] = permit[s] /\ reported'[s] = reported[s]
  /\ closed'[s] = closed[s] /\ woken'[s] = woken[s]

Wanted(s) ==
  /\ s \in slots /\ ~closed[s]
  /\ matched'[s] = matched[s] + 1

Pushed(s) ==
  /\ Wanted(s) /\ HasRoom(s)
  /\ queue'[s] = Append(queue[s], matched'[s]) /\ permit'[s]
  /\ dropped'[s] = dropped[s] /\ reported'[s] = reported[s]
  /\ closed'[s] = closed[s] /\ woken'[s] = woken[s]

Overflowed(s) ==
  /\ Wanted(s) /\ ~HasRoom(s)
  /\ config[s].overflow # "Close"
  /\ dropped'[s] = dropped[s] + 1
  /\ reported'[s] = IF second > reported[s] THEN second ELSE reported[s]
  /\ closed'[s] = closed[s] /\ woken'[s] = woken[s]
  /\ \/ /\ config[s].overflow = "DropOldest"
        /\ queue'[s] = Append(Tail(queue[s]), matched'[s]) /\ permit'[s]
     \/ /\ config[s].overflow # "DropOldest"
        /\ queue'[s] = queue[s] /\ permit'[s] = permit[s]

Shut(s) ==
  /\ Wanted(s) /\ s \notin slots' /\ config[s].overflow = "Close"
  /\ queue'[s] = queue[s] /\ dropped'[s] = dropped[s]
  /\ permit'[s] = permit[s] /\ reported'[s] = reported[s]
  /\ closed'[s] /\ woken'[s]

\* Router::dispatch, one subscription at a time.
LEMMA RouteEffects ==
  ASSUME RouterShape, NEW frame, Route(frame)
  PROVE  /\ \A s \in Subscribers : Skipped(s) \/ Pushed(s) \/ Overflowed(s) \/ Shut(s)
         /\ slots' \subseteq slots
         /\ matched' = [s \in Subscribers |-> matched'[s]]
         /\ queue' = [s \in Subscribers |-> queue'[s]]
         /\ permit' = [s \in Subscribers |-> permit'[s]]
         /\ dropped' = [s \in Subscribers |-> dropped'[s]]
         /\ reported' = [s \in Subscribers |-> reported'[s]]
         /\ closed' = [s \in Subscribers |-> closed'[s]]
         /\ woken' = [s \in Subscribers |-> woken'[s]]
         /\ UNCHANGED <<subscriber, config, routerRx, second, got>>
<1> DEFINE wanted == {s \in slots : ~closed[s] /\ Passes(s, frame)}
           pushed == {s \in wanted : HasRoom(s)}
           full   == wanted \ pushed
           shut   == {s \in full : config[s].overflow = "Close"}
           swapped == {s \in full : config[s].overflow = "DropOldest"}
           late   == {s \in full \ shut : Elapsed > reported[s]}
<1>1. /\ slots' = {s \in slots : ~closed[s]} \ shut
      /\ matched' = [s \in Subscribers |-> matched[s] + (IF s \in wanted THEN 1 ELSE 0)]
      /\ queue' = [s \in Subscribers |->
                     IF s \in pushed THEN Append(queue[s], matched'[s])
                     ELSE IF s \in swapped THEN Exchange(queue[s], matched'[s])
                     ELSE queue[s]]
      /\ permit' = [s \in Subscribers |-> permit[s] \/ s \in pushed \cup swapped]
      /\ dropped' = [s \in Subscribers |-> dropped[s] + (IF s \in full \ shut THEN 1 ELSE 0)]
      /\ reported' = [s \in Subscribers |-> IF s \in late THEN Elapsed ELSE reported[s]]
      /\ closed' = [s \in Subscribers |-> closed[s] \/ s \in shut]
      /\ woken' = [s \in Subscribers |-> woken[s] \/ s \in shut]
      /\ UNCHANGED <<subscriber, config, routerRx, second, got>>
  BY Zenon DEF Route, CloseQueues
<1>2. ASSUME NEW s \in Subscribers
      PROVE  Skipped(s) \/ Pushed(s) \/ Overflowed(s) \/ Shut(s)
  <2> USE DEF RouterShape
  <2>1. CASE s \notin wanted
    BY <1>1, <2>1 DEF Skipped
  <2>2. CASE s \in pushed
    <3>1. s \in wanted /\ HasRoom(s) /\ s \notin full
      BY <2>2
    <3>2. /\ matched'[s] = matched[s] + 1
          /\ queue'[s] = Append(queue[s], matched'[s])
          /\ dropped'[s] = dropped[s] /\ reported'[s] = reported[s]
      BY <1>1, <2>2, <3>1
    <3>3. permit'[s] /\ closed'[s] = closed[s] /\ woken'[s] = woken[s]
      BY <1>1, <2>2, <3>1
    <3> QED
      BY <3>1, <3>2, <3>3 DEF Pushed, Wanted
  <2>3. CASE s \in shut
    <3>1. s \in full /\ s \notin pushed /\ s \notin swapped /\ s \notin full \ shut /\ s \notin late
      BY <2>3
    <3>2. /\ matched'[s] = matched[s] + 1
          /\ queue'[s] = queue[s] /\ dropped'[s] = dropped[s] /\ reported'[s] = reported[s]
      BY <1>1, <3>1
    <3>3. permit'[s] = permit[s] /\ closed'[s] /\ woken'[s] /\ s \notin slots'
      BY <1>1, <2>3, <3>1
    <3> QED
      BY <3>1, <3>2, <3>3 DEF Shut, Wanted
  <2>4. CASE s \in full \ shut
    <3>1. s \in swapped <=> config[s].overflow = "DropOldest"
      BY <2>4
    <3> QED
      BY <1>1, <2>4, <3>1 DEF Overflowed, Wanted, Exchange, Elapsed
  <2> QED
    BY <2>1, <2>2, <2>3, <2>4
<1> QED
  BY <1>1, <1>2

\* A dispatch keeps every variable in its range.
LEMMA ShapeRoute ==
  ASSUME RouterShape, NEW frame, Route(frame)
  PROVE  RouterShape'
<1> USE DEF RouterShape
<1>1. ASSUME NEW s \in Subscribers
      PROVE  /\ queue'[s] \in Seq(Nat \ {0}) /\ matched'[s] \in Nat /\ dropped'[s] \in Nat
             /\ reported'[s] \in 0..MaxSeconds
  <2>1. CASE Skipped(s)
    BY <2>1 DEF Skipped
  <2>2. CASE Pushed(s)
    BY <2>2 DEF Pushed, Wanted
  <2>3. CASE Overflowed(s)
    <3>1. matched'[s] \in Nat \ {0}
      BY <2>3 DEF Overflowed, Wanted
    <3>2. queue'[s] \in Seq(Nat \ {0})
      <4>1. queue[s] # <<>>
        <5>1. config[s].capacity \in Nat /\ config[s].capacity # 0
          BY <2>3, RouterAssumption DEF Overflowed, Wanted
        <5> QED
          BY <2>3, <5>1 DEF Overflowed, HasRoom
      <4>2. queue'[s] = queue[s] \/ queue'[s] = Append(Tail(queue[s]), matched'[s])
        BY <2>3 DEF Overflowed
      <4>3. Append(Tail(queue[s]), matched'[s]) \in Seq(Nat \ {0})
        BY <3>1, <4>1
      <4> QED
        BY <4>2, <4>3
    <3> QED
      BY <2>3, <3>1, <3>2 DEF Overflowed
  <2>4. CASE Shut(s)
    BY <2>4 DEF Shut, Wanted
  <2> QED
    BY <2>1, <2>2, <2>3, <2>4, RouteEffects
<1>2. ASSUME NEW s \in Subscribers
      PROVE  closed'[s] \in BOOLEAN /\ permit'[s] \in BOOLEAN /\ woken'[s] \in BOOLEAN
  BY Zenon DEF Route, CloseQueues
<1> QED
  BY <1>1, <1>2, RouteEffects

\* The range of every variable of the router, in every state.
LEMMA ShapeStep == RouterShape /\ [ReceptionNext]_receptionVars => RouterShape'
<1> SUFFICES ASSUME RouterShape, [ReceptionNext]_receptionVars PROVE RouterShape'
  OBVIOUS
<1>1. CASE NextSecond
  BY <1>1, RouterAssumption DEF NextSecond, RouterShape, subscriptionVars
<1>2. CASE RouterClosed
  BY <1>2 DEF RouterClosed, CloseRouter, CloseQueues, RouterShape
<1>3. CASE RouterEnded
  BY <1>3 DEF RouterEnded, CloseRouter, CloseQueues, RouterShape, Stations
<1>4. CASE UNCHANGED routerVars
  BY <1>4 DEF RouterShape, routerVars, subscriptionVars
<1> QED
  BY <1>1, <1>2, <1>3, <1>4, RouterIsMoved, ShapeSubscriber, ShapeRouter, ShapeRoute DEF RouterMoves

LEMMA ShapeInvariance == ReceptionSpec => []RouterShape
BY ShapeInit, ShapeStep, PTL DEF ReceptionSpec

-----------------------------------------------------------------------------
(* recv() never sleeps through a push or a close.                          *)

\* After it has found the queue empty, a frame leaves a permit or a wake-up; after it
\* has found the subscription open, a close leaves a wake-up.
PushLeavesWake(s) ==
  /\ subscriber[s] \in {"checking", "parking", "waiting"} /\ queue[s] # <<>>
       => permit[s] \/ woken[s]
  /\ subscriber[s] \in {"parking", "waiting"} /\ closed[s] => woken[s]

WakeInv == \A s \in Subscribers : PushLeavesWake(s)

\* What a subscriber does moves only its own queue, and a recv() that goes on to sleep
\* has just looked.
LEMMA WakeSubscriber ==
  ASSUME RouterShape, WakeInv, NEW s \in Subscribers, SubscriberStep(s)
  PROVE  WakeInv'
<1> USE DEF RouterShape, WakeInv, PushLeavesWake, Goto, subscriptionVars
<1>1. CASE AskToSubscribe(s) \/ FailToSubscribe(s) \/ TakeSubscription(s)
  BY <1>1 DEF AskToSubscribe, FailToSubscribe, TakeSubscription
<1>2. CASE CancelSubscribe(s)
  BY <1>2 DEF CancelSubscribe
<1>3. CASE DropSubscription(s)
  BY <1>3 DEF DropSubscription
<1>4. CASE BeginRecv(s)
  BY <1>4 DEF BeginRecv
<1>5. CASE PopFrame(s)
  BY <1>5 DEF PopFrame
<1>6. CASE CheckClosed(s)
  BY <1>6 DEF CheckClosed
<1>7. CASE ParkRecv(s)
  BY <1>7 DEF ParkRecv
<1>8. CASE WakeRecv(s)
  BY <1>8 DEF WakeRecv
<1>9. CASE CancelRecv(s)
  BY <1>9 DEF CancelRecv
<1> QED
  BY <1>1, <1>2, <1>3, <1>4, <1>5, <1>6, <1>7, <1>8, <1>9 DEF SubscriberStep

\* Whoever closes a queue wakes its receiver.
LEMMA WakeCloseQueues ==
  ASSUME RouterShape, WakeInv, NEW subs, CloseQueues(subs),
         UNCHANGED <<queue, permit>>,
         \A s \in Subscribers : subscriber'[s] = subscriber[s] \/ subscriber'[s] \in {"gone", "answered"}
  PROVE  WakeInv'
BY DEF RouterShape, WakeInv, PushLeavesWake, CloseQueues

LEMMA WakeRouter ==
  ASSUME RouterShape, WakeInv, NEW s \in Subscribers, RouterStep(s)
  PROVE  WakeInv'
<1>1. CASE HandleSubscribe(s)
  <2>1. \A u \in Subscribers : subscriber'[u] = subscriber[u] \/ subscriber'[u] \in {"gone", "answered"}
    BY <1>1 DEF HandleSubscribe, Goto, RouterShape
  <2>2. (UNCHANGED <<closed, woken>>) \/ CloseQueues({s})
    BY <1>1 DEF HandleSubscribe
  <2>3. UNCHANGED <<queue, permit>>
    BY <1>1 DEF HandleSubscribe
  <2>4. CASE UNCHANGED <<closed, woken>>
    BY <2>1, <2>3, <2>4 DEF RouterShape, WakeInv, PushLeavesWake
  <2> QED
    BY <2>1, <2>2, <2>3, <2>4, WakeCloseQueues
<1>2. CASE HandleUnsubscribe(s)
  BY <1>2, WakeCloseQueues DEF HandleUnsubscribe
<1> QED
  BY <1>1, <1>2 DEF RouterStep

\* A push notifies one, and a queue that overflows under Close wakes all.
LEMMA WakeRoute ==
  ASSUME RouterShape, WakeInv, NEW frame, Route(frame)
  PROVE  WakeInv'
<1>1. ASSUME NEW s \in Subscribers PROVE PushLeavesWake(s)'
  <2> USE <1>1, RouteEffects DEF WakeInv, PushLeavesWake
  <2>1. CASE Skipped(s)
    BY <2>1 DEF Skipped
  <2>2. CASE Pushed(s)
    BY <2>2 DEF Pushed
  <2>3. CASE Overflowed(s)
    BY <2>3 DEF Overflowed
  <2>4. CASE Shut(s)
    BY <2>4 DEF Shut
  <2> QED
    BY <2>1, <2>2, <2>3, <2>4
<1> QED
  BY <1>1 DEF WakeInv

\* router.rs 124-135: recv() never sleeps on a frame or on the end of its subscription,
\* wherever the push or the close falls between its looks.
THEOREM SleeperAlwaysWoken == ReceptionSpec => []SleeperIsWoken
<1>1. ReceptionInit => WakeInv
  BY DEF ReceptionInit, RouterInit, WakeInv, PushLeavesWake
<1>2. RouterShape /\ WakeInv /\ [ReceptionNext]_receptionVars => WakeInv'
  <2> SUFFICES ASSUME RouterShape, WakeInv, [ReceptionNext]_receptionVars PROVE WakeInv'
    OBVIOUS
  <2>1. CASE NextSecond
    BY <2>1 DEF NextSecond, WakeInv, PushLeavesWake, subscriptionVars
  <2>2. CASE RouterClosed
    BY <2>2, WakeCloseQueues DEF RouterClosed, CloseRouter
  <2>3. CASE RouterEnded
    BY <2>3, WakeCloseQueues DEF RouterEnded, CloseRouter
  <2>4. CASE UNCHANGED routerVars
    BY <2>4 DEF WakeInv, PushLeavesWake, routerVars, subscriptionVars
  <2> QED
    BY <2>1, <2>2, <2>3, <2>4, RouterIsMoved, WakeSubscriber, WakeRouter, WakeRoute DEF RouterMoves
<1>3. WakeInv => SleeperIsWoken
  BY DEF WakeInv, PushLeavesWake, SleeperIsWoken
<1> QED
  BY <1>1, <1>2, <1>3, ShapeInvariance, PTL DEF ReceptionSpec

-----------------------------------------------------------------------------
(* The commands on their way.                                              *)

Coming(command, channel) == \E i \in 1..Len(channel) : channel[i] = command

LEMMA AppendKeeps ==
  ASSUME NEW S, NEW channel \in Seq(S), NEW command \in S, NEW other
  PROVE  /\ Append(channel, command) \in Seq(S)
         /\ Coming(command, Append(channel, command))
         /\ Coming(other, channel) => Coming(other, Append(channel, command))
<1>1. /\ Append(channel, command) \in Seq(S)
      /\ Len(Append(channel, command)) = Len(channel) + 1
      /\ Append(channel, command)[Len(channel) + 1] = command
      /\ \A i \in 1..Len(channel) : Append(channel, command)[i] = channel[i]
  OBVIOUS
<1>2. Len(channel) \in Nat
  OBVIOUS
<1> QED
  BY <1>1, <1>2 DEF Coming

LEMMA TailKeeps ==
  ASSUME NEW S, NEW channel \in Seq(S), channel # <<>>, NEW other
  PROVE  /\ Tail(channel) \in Seq(S)
         /\ Coming(other, channel) /\ Head(channel) # other => Coming(other, Tail(channel))
<1>1. /\ Tail(channel) \in Seq(S)
      /\ Len(Tail(channel)) = Len(channel) - 1
      /\ \A i \in 1..Len(Tail(channel)) : Tail(channel)[i] = channel[i + 1]
      /\ Head(channel) = channel[1]
  OBVIOUS
<1>2. ASSUME Coming(other, channel), Head(channel) # other
      PROVE  Coming(other, Tail(channel))
  <2>1. PICK i \in 1..Len(channel) : channel[i] = other
    BY <1>2 DEF Coming
  <2>2. i - 1 \in 1..Len(Tail(channel)) /\ Tail(channel)[i - 1] = other
    BY <1>1, <1>2, <2>1
  <2> QED
    BY <2>2 DEF Coming
<1> QED
  BY <1>1, <1>2

\* The two commands of one subscription, and the commands of two, are never mistaken.
LEMMA CommandsDiffer ==
  \A s, u \in Subscribers :
    /\ Subscribe(s) # Unsubscribe(u)
    /\ s # u => Unsubscribe(s) # Unsubscribe(u)
BY DEF Subscribe, Unsubscribe

LEMMA TransactionCommandsDiffer ==
  \A t, u \in Requests :
    /\ Register(t) # Deregister(u)
    /\ t # u => Deregister(t) # Deregister(u)
    /\ Register(t) \in TransactionCommands /\ Deregister(t) \in TransactionCommands
BY DEF Register, Deregister, TransactionCommands

-----------------------------------------------------------------------------
(* A slot is never forgotten by its owner.                                 *)

SubscriptionEscorted(s) ==
  s \in slots =>
    subscriber[s] \in {"answered"} \cup Holding \/ Coming(Unsubscribe(s), routerRx)

\* With the task both end: its commands are dropped, and so are the slots.
RouterEscort ==
  /\ task = "ended" => slots = {}
  /\ \A s \in Subscribers : SubscriptionEscorted(s)

\* A caller that lets go sends its command, unless the task has ended.
LEMMA EscortSubscriber ==
  ASSUME RouterShape, RouterEscort, NEW s \in Subscribers, SubscriberStep(s), UNCHANGED task
  PROVE  RouterEscort'
<1> USE CommandsAreTyped
<1>1. UNCHANGED slots
  BY DEF SubscriberStep, AskToSubscribe, FailToSubscribe, CancelSubscribe, TakeSubscription,
         DropSubscription, BeginRecv, PopFrame, CheckClosed, ParkRecv, WakeRecv, CancelRecv
<1>2. \A u \in Subscribers \ {s} : subscriber'[u] = subscriber[u]
  BY DEF SubscriberStep, AskToSubscribe, FailToSubscribe, CancelSubscribe, TakeSubscription,
         DropSubscription, BeginRecv, PopFrame, CheckClosed, ParkRecv, WakeRecv, CancelRecv,
         Goto, RouterShape
<1>3. \/ UNCHANGED routerRx
      \/ routerRx' = Append(routerRx, Subscribe(s)) \/ routerRx' = Append(routerRx, Unsubscribe(s))
  BY DEF SubscriberStep, AskToSubscribe, FailToSubscribe, CancelSubscribe, TakeSubscription,
         DropSubscription, BeginRecv, PopFrame, CheckClosed, ParkRecv, WakeRecv, CancelRecv,
         SendUnsubscribe
<1>4. \A u \in Subscribers : Coming(Unsubscribe(u), routerRx) => Coming(Unsubscribe(u), routerRx')
  BY <1>3, AppendKeeps DEF RouterShape
<1>5. subscriber[s] \in {"answered"} \cup Holding =>
        \/ subscriber'[s] \in {"answered"} \cup Holding
        \/ task = "ended" \/ Coming(Unsubscribe(s), routerRx')
  <2>1. CASE (CancelSubscribe(s) /\ subscriber[s] # "asked") \/ DropSubscription(s)
    <3>1. SendUnsubscribe(s)
      BY <2>1 DEF CancelSubscribe, DropSubscription
    <3> QED
      BY <3>1, AppendKeeps DEF SendUnsubscribe, Reachable, RouterShape
  <2>2. CASE CancelSubscribe(s) /\ subscriber[s] = "asked"
    BY <2>2 DEF Holding, Receiving
  <2>3. CASE \/ AskToSubscribe(s) \/ FailToSubscribe(s) \/ TakeSubscription(s)
             \/ BeginRecv(s) \/ PopFrame(s) \/ CheckClosed(s) \/ ParkRecv(s) \/ WakeRecv(s)
             \/ CancelRecv(s)
    BY <2>3 DEF AskToSubscribe, FailToSubscribe, TakeSubscription, BeginRecv, PopFrame,
                CheckClosed, ParkRecv, WakeRecv, CancelRecv, Goto, RouterShape, Holding, Receiving
  <2> QED
    BY <2>1, <2>2, <2>3 DEF SubscriberStep
<1> QED
  BY <1>1, <1>2, <1>4, <1>5 DEF RouterEscort, SubscriptionEscorted

\* The router gives a slot to a caller that has the answer, and takes it back when the
\* command comes.
LEMMA EscortRouter ==
  ASSUME RouterShape, RouterEscort, NEW s \in Subscribers, RouterStep(s), UNCHANGED task
  PROVE  RouterEscort'
<1> USE CommandsAreTyped
<1>1. /\ task # "ended" /\ routerRx # <<>>
      /\ Head(routerRx) \in {Subscribe(s), Unsubscribe(s)}
      /\ routerRx' \in {Tail(routerRx), Append(Tail(routerRx), Unsubscribe(s))}
  BY DEF RouterStep, HandleSubscribe, HandleUnsubscribe, Selecting
<1>2. Tail(routerRx) \in Seq(RouterCommands)
  BY <1>1, TailKeeps DEF RouterShape
<1>3. ASSUME NEW u \in Subscribers, Coming(Unsubscribe(u), routerRx), Head(routerRx) # Unsubscribe(u)
      PROVE  Coming(Unsubscribe(u), routerRx')
  <2>1. Coming(Unsubscribe(u), Tail(routerRx))
    BY <1>1, <1>3, TailKeeps DEF RouterShape
  <2> QED
    BY <1>1, <1>2, <2>1, AppendKeeps
<1>4. ASSUME NEW u \in Subscribers PROVE SubscriptionEscorted(u)'
  <2>1. CASE HandleUnsubscribe(s)
    <3>1. slots' = slots \ {s} /\ UNCHANGED subscriber /\ Head(routerRx) = Unsubscribe(s)
      BY <2>1 DEF HandleUnsubscribe
    <3> QED
      BY <1>3, <3>1, CommandsDiffer DEF RouterEscort, SubscriptionEscorted
  <2>2. CASE HandleSubscribe(s)
    <3>1. Coming(Unsubscribe(u), routerRx) => Coming(Unsubscribe(u), routerRx')
      BY <1>3, <2>2, CommandsDiffer DEF HandleSubscribe
    <3>2. CASE u # s
      <4>1. subscriber'[u] = subscriber[u] /\ (u \in slots' => u \in slots)
        BY <2>2, <3>2 DEF HandleSubscribe, Goto, RouterShape
      <4> QED
        BY <3>1, <4>1 DEF RouterEscort, SubscriptionEscorted
    <3>3. CASE u = s /\ subscriber'[s] = "answered"
      BY <3>3 DEF SubscriptionEscorted
    <3>4. CASE u = s /\ subscriber'[s] # "answered"
      <4>1. UNCHANGED slots /\ subscriber[s] \notin {"answered"} \cup Holding
        BY <2>2, <3>4 DEF HandleSubscribe, Goto, RouterShape, Holding, Receiving
      <4> QED
        BY <3>1, <3>4, <4>1 DEF RouterEscort, SubscriptionEscorted
    <3> QED
      BY <3>2, <3>3, <3>4
  <2> QED
    BY <2>1, <2>2 DEF RouterStep
<1> QED
  BY <1>1, <1>4 DEF RouterEscort

LEMMA RouterEscortStep ==
  RouterShape /\ RouterEscort /\ [ReceptionNext]_receptionVars => RouterEscort'
<1> SUFFICES ASSUME RouterShape, RouterEscort, [ReceptionNext]_receptionVars PROVE RouterEscort'
  OBVIOUS
<1> USE DEF RouterEscort, SubscriptionEscorted
<1>1. ASSUME NEW s \in Subscribers, SubscriberActs(s) \/ RouterActs(s) PROVE RouterEscort'
  BY <1>1, EscortSubscriber, EscortRouter DEF SubscriberActs, RouterActs
<1>2. ASSUME NEW t \in Requests, RequestActs(t) \/ TableActs(t) PROVE RouterEscort'
  BY <1>2 DEF RequestActs, TableActs, routerVars
<1>3. ASSUME NEW frame \in RxFrames, Dispatch(frame) PROVE RouterEscort'
  <2>1. slots' \subseteq slots /\ UNCHANGED <<task, subscriber, routerRx>>
    BY <1>3, RouteEffects DEF Dispatch
  <2> QED
    BY <2>1
<1>4. CASE Disconnect \/ Tick
  BY <1>4 DEF Disconnect, Tick, NextSecond, routerVars
<1>5. CASE CloseAnnounced
  BY <1>5 DEF CloseAnnounced, Announce, routerVars
<1>6. CASE Close \/ End
  BY <1>6 DEF Close, End, RouterClosed, RouterEnded, CloseRouter
<1>7. CASE UNCHANGED receptionVars
  BY <1>7 DEF receptionVars, routerVars
<1> QED
  BY <1>1, <1>2, <1>3, <1>4, <1>5, <1>6, <1>7 DEF ReceptionNext

-----------------------------------------------------------------------------
(* The same of the transactions.                                           *)

TableShape ==
  /\ request \in [Requests -> {"idle", "asked", "cancelled", "answered", "gone"} \cup Pending]
  /\ transactionRx \in Seq(TransactionCommands)
  /\ table \subseteq Requests

TransactionEscorted(t) == t \in table => Awaited(t) \/ Coming(Deregister(t), transactionRx)

TableEscort ==
  /\ task = "ended" => table = {}
  /\ \A t \in Requests : TransactionEscorted(t)

\* A call moves only itself; whoever returns sends its command, unless the task has ended.
LEMMA RequestEffects ==
  ASSUME TableShape, NEW t \in Requests, RequestStep(t)
  PROVE  /\ UNCHANGED table
         /\ \A u \in Requests \ {t} : request'[u] = request[u]
         /\ \/ UNCHANGED transactionRx
            \/ transactionRx' = Append(transactionRx, Register(t))
            \/ transactionRx' = Append(transactionRx, Deregister(t))
         /\ Awaited(t) => Awaited(t)' \/ ~Reachable
                          \/ transactionRx' = Append(transactionRx, Deregister(t))
         /\ request' \in [Requests -> {"idle", "asked", "cancelled", "answered", "gone"} \cup Pending]
<1> USE DEF TableShape, Pending, Awaited, MoveTo
<1>1. ASSUME NEW result, Finish(t, result)
      PROVE  /\ request' = [request EXCEPT ![t] = "gone"]
             /\ \/ ~Reachable /\ UNCHANGED transactionRx
                \/ transactionRx' = Append(transactionRx, Deregister(t))
  BY <1>1 DEF Finish, SendDeregister
<1>2. CASE AskToPrepare(t)
  BY <1>2 DEF AskToPrepare
<1>3. CASE FailToPrepare(t)
  BY <1>3 DEF FailToPrepare
<1>4. CASE CancelPrepare(t)
  <2>1. CASE request[t] = "asked"
    BY <1>4, <2>1 DEF CancelPrepare
  <2>2. CASE request[t] = "answered"
    BY <1>1, <1>4, <2>2 DEF CancelPrepare
  <2> QED
    BY <1>4, <2>1, <2>2 DEF CancelPrepare
<1>5. CASE TakePending(t) \/ BeginAttempt(t)
  BY <1>5 DEF TakePending, BeginAttempt
<1>6. CASE FailToSend(t) \/ DropPending(t) \/ ChannelEnds(t)
  BY <1>1, <1>6 DEF FailToSend, DropPending, ChannelEnds
<1>7. CASE ReceiveSignal(t)
  <2>1. UNCHANGED table
    BY <1>7 DEF ReceiveSignal
  <2>2. (UNCHANGED <<request, transactionRx>>) \/ \E result : Finish(t, result)
    BY <1>7 DEF ReceiveSignal, CollectFrame
  <2> QED
    BY <1>1, <2>1, <2>2
<1>8. CASE DeadlinePasses(t)
  <2>1. CASE DeadlineReturns(t)
    <3>1. \E result : Finish(t, result)
      BY <2>1 DEF DeadlineReturns
    <3> QED
      BY <1>1, <1>8, <3>1 DEF DeadlinePasses
  <2>2. CASE ClearAndRetry(t)
    BY <1>8, <2>2 DEF ClearAndRetry, DeadlinePasses
  <2> QED
    BY <1>8, <2>1, <2>2 DEF DeadlinePasses
<1> QED
  BY <1>2, <1>3, <1>4, <1>5, <1>6, <1>7, <1>8 DEF RequestStep

\* The table answers a command, or takes a slot back.
LEMMA TableEffects ==
  ASSUME TableShape, NEW t \in Requests, TableStep(t)
  PROVE  /\ task # "ended" /\ transactionRx # <<>>
         /\ \A u \in Requests \ {t} : request'[u] = request[u] /\ (u \in table' => u \in table)
         /\ request' \in [Requests -> {"idle", "asked", "cancelled", "answered", "gone"} \cup Pending]
         /\ table' \subseteq Requests
         /\ \/ /\ Head(transactionRx) = Register(t)
               /\ transactionRx' \in {Tail(transactionRx), Append(Tail(transactionRx), Deregister(t))}
               /\ \/ request'[t] = "answered"
                  \/ ~Awaited(t) /\ UNCHANGED table
            \/ /\ Head(transactionRx) = Deregister(t)
               /\ transactionRx' = Tail(transactionRx)
               /\ table' = table \ {t} /\ UNCHANGED request
<1> USE DEF TableShape, Pending, Awaited, MoveTo, Selecting
<1>1. CASE HandleRegister(t)
  <2>1. /\ task # "ended" /\ transactionRx # <<>> /\ Head(transactionRx) = Register(t)
        /\ transactionRx' \in {Tail(transactionRx), Append(Tail(transactionRx), Deregister(t))}
    BY <1>1 DEF HandleRegister
  <2>2. CASE request[t] = "cancelled"
    BY <1>1, <2>1, <2>2 DEF HandleRegister
  <2>3. CASE request[t] = "asked"
    BY <1>1, <2>1, <2>3 DEF HandleRegister
  <2> QED
    BY <1>1, <2>2, <2>3 DEF HandleRegister
<1>2. CASE HandleDeregister(t)
  BY <1>2 DEF HandleDeregister
<1> QED
  BY <1>1, <1>2 DEF TableStep

LEMMA TableShapeStep == TableShape /\ [ReceptionNext]_receptionVars => TableShape'
<1> SUFFICES ASSUME TableShape, [ReceptionNext]_receptionVars PROVE TableShape'
  OBVIOUS
<1> USE TransactionCommandsDiffer
<1>1. ASSUME NEW s \in Subscribers, SubscriberActs(s) \/ RouterActs(s) PROVE TableShape'
  BY <1>1 DEF SubscriberActs, RouterActs, transactionVars, TableShape
<1>2. ASSUME NEW t \in Requests, RequestActs(t) PROVE TableShape'
  BY <1>2, RequestEffects, AppendKeeps DEF RequestActs, TableShape
<1>3. ASSUME NEW t \in Requests, TableActs(t) PROVE TableShape'
  <2>1. Tail(transactionRx) \in Seq(TransactionCommands)
    BY <1>3, TableEffects, TailKeeps DEF TableActs, TableShape
  <2> QED
    BY <1>3, <2>1, TableEffects, AppendKeeps DEF TableActs, TableShape
<1>4. ASSUME NEW frame \in RxFrames, Dispatch(frame) PROVE TableShape'
  BY <1>4 DEF Dispatch, Respond, TableShape
<1>5. CASE Disconnect \/ Close
  BY <1>5 DEF Disconnect, Close, TableDisconnected, DisconnectAll, TableShape
<1>6. CASE Tick \/ CloseAnnounced
  BY <1>6 DEF Tick, CloseAnnounced, transactionVars, TableShape
<1>7. CASE End
  BY <1>7 DEF End, TableEnded, TableShape
<1>8. CASE UNCHANGED receptionVars
  BY <1>8 DEF receptionVars, transactionVars, TableShape
<1> QED
  BY <1>1, <1>2, <1>3, <1>4, <1>5, <1>6, <1>7, <1>8 DEF ReceptionNext

LEMMA TableShapeInvariance == ReceptionSpec => []TableShape
<1>1. ReceptionInit => TableShape
  BY DEF ReceptionInit, TransactionInit, TableShape
<1> QED
  BY <1>1, TableShapeStep, PTL DEF ReceptionSpec

LEMMA TableEscortStep ==
  TableShape /\ TableEscort /\ [ReceptionNext]_receptionVars => TableEscort'
<1> SUFFICES ASSUME TableShape, TableEscort, [ReceptionNext]_receptionVars PROVE TableEscort'
  OBVIOUS
<1> USE TransactionCommandsDiffer DEF TableEscort, TransactionEscorted
<1>1. ASSUME NEW s \in Subscribers, SubscriberActs(s) \/ RouterActs(s) PROVE TableEscort'
  BY <1>1 DEF SubscriberActs, RouterActs, transactionVars, Awaited
<1>2. ASSUME NEW t \in Requests, RequestActs(t) PROVE TableEscort'
  <2>1. RequestStep(t) /\ UNCHANGED task
    BY <1>2 DEF RequestActs
  <2>2. \A u \in Requests : Coming(Deregister(u), transactionRx) => Coming(Deregister(u), transactionRx')
    <3>1. \/ UNCHANGED transactionRx
          \/ \E c \in TransactionCommands : transactionRx' = Append(transactionRx, c)
      BY <2>1, RequestEffects
    <3> QED
      BY <3>1, AppendKeeps DEF TableShape
  <2>3. Awaited(t) => Awaited(t)' \/ task = "ended" \/ Coming(Deregister(t), transactionRx')
    BY <2>1, RequestEffects, AppendKeeps DEF TableShape, Reachable
  <2> QED
    BY <2>1, <2>2, <2>3, RequestEffects DEF Awaited
<1>3. ASSUME NEW t \in Requests, TableActs(t) PROVE TableEscort'
  <2>1. TableStep(t) /\ UNCHANGED task
    BY <1>3 DEF TableActs
  <2>2. Tail(transactionRx) \in Seq(TransactionCommands)
    BY <2>1, TableEffects, TailKeeps DEF TableShape
  <2>3. ASSUME NEW u \in Requests, Coming(Deregister(u), transactionRx),
               Head(transactionRx) # Deregister(u)
        PROVE  Coming(Deregister(u), transactionRx')
    <3>1. Coming(Deregister(u), Tail(transactionRx))
      BY <2>1, <2>3, TableEffects, TailKeeps DEF TableShape
    <3>2. \/ transactionRx' = Tail(transactionRx)
          \/ \E c \in TransactionCommands : transactionRx' = Append(Tail(transactionRx), c)
      BY <2>1, TableEffects
    <3> QED
      BY <2>2, <3>1, <3>2, AppendKeeps
  <2>4. ASSUME NEW u \in Requests PROVE TransactionEscorted(u)'
    <3>1. CASE u # t
      BY <2>1, <2>3, <3>1, TableEffects DEF Awaited
    <3>2. CASE u = t
      BY <2>1, <2>3, <3>2, TableEffects DEF Awaited
    <3> QED
      BY <3>1, <3>2
  <2> QED
    BY <2>1, <2>4, TableEffects
<1>4. ASSUME NEW frame \in RxFrames, Dispatch(frame) PROVE TableEscort'
  <2>1. table' \subseteq table /\ UNCHANGED <<task, request, transactionRx>>
    BY <1>4 DEF Dispatch, Respond
  <2> QED
    BY <2>1 DEF Awaited
<1>5. CASE Disconnect \/ Close
  BY <1>5 DEF Disconnect, Close, TableDisconnected, DisconnectAll
<1>6. CASE Tick
  BY <1>6 DEF Tick, transactionVars, Awaited
<1>7. CASE CloseAnnounced
  BY <1>7 DEF CloseAnnounced, Announce, transactionVars, Awaited
<1>8. CASE End
  BY <1>8 DEF End, TableEnded
<1>9. CASE UNCHANGED receptionVars
  BY <1>9 DEF receptionVars, transactionVars, Awaited
<1> QED
  BY <1>1, <1>2, <1>3, <1>4, <1>5, <1>6, <1>7, <1>8, <1>9 DEF ReceptionNext

\* router.rs 268-283, transaction.rs 471-491: whoever has a slot in the router or in the
\* table sees it, or has sent the command that takes it out, wherever the call was
\* cancelled; for any number of callers and any budget.
THEOREM SlotAlwaysEscorted == ReceptionSpec => []SlotIsEscorted
<1>1. ReceptionInit => RouterEscort /\ TableEscort
  BY DEF ReceptionInit, RouterInit, TransactionInit, TaskInit, RouterEscort, TableEscort,
         SubscriptionEscorted, TransactionEscorted
<1>2. RouterShape /\ TableShape /\ RouterEscort /\ TableEscort => SlotIsEscorted
  BY DEF RouterShape, TableShape, RouterEscort, TableEscort, SubscriptionEscorted,
         TransactionEscorted, Coming, SlotIsEscorted
<1> QED
  BY <1>1, <1>2, ShapeInvariance, TableShapeInvariance, RouterEscortStep, TableEscortStep, PTL
  DEF ReceptionSpec

-----------------------------------------------------------------------------
(* The order of the frames of a subscription.                              *)

Rising(q)    == \A i, j \in 1..Len(q) : i < j => q[i] < q[j]
Below(q, m)  == \A i \in 1..Len(q) : q[i] <= m
Before(g, q) == \A i \in 1..Len(g), j \in 1..Len(q) : g[i] < q[j]
Newest(q, m) == \A i \in 1..Len(q) : q[i] = m - Len(q) + i

\* Of m frames that passed the filter, what was received, then what is queued, then
\* what is to come.
InOrder(policy, m, q, g) ==
  /\ Rising(g) /\ Rising(q) /\ Before(g, q) /\ Below(g, m) /\ Below(q, m)
  /\ policy = "DropOldest" => Newest(q, m)

\* An element more at the end.
LEMMA RisingAppend ==
  ASSUME NEW q \in Seq(Nat), NEW n \in Nat, Rising(q), \A i \in 1..Len(q) : q[i] < n
  PROVE  Rising(Append(q, n))
<1>1. /\ Len(q) \in Nat /\ Len(Append(q, n)) = Len(q) + 1
      /\ \A i \in 1..Len(q) : Append(q, n)[i] = q[i]
      /\ Append(q, n)[Len(q) + 1] = n
  OBVIOUS
<1> SUFFICES ASSUME NEW i \in 1..Len(Append(q, n)), NEW j \in 1..Len(Append(q, n)), i < j
             PROVE  Append(q, n)[i] < Append(q, n)[j]
  BY DEF Rising
<1>2. i \in 1..Len(q) /\ Append(q, n)[i] = q[i]
  BY <1>1
<1>3. CASE j = Len(q) + 1
  BY <1>1, <1>2, <1>3
<1>4. CASE j # Len(q) + 1
  <2>1. j \in 1..Len(q) /\ Append(q, n)[j] = q[j]
    BY <1>1, <1>4
  <2> QED
    BY <1>2, <2>1 DEF Rising
<1> QED
  BY <1>3, <1>4

LEMMA BelowAppend ==
  ASSUME NEW q \in Seq(Nat), NEW n \in Nat, NEW m \in Nat, n <= m, Below(q, m)
  PROVE  Below(Append(q, n), m)
<1>1. /\ Len(q) \in Nat /\ Len(Append(q, n)) = Len(q) + 1
      /\ \A i \in 1..Len(q) : Append(q, n)[i] = q[i]
      /\ Append(q, n)[Len(q) + 1] = n
  OBVIOUS
<1> SUFFICES ASSUME NEW i \in 1..Len(Append(q, n)) PROVE Append(q, n)[i] <= m
  BY DEF Below
<1>2. CASE i = Len(q) + 1
  BY <1>1, <1>2
<1>3. CASE i # Len(q) + 1
  <2>1. i \in 1..Len(q) /\ Append(q, n)[i] = q[i]
    BY <1>1, <1>3
  <2> QED
    BY <2>1 DEF Below
<1> QED
  BY <1>2, <1>3

\* Nothing more remains below a higher bound.
LEMMA BelowMore ==
  ASSUME NEW q \in Seq(Nat), NEW m \in Nat, Below(q, m)
  PROVE  Below(q, m + 1) /\ \A i \in 1..Len(q) : q[i] < m + 1
<1>1. \A i \in 1..Len(q) : q[i] \in Nat /\ q[i] <= m
  BY DEF Below
<1> QED
  BY <1>1 DEF Below

\* The first element away.
LEMMA TailOf ==
  ASSUME NEW q \in Seq(Nat), q # <<>>
  PROVE  /\ Tail(q) \in Seq(Nat) /\ Len(q) \in Nat \ {0} /\ Len(Tail(q)) = Len(q) - 1
         /\ Head(q) = q[1] /\ q[1] \in Nat
         /\ \A i \in 1..Len(Tail(q)) :
              i + 1 \in 1..Len(q) /\ Tail(q)[i] = q[i + 1] /\ q[i + 1] \in Nat
OBVIOUS

LEMMA TailInOrder ==
  ASSUME NEW policy, NEW m \in Nat, NEW q \in Seq(Nat), NEW g \in Seq(Nat),
         InOrder(policy, m, q, g), q # <<>>
  PROVE  InOrder(policy, m, Tail(q), g)
<1>1. Rising(Tail(q))
  <2> SUFFICES ASSUME NEW i \in 1..Len(Tail(q)), NEW j \in 1..Len(Tail(q)), i < j
               PROVE  Tail(q)[i] < Tail(q)[j]
    BY DEF Rising
  <2>1. i + 1 \in 1..Len(q) /\ j + 1 \in 1..Len(q) /\ i + 1 < j + 1
    BY TailOf
  <2>2. q[i + 1] < q[j + 1]
    BY <2>1 DEF InOrder, Rising
  <2> QED
    BY <2>2, TailOf
<1>2. Before(g, Tail(q))
  BY TailOf DEF InOrder, Before
<1>3. Below(Tail(q), m)
  BY TailOf DEF InOrder, Below
<1>4. policy = "DropOldest" => Newest(Tail(q), m)
  <2> SUFFICES ASSUME policy = "DropOldest", NEW i \in 1..Len(Tail(q))
               PROVE  Tail(q)[i] = m - Len(Tail(q)) + i
    BY DEF Newest
  <2>1. i + 1 \in 1..Len(q) /\ Tail(q)[i] = q[i + 1]
    BY TailOf
  <2>2. q[i + 1] = m - Len(q) + (i + 1)
    BY <2>1 DEF InOrder, Newest
  <2> QED
    BY <2>1, <2>2, TailOf
<1> QED
  BY <1>1, <1>2, <1>3, <1>4 DEF InOrder

\* recv() takes the first of the queue.
LEMMA OrderPop ==
  ASSUME NEW policy, NEW m \in Nat, NEW q \in Seq(Nat), NEW g \in Seq(Nat),
         InOrder(policy, m, q, g), q # <<>>
  PROVE  InOrder(policy, m, Tail(q), Append(g, Head(q)))
<1>1. InOrder(policy, m, Tail(q), g)
  BY TailInOrder
<1>2. 1 \in 1..Len(q) /\ Head(q) = q[1] /\ q[1] \in Nat
  OBVIOUS
<1>3. q[1] <= m
  BY <1>2 DEF InOrder, Below
<1>4. Rising(Append(g, q[1]))
  <2>1. \A i \in 1..Len(g) : g[i] < q[1]
    BY <1>2 DEF InOrder, Before
  <2> QED
    BY <1>2, <2>1, RisingAppend DEF InOrder
<1>5. Below(Append(g, q[1]), m)
  BY <1>2, <1>3, BelowAppend DEF InOrder
<1>6. Before(Append(g, q[1]), Tail(q))
  <2> SUFFICES ASSUME NEW i \in 1..Len(Append(g, q[1])), NEW j \in 1..Len(Tail(q))
               PROVE  Append(g, q[1])[i] < Tail(q)[j]
    BY DEF Before
  <2>1. /\ Len(g) \in Nat /\ Len(Append(g, q[1])) = Len(g) + 1
        /\ \A k \in 1..Len(g) : Append(g, q[1])[k] = g[k]
        /\ Append(g, q[1])[Len(g) + 1] = q[1]
    BY <1>2
  <2>2. CASE i = Len(g) + 1
    <3>1. j + 1 \in 1..Len(q) /\ 1 < j + 1 /\ Tail(q)[j] = q[j + 1]
      BY TailOf
    <3>2. q[1] < q[j + 1]
      BY <1>2, <3>1 DEF InOrder, Rising
    <3> QED
      BY <2>1, <2>2, <3>1, <3>2
  <2>3. CASE i # Len(g) + 1
    <3>1. i \in 1..Len(g) /\ Append(g, q[1])[i] = g[i]
      BY <2>1, <2>3
    <3> QED
      BY <1>1, <3>1 DEF InOrder, Before
  <2> QED
    BY <2>2, <2>3
<1> QED
  BY <1>1, <1>2, <1>4, <1>5, <1>6 DEF InOrder

\* The next frame is pushed.
LEMMA OrderPush ==
  ASSUME NEW policy, NEW m \in Nat, NEW q \in Seq(Nat), NEW g \in Seq(Nat),
         InOrder(policy, m, q, g)
  PROVE  InOrder(policy, m + 1, Append(q, m + 1), g)
<1> DEFINE all == Append(q, m + 1)
<1>1. /\ Len(g) \in Nat /\ Len(q) \in Nat
      /\ Len(all) = Len(q) + 1 /\ \A i \in 1..Len(q) : all[i] = q[i]
      /\ all[Len(q) + 1] = m + 1
  OBVIOUS
<1>2. Below(g, m + 1) /\ (\A i \in 1..Len(g) : g[i] < m + 1)
      /\ Below(q, m + 1) /\ (\A i \in 1..Len(q) : q[i] < m + 1)
  BY BelowMore DEF InOrder
<1>3. Rising(all)
  <2>1. Rising(q) /\ m + 1 \in Nat
    BY DEF InOrder
  <2> QED
    BY <1>2, <2>1, RisingAppend
<1>4. Below(all, m + 1)
  BY <1>2, BelowAppend
<1> HIDE DEF all
<1>5. Before(g, all)
  <2> SUFFICES ASSUME NEW i \in 1..Len(g), NEW j \in 1..Len(all) PROVE g[i] < all[j]
    BY DEF Before
  <2>1. CASE j = Len(q) + 1
    BY <1>1, <1>2, <2>1
  <2>2. CASE j # Len(q) + 1
    <3>1. j \in 1..Len(q) /\ all[j] = q[j]
      BY <1>1, <2>2
    <3> QED
      BY <3>1 DEF InOrder, Before
  <2> QED
    BY <2>1, <2>2
<1>6. policy = "DropOldest" => Newest(all, m + 1)
  <2> SUFFICES ASSUME policy = "DropOldest", NEW i \in 1..Len(all)
               PROVE  all[i] = (m + 1) - Len(all) + i
    BY DEF Newest
  <2>1. CASE i = Len(q) + 1
    BY <1>1, <2>1
  <2>2. CASE i # Len(q) + 1
    <3>1. i \in 1..Len(q) /\ all[i] = q[i]
      BY <1>1, <2>2
    <3>2. q[i] = m - Len(q) + i
      BY <3>1 DEF InOrder, Newest
    <3> QED
      BY <1>1, <3>1, <3>2
  <2> QED
    BY <2>1, <2>2
<1> QED
  BY <1>2, <1>3, <1>4, <1>5, <1>6 DEF InOrder, all

\* A full queue gives up its oldest frame for it.
LEMMA OrderExchange ==
  ASSUME NEW policy, NEW m \in Nat, NEW q \in Seq(Nat), NEW g \in Seq(Nat),
         InOrder(policy, m, q, g), q # <<>>
  PROVE  InOrder(policy, m + 1, Append(Tail(q), m + 1), g)
BY TailInOrder, TailOf, OrderPush

\* It is dropped.
LEMMA OrderDrop ==
  ASSUME NEW policy, NEW m \in Nat, NEW q \in Seq(Nat), NEW g \in Seq(Nat),
         InOrder(policy, m, q, g), policy # "DropOldest"
  PROVE  InOrder(policy, m + 1, q, g)
BY BelowMore DEF InOrder

-----------------------------------------------------------------------------
(* The frames of a subscription: their number and their order.             *)

Unborn(s) == subscriber[s] \in {"idle", "asked", "cancelled"}

\* A subscription that is not yet in the router has seen nothing.
Fresh(s) ==
  Unborn(s) => /\ s \notin slots /\ matched[s] = 0 /\ dropped[s] = 0
               /\ queue[s] = <<>> /\ got[s] = <<>>

\* One that is in it has each frame in one place, and its first drop reported.
Counted(s) ==
  /\ s \in slots => matched[s] = Len(got[s]) + Len(queue[s]) + dropped[s]
  /\ reported[s] <= second
  /\ dropped[s] > 0 => reported[s] >= 1

Ordered(s) == InOrder(config[s].overflow, matched[s], queue[s], got[s])

Delivered(s) == Fresh(s) /\ Counted(s) /\ Ordered(s)

DeliveryInv == \A s \in Subscribers : Delivered(s)

LEMMA NumbersAreNat ==
  ASSUME RouterShape, NEW s \in Subscribers
  PROVE  /\ queue[s] \in Seq(Nat) /\ got[s] \in Seq(Nat)
         /\ Len(queue[s]) \in Nat /\ Len(got[s]) \in Nat
         /\ matched[s] \in Nat /\ dropped[s] \in Nat /\ reported[s] \in Nat /\ second \in Nat \ {0}
<1>1. Seq(Nat \ {0}) \subseteq Seq(Nat)
  OBVIOUS
<1> QED
  BY <1>1, RouterAssumption DEF RouterShape

\* Steps that leave the frames of a subscription where they are.
LEMMA DeliveryKept ==
  ASSUME RouterShape, DeliveryInv, NEW s \in Subscribers,
         matched'[s] = matched[s], dropped'[s] = dropped[s], reported'[s] = reported[s],
         queue'[s] = queue[s], got'[s] = got[s], second' \in Nat, second <= second',
         config'[s] = config[s] \/ Unborn(s),
         s \in slots' => s \in slots \/ Unborn(s),
         Unborn(s)' => Unborn(s) /\ s \notin slots'
  PROVE  Delivered(s)'
<1>1. Fresh(s) /\ Counted(s) /\ Ordered(s)
  BY DEF DeliveryInv, Delivered
<1>2. Fresh(s)'
  BY <1>1 DEF Fresh
<1>3. Counted(s)'
  <2>1. Unborn(s) => matched[s] = 0 /\ dropped[s] = 0 /\ Len(queue[s]) = 0 /\ Len(got[s]) = 0
    BY <1>1 DEF Fresh
  <2>2. Unborn(s) => matched[s] = Len(got[s]) + Len(queue[s]) + dropped[s]
    <3>1. 0 = 0 + 0 + 0
      OBVIOUS
    <3> QED
      BY <2>1, <3>1, Zenon
  <2>3. s \in slots' => matched[s] = Len(got[s]) + Len(queue[s]) + dropped[s]
    BY <1>1, <2>2 DEF Counted
  <2>4. reported[s] \in Nat /\ second \in Nat /\ reported[s] <= second
        /\ (dropped[s] > 0 => reported[s] >= 1)
    BY <1>1, NumbersAreNat DEF Counted
  <2>5. reported'[s] <= second' /\ (dropped'[s] > 0 => reported'[s] >= 1)
    BY <2>4
  <2> QED
    BY <2>3, <2>5 DEF Counted
<1>4. Ordered(s)'
  <2>1. CASE config'[s] = config[s]
    BY <1>1, <2>1 DEF Ordered
  <2>2. CASE Unborn(s)
    <3>1. queue'[s] = <<>> /\ got'[s] = <<>>
      BY <1>1, <2>2 DEF Fresh
    <3> QED
      BY <3>1 DEF Ordered, InOrder, Rising, Below, Before, Newest
  <2> QED
    BY <2>1, <2>2
<1> QED
  BY <1>2, <1>3, <1>4 DEF Delivered

\* A frame goes from the front of the queue to the end of what was received.
LEMMA DeliveryPop ==
  ASSUME RouterShape, DeliveryInv, NEW s \in Subscribers, PopFrame(s), queue[s] # <<>>
  PROVE  Delivered(s)'
<1>1. /\ got'[s] = Append(got[s], Head(queue[s])) /\ queue'[s] = Tail(queue[s])
      /\ UNCHANGED <<matched, dropped, reported, second, config, slots>>
  BY DEF RouterShape, PopFrame
<1>2. ~Unborn(s)'
  BY DEF RouterShape, PopFrame, Goto, Unborn
<1>3. Counted(s) /\ Ordered(s)
  BY DEF DeliveryInv, Delivered
<1>4. /\ Len(queue'[s]) = Len(queue[s]) - 1 /\ Len(got'[s]) = Len(got[s]) + 1
      /\ Len(queue[s]) \in Nat /\ Len(got[s]) \in Nat
  BY <1>1, NumbersAreNat, TailOf
<1>5. Counted(s)'
  <2> DEFINE lg == Len(got[s])  lq == Len(queue[s])
  <2>1. lg \in Nat /\ lq \in Nat /\ dropped[s] \in Nat
        /\ (s \in slots => matched[s] = lg + lq + dropped[s])
    BY <1>3, NumbersAreNat DEF Counted
  <2>2. Len(queue'[s]) = lq - 1 /\ Len(got'[s]) = lg + 1
    BY <1>4
  <2> HIDE DEF lg, lq
  <2>3. lg + lq + dropped[s] = (lg + 1) + (lq - 1) + dropped[s]
    BY <2>1
  <2> QED
    BY <1>1, <1>3, <2>1, <2>2, <2>3 DEF Counted
<1>6. Ordered(s)'
  BY <1>1, <1>3, NumbersAreNat, OrderPop DEF Ordered
<1> QED
  BY <1>2, <1>5, <1>6 DEF Fresh, Delivered

\* A frame that is pushed is the newest; the one it takes the place of the oldest.
LEMMA DeliveryRoute ==
  ASSUME RouterShape, DeliveryInv, NEW frame, Route(frame), NEW s \in Subscribers
  PROVE  Delivered(s)'
<1>1. UNCHANGED <<subscriber, config, second, got>> /\ slots' \subseteq slots
  BY RouteEffects
<1>2. Fresh(s) /\ Counted(s) /\ Ordered(s)
  BY DEF DeliveryInv, Delivered
<1> DEFINE lg == Len(got[s])  lq == Len(queue[s])
<1>3. /\ lg \in Nat /\ lq \in Nat /\ matched[s] \in Nat /\ dropped[s] \in Nat
      /\ reported[s] \in Nat /\ second \in Nat \ {0}
  BY NumbersAreNat
<1>4. Wanted(s) => /\ matched[s] = lg + lq + dropped[s]
                   /\ reported[s] <= second /\ (dropped[s] > 0 => reported[s] >= 1)
  BY <1>2 DEF Wanted, Counted
<1> HIDE DEF lg, lq
<1>5. CASE Skipped(s)
  BY <1>1, <1>5, NumbersAreNat, DeliveryKept, <1>2 DEF Skipped, Unborn, Fresh
<1>6. Wanted(s) => Fresh(s)'
  BY <1>1, <1>2 DEF Wanted, Fresh, Unborn
<1>7. CASE Pushed(s)
  <2>1. /\ s \in slots /\ matched'[s] = matched[s] + 1
        /\ queue'[s] = Append(queue[s], matched[s] + 1)
        /\ dropped'[s] = dropped[s] /\ reported'[s] = reported[s]
    BY <1>7 DEF Pushed, Wanted
  <2>2. Len(queue'[s]) = lq + 1 /\ Len(got'[s]) = lg
    BY <1>1, <2>1, NumbersAreNat DEF lg, lq
  <2>3. Counted(s)'
    <3>1. matched[s] + 1 = lg + (lq + 1) + dropped[s]
      BY <1>3, <1>4, <1>7 DEF Pushed
    <3> QED
      BY <1>1, <1>4, <1>7, <2>1, <2>2, <3>1 DEF Counted, Pushed
  <2>4. Ordered(s)'
    BY <1>1, <1>2, <2>1, NumbersAreNat, OrderPush DEF Ordered
  <2> QED
    BY <1>6, <1>7, <2>3, <2>4 DEF Pushed, Delivered
<1>8. CASE Overflowed(s)
  <2>1. /\ s \in slots /\ matched'[s] = matched[s] + 1 /\ dropped'[s] = dropped[s] + 1
        /\ reported'[s] = IF second > reported[s] THEN second ELSE reported[s]
    BY <1>8 DEF Overflowed, Wanted
  <2>2. queue[s] # <<>>
    <3>1. config[s].capacity \in Nat /\ config[s].capacity # 0
      BY <2>1, RouterAssumption DEF RouterShape
    <3> QED
      BY <1>8, <3>1 DEF Overflowed, HasRoom
  <2>3. ASSUME Len(queue'[s]) = lq PROVE Counted(s)'
    <3>1. Wanted(s) /\ Len(got'[s]) = lg
      BY <1>1, <1>8 DEF Overflowed, lg
    <3>2. matched[s] + 1 = lg + lq + (dropped[s] + 1)
      BY <1>3, <1>4, <3>1
    <3>3. reported'[s] \in Nat /\ reported'[s] <= second' /\ reported'[s] >= 1
      <4>1. CASE second > reported[s]
        BY <1>1, <1>3, <2>1, <4>1
      <4>2. CASE ~(second > reported[s])
        BY <1>1, <1>3, <1>4, <2>1, <3>1, <4>2
      <4> QED
        BY <4>1, <4>2
    <3>4. matched'[s] = Len(got'[s]) + Len(queue'[s]) + dropped'[s]
      BY <2>3, <2>1, <3>1, <3>2
    <3> QED
      BY <3>3, <3>4 DEF Counted
  <2>4. CASE config[s].overflow = "DropOldest"
    <3>1. queue'[s] = Append(Tail(queue[s]), matched[s] + 1)
      BY <1>8, <2>1, <2>4 DEF Overflowed
    <3>2. Len(queue'[s]) = lq
      BY <2>2, <3>1, NumbersAreNat, TailOf DEF lq
    <3>3. Counted(s)'
      BY <2>3, <3>2
    <3>4. Ordered(s)'
      BY <1>1, <1>2, <2>1, <2>2, <3>1, NumbersAreNat, OrderExchange DEF Ordered
    <3> QED
      BY <1>6, <1>8, <3>3, <3>4 DEF Overflowed, Delivered
  <2>5. CASE config[s].overflow # "DropOldest"
    <3>1. queue'[s] = queue[s]
      BY <1>8, <2>5 DEF Overflowed
    <3>2. Counted(s)'
      BY <2>3, <3>1 DEF lq
    <3>3. Ordered(s)'
      BY <1>1, <1>2, <2>1, <2>5, <3>1, NumbersAreNat, OrderDrop DEF Ordered
    <3> QED
      BY <1>6, <1>8, <3>2, <3>3 DEF Overflowed, Delivered
  <2> QED
    BY <2>4, <2>5
<1>9. CASE Shut(s)
  <2>1. /\ s \notin slots' /\ matched'[s] = matched[s] + 1 /\ queue'[s] = queue[s]
        /\ dropped'[s] = dropped[s] /\ reported'[s] = reported[s]
        /\ config[s].overflow = "Close"
    BY <1>9 DEF Shut, Wanted
  <2>2. Counted(s)'
    BY <1>1, <1>2, <2>1 DEF Counted
  <2>3. Ordered(s)'
    BY <1>1, <1>2, <2>1, NumbersAreNat, OrderDrop DEF Ordered
  <2> QED
    BY <1>6, <1>9, <2>2, <2>3 DEF Shut, Delivered
<1> QED
  BY <1>5, <1>7, <1>8, <1>9, RouteEffects

\* A subscriber moves the frames of its own queue, and only when it takes one.
LEMMA DeliverySubscriber ==
  ASSUME RouterShape, DeliveryInv, NEW u \in Subscribers, SubscriberStep(u), NEW s \in Subscribers
  PROVE  Delivered(s)'
<1>1. Fresh(s)
  BY DEF DeliveryInv, Delivered
<1>2. second' = second /\ second \in Nat
  BY NumbersAreNat DEF SubscriberStep, AskToSubscribe, FailToSubscribe, CancelSubscribe,
     TakeSubscription, DropSubscription, BeginRecv, PopFrame, CheckClosed, ParkRecv, WakeRecv,
     CancelRecv
<1>3. slots' = slots
  BY DEF SubscriberStep, AskToSubscribe, FailToSubscribe, CancelSubscribe,
     TakeSubscription, DropSubscription, BeginRecv, PopFrame, CheckClosed, ParkRecv, WakeRecv,
     CancelRecv
<1>4. /\ matched' = matched /\ dropped' = dropped /\ reported' = reported
      /\ PopFrame(u) \/ (queue' = queue /\ got' = got)
  BY DEF SubscriberStep, AskToSubscribe, FailToSubscribe, CancelSubscribe,
     TakeSubscription, DropSubscription, BeginRecv, PopFrame, CheckClosed, ParkRecv, WakeRecv,
     CancelRecv, subscriptionVars
<1>5. Unborn(s)' => Unborn(s)
  BY DEF SubscriberStep, AskToSubscribe, FailToSubscribe, CancelSubscribe,
     TakeSubscription, DropSubscription, BeginRecv, PopFrame, CheckClosed, ParkRecv, WakeRecv,
     CancelRecv, Goto, Unborn, RouterShape, Holding, Receiving
<1>6. config'[s] = config[s] \/ Unborn(s)
  BY DEF SubscriberStep, AskToSubscribe, FailToSubscribe, CancelSubscribe,
     TakeSubscription, DropSubscription, BeginRecv, PopFrame, CheckClosed, ParkRecv, WakeRecv,
     CancelRecv, Unborn, RouterShape
<1>7. Unborn(s)' => Unborn(s) /\ s \notin slots'
  BY <1>1, <1>3, <1>5 DEF Fresh
<1>8. CASE PopFrame(u) /\ s = u /\ queue[u] # <<>>
  BY <1>8, DeliveryPop
<1>9. CASE ~(PopFrame(u) /\ s = u /\ queue[u] # <<>>)
  <2>1. queue'[s] = queue[s] /\ got'[s] = got[s]
    BY <1>4, <1>9 DEF PopFrame, RouterShape
  <2> QED
    BY <1>2, <1>3, <1>4, <1>6, <1>7, <2>1, DeliveryKept
<1> QED
  BY <1>8, <1>9

\* The router's own steps only let a subscription in or out.
LEMMA DeliveryRouter ==
  ASSUME RouterShape, DeliveryInv, NEW u \in Subscribers, RouterStep(u), NEW s \in Subscribers
  PROVE  Delivered(s)'
<1>1. Fresh(s)
  BY DEF DeliveryInv, Delivered
<1>2. /\ UNCHANGED <<matched, dropped, reported, second, queue, got, config>>
      /\ second \in Nat
  BY NumbersAreNat DEF RouterStep, HandleSubscribe, HandleUnsubscribe
<1>3. Unborn(s)' => Unborn(s)
  BY DEF RouterStep, HandleSubscribe, HandleUnsubscribe, Goto, Unborn, RouterShape
<1>4. /\ s \in slots' => s \in slots \/ Unborn(s)
      /\ s \in slots' /\ Unborn(s)' => s \in slots
  BY DEF RouterStep, HandleSubscribe, HandleUnsubscribe, Goto, Unborn, RouterShape
<1>5. Unborn(s)' => Unborn(s) /\ s \notin slots'
  BY <1>1, <1>3, <1>4 DEF Fresh
<1> QED
  BY <1>2, <1>4, <1>5, DeliveryKept

LEMMA DeliveryStep ==
  RouterShape /\ DeliveryInv /\ [ReceptionNext]_receptionVars => DeliveryInv'
<1> SUFFICES ASSUME RouterShape, DeliveryInv, [ReceptionNext]_receptionVars, NEW s \in Subscribers
             PROVE  Delivered(s)'
  BY DEF DeliveryInv
<1>1. Fresh(s) /\ second \in Nat
  BY NumbersAreNat DEF DeliveryInv, Delivered
<1>2. CASE NextSecond
  <2>1. /\ UNCHANGED <<subscriber, config, slots, matched, dropped, reported, queue, got>>
        /\ second' = second + 1
    BY <1>2 DEF NextSecond, subscriptionVars
  <2>2. Unborn(s)' => Unborn(s) /\ s \notin slots'
    BY <1>1, <2>1 DEF Fresh, Unborn
  <2> QED
    BY <1>1, <2>1, <2>2, DeliveryKept
<1>3. CASE RouterClosed \/ RouterEnded \/ UNCHANGED routerVars
  <2>1. /\ UNCHANGED <<config, matched, dropped, reported, second, queue, got>>
        /\ slots' \subseteq slots
    BY <1>3 DEF RouterClosed, RouterEnded, CloseRouter, routerVars, subscriptionVars
  <2>2. Unborn(s)' => Unborn(s)
    BY <1>3 DEF RouterClosed, RouterEnded, routerVars, Unborn
  <2>3. Unborn(s)' => Unborn(s) /\ s \notin slots'
    BY <1>1, <2>1, <2>2 DEF Fresh
  <2> QED
    BY <1>1, <2>1, <2>3, DeliveryKept
<1> QED
  BY <1>2, <1>3, RouterIsMoved, DeliverySubscriber, DeliveryRouter, DeliveryRoute DEF RouterMoves

LEMMA DeliveryInvariance == ReceptionSpec => []DeliveryInv
<1>1. ReceptionInit => DeliveryInv
  <2> SUFFICES ASSUME ReceptionInit, NEW s \in Subscribers PROVE Delivered(s)
    BY DEF DeliveryInv
  <2>1. /\ s \notin slots /\ matched[s] = 0 /\ dropped[s] = 0 /\ reported[s] = 0 /\ second = 1
        /\ queue[s] = <<>> /\ got[s] = <<>>
    BY DEF ReceptionInit, RouterInit
  <2>2. Ordered(s)
    BY <2>1 DEF Ordered, InOrder, Rising, Below, Before, Newest
  <2> QED
    BY <2>1, <2>2 DEF Delivered, Fresh, Counted
<1> QED
  BY <1>1, DeliveryStep, ShapeInvariance, PTL DEF ReceptionSpec

\* router.rs 293-334: each frame for an open subscription was received, is queued or is in
\* its drop count, whatever the policy, and the first drop has been reported.
THEOREM FramesAlwaysAccounted == ReceptionSpec => []FramesAreAccounted
<1>1. RouterShape /\ DeliveryInv => FramesAreAccounted
  <2> SUFFICES ASSUME RouterShape, DeliveryInv, NEW s \in slots
               PROVE  /\ matched[s] = Len(got[s]) + Len(queue[s]) + dropped[s]
                      /\ dropped[s] > 0 => reported[s] \in 1..second
    BY DEF FramesAreAccounted
  <2>1. s \in Subscribers
    BY DEF RouterShape
  <2>2. Counted(s) /\ reported[s] \in Nat /\ second \in Nat
    BY <2>1, NumbersAreNat DEF DeliveryInv, Delivered
  <2>3. s \in slots /\ reported[s] <= second /\ (dropped[s] > 0 => reported[s] >= 1)
    BY <2>2 DEF Counted
  <2>4. matched[s] = Len(got[s]) + Len(queue[s]) + dropped[s]
    BY <2>2, <2>3, Zenon DEF Counted
  <2>5. dropped[s] > 0 => reported[s] \in 1..second
    BY <2>2, <2>3
  <2> QED
    BY <2>4, <2>5
<1> QED
  BY <1>1, DeliveryInvariance, ShapeInvariance, PTL

\* What was received and what is queued, one after the other.
LEMMA OrderJoin ==
  ASSUME NEW policy, NEW m \in Nat, NEW q \in Seq(Nat), NEW g \in Seq(Nat),
         InOrder(policy, m, q, g)
  PROVE  Rising(g \o q)
<1>1. /\ Len(g) \in Nat /\ Len(q) \in Nat /\ Len(g \o q) = Len(g) + Len(q)
      /\ \A i \in 1..(Len(g) + Len(q)) :
           (g \o q)[i] = IF i <= Len(g) THEN g[i] ELSE q[i - Len(g)]
  OBVIOUS
<1> DEFINE all == g \o q
<1> HIDE DEF all
<1> SUFFICES ASSUME NEW i \in 1..Len(all), NEW j \in 1..Len(all), i < j PROVE all[i] < all[j]
  BY DEF Rising, all
<1>2. /\ Len(all) = Len(g) + Len(q) /\ i \in 1..(Len(g) + Len(q)) /\ j \in 1..(Len(g) + Len(q))
      /\ all[i] = IF i <= Len(g) THEN g[i] ELSE q[i - Len(g)]
      /\ all[j] = IF j <= Len(g) THEN g[j] ELSE q[j - Len(g)]
  BY <1>1 DEF all
<1>3. CASE j <= Len(g)
  <2>1. i \in 1..Len(g) /\ j \in 1..Len(g) /\ all[i] = g[i] /\ all[j] = g[j]
    BY <1>1, <1>2, <1>3
  <2> QED
    BY <2>1 DEF InOrder, Rising
<1>4. CASE i <= Len(g) /\ j > Len(g)
  <2>1. i \in 1..Len(g) /\ j - Len(g) \in 1..Len(q) /\ all[i] = g[i] /\ all[j] = q[j - Len(g)]
    BY <1>1, <1>2, <1>4
  <2> QED
    BY <2>1 DEF InOrder, Before
<1>5. CASE i > Len(g)
  <2>1. i - Len(g) \in 1..Len(q) /\ j - Len(g) \in 1..Len(q) /\ i - Len(g) < j - Len(g)
    BY <1>1, <1>2, <1>5
  <2>2. all[i] = q[i - Len(g)]
    BY <1>1, <1>2, <1>5
  <2>3. all[j] = q[j - Len(g)]
    <3>1. ~(j <= Len(g))
      BY <1>1, <1>2, <1>5
    <3> QED
      BY <1>2, <3>1
  <2> QED
    BY <2>1, <2>2, <2>3 DEF InOrder, Rising
<1> QED
  BY <1>1, <1>2, <1>3, <1>4, <1>5

\* router.rs 313-325: nothing overtakes, nothing is delivered twice, and DropOldest keeps
\* the newest frames without a gap, whenever recv() takes one.
THEOREM FramesAlwaysInOrder == ReceptionSpec => []FramesKeepOrder
<1>1. RouterShape /\ DeliveryInv => FramesKeepOrder
  <2> SUFFICES ASSUME RouterShape, DeliveryInv, NEW s \in Subscribers
               PROVE  /\ Rising(got[s] \o queue[s])
                      /\ config[s].overflow = "DropOldest" => Newest(queue[s], matched[s])
    BY DEF FramesKeepOrder, Rising, Newest
  <2>1. InOrder(config[s].overflow, matched[s], queue[s], got[s])
    BY DEF DeliveryInv, Delivered, Ordered
  <2>2. Rising(got[s] \o queue[s])
    BY <2>1, NumbersAreNat, OrderJoin
  <2> QED
    BY <2>1, <2>2 DEF InOrder
<1> QED
  BY <1>1, DeliveryInvariance, ShapeInvariance, PTL

-----------------------------------------------------------------------------
(* The bound of the command channels.                                      *)

Absent(channel, own) == \A i \in 1..Len(channel) : channel[i] \notin own
Single(channel, own) ==
  \A i, j \in 1..Len(channel) : channel[i] \in own /\ channel[j] \in own => i = j

LEMMA ChannelAppend ==
  ASSUME NEW S, NEW channel \in Seq(S), NEW command \in S, NEW own
  PROVE  /\ Absent(channel, own) => Single(Append(channel, command), own)
         /\ command \notin own /\ Absent(channel, own) => Absent(Append(channel, command), own)
         /\ command \notin own /\ Single(channel, own) => Single(Append(channel, command), own)
<1> DEFINE longer == Append(channel, command)
<1>1. /\ Len(longer) = Len(channel) + 1 /\ Len(channel) \in Nat
      /\ longer[Len(channel) + 1] = command
      /\ \A i \in 1..Len(channel) : longer[i] = channel[i]
  OBVIOUS
<1> HIDE DEF longer
<1>2. \A i \in 1..Len(longer) : i \in 1..Len(channel) \/ (i = Len(channel) + 1 /\ longer[i] = command)
  BY <1>1
<1>3. Absent(channel, own) => Single(longer, own)
  BY <1>1, <1>2 DEF Absent, Single
<1>4. command \notin own /\ Absent(channel, own) => Absent(longer, own)
  BY <1>1, <1>2 DEF Absent
<1>5. command \notin own /\ Single(channel, own) => Single(longer, own)
  BY <1>1, <1>2 DEF Single
<1> QED
  BY <1>3, <1>4, <1>5 DEF longer

LEMMA ChannelTail ==
  ASSUME NEW S, NEW channel \in Seq(S), channel # <<>>, NEW own
  PROVE  /\ Tail(channel) \in Seq(S)
         /\ Absent(channel, own) => Absent(Tail(channel), own) /\ Head(channel) \notin own
         /\ Single(channel, own) => Single(Tail(channel), own)
         /\ Single(channel, own) /\ Head(channel) \in own => Absent(Tail(channel), own)
<1> DEFINE rest == Tail(channel)
<1>1. /\ rest \in Seq(S) /\ Len(rest) = Len(channel) - 1 /\ Len(channel) \in Nat \ {0}
      /\ \A i \in 1..Len(rest) : rest[i] = channel[i + 1]
      /\ Head(channel) = channel[1]
  OBVIOUS
<1> HIDE DEF rest
<1>2. 1 \in 1..Len(channel) /\ \A i \in 1..Len(rest) : i + 1 \in 1..Len(channel) /\ i + 1 # 1
  BY <1>1
<1>3. Absent(channel, own) => Absent(rest, own) /\ Head(channel) \notin own
  BY <1>1, <1>2 DEF Absent
<1>4. Single(channel, own) => Single(rest, own)
  <2> SUFFICES ASSUME Single(channel, own), NEW i \in 1..Len(rest), NEW j \in 1..Len(rest),
                      rest[i] \in own, rest[j] \in own
               PROVE  i = j
    BY DEF Single
  <2>1. i + 1 = j + 1
    BY <1>1, <1>2 DEF Single
  <2> QED
    BY <2>1
<1>5. Single(channel, own) /\ Head(channel) \in own => Absent(rest, own)
  BY <1>1, <1>2 DEF Absent, Single
<1> QED
  BY <1>1, <1>3, <1>4, <1>5 DEF rest

\* The budget admits one at a time, and lets go of any.
LEMMA AdmittedFit ==
  ASSUME NEW S, NEW T, IsFiniteSet(S), NEW n \in Nat, Cardinality(S) <= n, NEW x,
         T \subseteq S \/ (T \subseteq S \cup {x} /\ Cardinality(S) < n)
  PROVE  IsFiniteSet(T) /\ Cardinality(T) <= n
<1>1. Cardinality(S) \in Nat
  BY FS_CardinalityType
<1>2. CASE T \subseteq S
  <2>1. IsFiniteSet(T) /\ Cardinality(T) <= Cardinality(S)
    BY <1>2, FS_Subset
  <2>2. Cardinality(T) \in Nat
    BY <2>1, FS_CardinalityType
  <2> QED
    BY <1>1, <2>1, <2>2
<1>3. CASE T \subseteq S \cup {x} /\ Cardinality(S) < n
  <2>1. /\ IsFiniteSet(S \cup {x})
        /\ Cardinality(S \cup {x}) = IF x \in S THEN Cardinality(S) ELSE Cardinality(S) + 1
    BY FS_AddElement
  <2>2. Cardinality(S \cup {x}) <= n /\ Cardinality(S \cup {x}) \in Nat
    BY <1>1, <1>3, <2>1
  <2>3. IsFiniteSet(T) /\ Cardinality(T) <= Cardinality(S \cup {x})
    BY <1>3, <2>1, FS_Subset
  <2>4. Cardinality(T) \in Nat
    BY <2>3, FS_CardinalityType
  <2> QED
    BY <2>2, <2>3, <2>4
<1> QED
  BY <1>2, <1>3

\* A channel in which every command has an owner of its own is no longer than they are many.
LEMMA ChannelFits ==
  ASSUME NEW T, IsFiniteSet(T), NEW n \in Nat, Cardinality(T) <= n, NEW length \in Nat,
         NEW owner \in [1..length -> T],
         \A i, j \in 1..length : owner[i] = owner[j] => i = j
  PROVE  length <= n
<1>1. owner \in Injection(1..length, T)
  BY Fun_IsInj
<1>2. Cardinality(1..length) <= Cardinality(T)
  BY <1>1, FS_Injection
<1>3. Cardinality(1..length) = length
  BY FS_Interval
<1>4. Cardinality(T) \in Nat
  BY FS_CardinalityType
<1> QED
  BY <1>2, <1>3, <1>4

\* ControlBudget: a call has one command in the channel at most, and none while it waits
\* for nothing of it or holds what it got; whoever holds a lease fits the budget.
OfSubscriber(s) == {Subscribe(s), Unsubscribe(s)}
OfRequest(t)    == {Register(t), Deregister(t)}

LoneSubscriber(s) ==
  /\ Single(routerRx, OfSubscriber(s))
  /\ subscriber[s] \in {"idle", "answered"} \cup Holding => Absent(routerRx, OfSubscriber(s))

LoneRequest(t) ==
  /\ Single(transactionRx, OfRequest(t))
  /\ request[t] \in {"idle", "answered"} \cup Pending => Absent(transactionRx, OfRequest(t))

RouterBudget ==
  /\ \A s \in Subscribers : LoneSubscriber(s)
  /\ IsFiniteSet(Subscribed) /\ Cardinality(Subscribed) <= Capacity

TableBudget ==
  /\ \A t \in Requests : LoneRequest(t)
  /\ IsFiniteSet(Prepared) /\ Cardinality(Prepared) <= Capacity

LEMMA CapacityIsNat ==
  ASSUME setup \in Setups
  PROVE  Capacity \in Nat
  BY SetupAssumption DEF Capacity

LEMMA OwnCommands ==
  /\ \A s, u \in Subscribers : s # u =>
       Subscribe(s) \notin OfSubscriber(u) /\ Unsubscribe(s) \notin OfSubscriber(u)
  /\ \A s \in Subscribers : Subscribe(s) \in OfSubscriber(s) /\ Unsubscribe(s) \in OfSubscriber(s)
  /\ \A s, u \in Requests : s # u =>
       Register(s) \notin OfRequest(u) /\ Deregister(s) \notin OfRequest(u)
  /\ \A s \in Requests : Register(s) \in OfRequest(s) /\ Deregister(s) \in OfRequest(s)
BY DEF OfSubscriber, OfRequest, Subscribe, Unsubscribe, Register, Deregister

\* A command is somebody's: he has a lease.
LEMMA QueuedIsPresent ==
  ASSUME NEW channel \in Seq(RouterCommands), NEW s \in Subscribers
  PROVE  (\E i \in 1..Len(channel) : channel[i].sub = s) <=> ~Absent(channel, OfSubscriber(s))
<1>1. \A i \in 1..Len(channel) : channel[i] \in RouterCommands
  OBVIOUS
<1>2. \A c \in RouterCommands : c.sub = s <=> c \in OfSubscriber(s)
  BY DEF RouterCommands, Subscribe, Unsubscribe, OfSubscriber
<1> QED
  BY <1>1, <1>2 DEF Absent

LEMMA CommandedIsPresent ==
  ASSUME NEW channel \in Seq(TransactionCommands), NEW t \in Requests
  PROVE  (\E i \in 1..Len(channel) : channel[i].id = t) <=> ~Absent(channel, OfRequest(t))
<1>1. \A i \in 1..Len(channel) : channel[i] \in TransactionCommands
  OBVIOUS
<1>2. \A c \in TransactionCommands : c.id = t <=> c \in OfRequest(t)
  BY DEF TransactionCommands, Register, Deregister, OfRequest
<1> QED
  BY <1>1, <1>2 DEF Absent

LEMMA LeasesOfSubscribers ==
  ASSUME RouterShape, RouterShape', NEW s \in Subscribers
  PROVE  /\ s \in Subscribed <=> \/ subscriber[s] \in {"answered"} \cup Holding
                                 \/ ~Absent(routerRx, OfSubscriber(s))
         /\ s \in Subscribed' <=> \/ subscriber'[s] \in {"answered"} \cup Holding
                                  \/ ~Absent(routerRx', OfSubscriber(s))
<1>1. Queued(s) <=> ~Absent(routerRx, OfSubscriber(s))
  BY QueuedIsPresent DEF Queued, RouterShape
<1>2. Queued(s)' <=> ~Absent(routerRx', OfSubscriber(s))
  BY QueuedIsPresent DEF Queued, RouterShape
<1> QED
  BY <1>1, <1>2 DEF Subscribed

\* A caller asks once, gives up what it got once, or sends nothing.
LEMMA SubscriberSends ==
  ASSUME RouterShape, NEW s \in Subscribers, SubscriberStep(s)
  PROVE  /\ \A u \in Subscribers \ {s} : subscriber'[u] = subscriber[u]
         /\ \/ /\ routerRx' = Append(routerRx, Subscribe(s))
               /\ subscriber[s] = "idle" /\ subscriber'[s] = "asked" /\ Admits(Subscribed)
            \/ /\ routerRx' = Append(routerRx, Unsubscribe(s))
               /\ subscriber[s] \in {"answered"} \cup Holding /\ subscriber'[s] = "gone"
            \/ /\ UNCHANGED routerRx /\ subscriber'[s] # "idle"
               /\ subscriber'[s] \in {"answered"} \cup Holding
                    => subscriber[s] \in {"answered"} \cup Holding
<1> USE DEF RouterShape, Goto, Holding, Receiving, SendUnsubscribe
<1>1. CASE AskToSubscribe(s)
  BY <1>1 DEF AskToSubscribe
<1>2. CASE FailToSubscribe(s) \/ TakeSubscription(s)
  BY <1>2 DEF FailToSubscribe, TakeSubscription
<1>3. CASE CancelSubscribe(s)
  BY <1>3 DEF CancelSubscribe
<1>4. CASE DropSubscription(s)
  BY <1>4 DEF DropSubscription
<1>5. CASE BeginRecv(s) \/ ParkRecv(s) \/ WakeRecv(s) \/ CancelRecv(s)
  BY <1>5 DEF BeginRecv, ParkRecv, WakeRecv, CancelRecv
<1>6. CASE PopFrame(s) \/ CheckClosed(s)
  BY <1>6 DEF PopFrame, CheckClosed
<1> QED
  BY <1>1, <1>2, <1>3, <1>4, <1>5, <1>6 DEF SubscriberStep

LEMMA BudgetSubscriber ==
  ASSUME RouterShape, RouterShape', RouterBudget, NEW s \in Subscribers, SubscriberStep(s),
         setup \in Setups, UNCHANGED setup
  PROVE  RouterBudget'
<1> USE CommandsAreTyped
<1>0. Capacity \in Nat /\ UNCHANGED Capacity
  BY CapacityIsNat DEF Capacity
<1>1. /\ routerRx \in Seq(RouterCommands)
      /\ \A u \in Subscribers : LoneSubscriber(u)
      /\ IsFiniteSet(Subscribed) /\ Cardinality(Subscribed) <= Capacity
  BY DEF RouterShape, RouterBudget
<1>2. ASSUME NEW u \in Subscribers, u # s
      PROVE  LoneSubscriber(u)' /\ (u \in Subscribed' => u \in Subscribed)
  <2>1. subscriber'[u] = subscriber[u]
    BY <1>2, SubscriberSends
  <2>2. /\ Single(routerRx, OfSubscriber(u)) => Single(routerRx', OfSubscriber(u))
        /\ Absent(routerRx, OfSubscriber(u)) => Absent(routerRx', OfSubscriber(u))
    <3>1. CASE UNCHANGED routerRx
      BY <3>1
    <3>2. ASSUME NEW c \in OfSubscriber(s), routerRx' = Append(routerRx, c)
          PROVE  /\ Single(routerRx, OfSubscriber(u)) => Single(routerRx', OfSubscriber(u))
                 /\ Absent(routerRx, OfSubscriber(u)) => Absent(routerRx', OfSubscriber(u))
      <4>1. c \in RouterCommands /\ c \notin OfSubscriber(u)
        BY <1>2, OwnCommands DEF OfSubscriber
      <4> QED
        BY <1>1, <3>2, <4>1, ChannelAppend
    <3>3. UNCHANGED routerRx \/ \E c \in OfSubscriber(s) : routerRx' = Append(routerRx, c)
      BY SubscriberSends, OwnCommands
    <3> QED
      BY <3>1, <3>2, <3>3
  <2> QED
    BY <1>1, <2>1, <2>2, LeasesOfSubscribers DEF LoneSubscriber
<1>3. LoneSubscriber(s)' /\ (s \in Subscribed' => s \in Subscribed \/ Admits(Subscribed))
  <2>1. CASE /\ routerRx' = Append(routerRx, Subscribe(s))
             /\ subscriber[s] = "idle" /\ subscriber'[s] = "asked" /\ Admits(Subscribed)
    <3>1. Absent(routerRx, OfSubscriber(s))
      BY <1>1, <2>1 DEF LoneSubscriber
    <3>2. Single(routerRx', OfSubscriber(s))
      BY <1>1, <2>1, <3>1, ChannelAppend
    <3> QED
      BY <2>1, <3>2 DEF LoneSubscriber, Holding, Receiving
  <2>2. CASE /\ routerRx' = Append(routerRx, Unsubscribe(s))
             /\ subscriber[s] \in {"answered"} \cup Holding /\ subscriber'[s] = "gone"
    <3>1. Absent(routerRx, OfSubscriber(s))
      BY <1>1, <2>2 DEF LoneSubscriber
    <3>2. Single(routerRx', OfSubscriber(s))
      BY <1>1, <2>2, <3>1, ChannelAppend
    <3> QED
      BY <2>2, <3>2, LeasesOfSubscribers DEF LoneSubscriber, Holding, Receiving
  <2>3. CASE /\ UNCHANGED routerRx /\ subscriber'[s] # "idle"
             /\ subscriber'[s] \in {"answered"} \cup Holding
                  => subscriber[s] \in {"answered"} \cup Holding
    BY <1>1, <2>3, LeasesOfSubscribers DEF LoneSubscriber
  <2> QED
    BY <2>1, <2>2, <2>3, SubscriberSends
<1>4. IsFiniteSet(Subscribed') /\ Cardinality(Subscribed') <= Capacity
  <2>1. Subscribed' \subseteq Subscribers
    BY DEF Subscribed
  <2>2. \/ Subscribed' \subseteq Subscribed
        \/ Subscribed' \subseteq Subscribed \cup {s} /\ Cardinality(Subscribed) < Capacity
    BY <1>2, <1>3, <2>1 DEF Admits
  <2> QED
    BY <1>0, <1>1, <2>2, AdmittedFit
<1> QED
  BY <1>0, <1>2, <1>3, <1>4 DEF RouterBudget

\* The router takes a command of the caller out, and may put another in its place.
LEMMA BudgetRouter ==
  ASSUME RouterShape, RouterShape', RouterBudget, NEW s \in Subscribers, RouterStep(s),
         setup \in Setups, UNCHANGED setup
  PROVE  RouterBudget'
<1> USE CommandsAreTyped
<1>0. Capacity \in Nat /\ UNCHANGED Capacity
  BY CapacityIsNat DEF Capacity
<1>1. /\ routerRx \in Seq(RouterCommands) /\ routerRx # <<>>
      /\ Head(routerRx) \in OfSubscriber(s)
      /\ \A u \in Subscribers : LoneSubscriber(u)
      /\ IsFiniteSet(Subscribed) /\ Cardinality(Subscribed) <= Capacity
  BY DEF RouterShape, RouterBudget, RouterStep, HandleSubscribe, HandleUnsubscribe, OfSubscriber
<1>2. /\ \A u \in Subscribers \ {s} : subscriber'[u] = subscriber[u]
      /\ \/ routerRx' = Tail(routerRx)
         \/ routerRx' = Append(Tail(routerRx), Unsubscribe(s)) /\ subscriber'[s] = "gone"
  BY DEF RouterShape, RouterStep, HandleSubscribe, HandleUnsubscribe, Goto
<1>3. Tail(routerRx) \in Seq(RouterCommands)
  BY <1>1, ChannelTail
<1>4. ASSUME NEW u \in Subscribers, u # s
      PROVE  LoneSubscriber(u)' /\ (u \in Subscribed' => u \in Subscribed)
  <2>1. /\ Single(routerRx, OfSubscriber(u)) => Single(Tail(routerRx), OfSubscriber(u))
        /\ Absent(routerRx, OfSubscriber(u)) => Absent(Tail(routerRx), OfSubscriber(u))
    BY <1>1, ChannelTail
  <2>2. /\ Single(Tail(routerRx), OfSubscriber(u)) => Single(routerRx', OfSubscriber(u))
        /\ Absent(Tail(routerRx), OfSubscriber(u)) => Absent(routerRx', OfSubscriber(u))
    <3> DEFINE longer == Append(Tail(routerRx), Unsubscribe(s))
    <3>1. Unsubscribe(s) \in RouterCommands /\ Unsubscribe(s) \notin OfSubscriber(u)
      BY <1>4, OwnCommands
    <3>2. /\ Single(Tail(routerRx), OfSubscriber(u)) => Single(longer, OfSubscriber(u))
          /\ Absent(Tail(routerRx), OfSubscriber(u)) => Absent(longer, OfSubscriber(u))
      BY <1>3, <3>1, ChannelAppend
    <3>3. routerRx' = Tail(routerRx) \/ routerRx' = longer
      BY <1>2
    <3> HIDE DEF longer
    <3> QED
      BY <3>2, <3>3
  <2>3. subscriber'[u] = subscriber[u]
    BY <1>2, <1>4
  <2> QED
    BY <1>1, <2>1, <2>2, <2>3, LeasesOfSubscribers DEF LoneSubscriber
<1>5. LoneSubscriber(s)' /\ s \in Subscribed
  <2>1. Absent(Tail(routerRx), OfSubscriber(s)) /\ ~Absent(routerRx, OfSubscriber(s))
    BY <1>1, ChannelTail DEF LoneSubscriber
  <2>2. Single(Tail(routerRx), OfSubscriber(s))
    BY <2>1 DEF Absent, Single
  <2>3. Single(Append(Tail(routerRx), Unsubscribe(s)), OfSubscriber(s))
    BY <1>3, <2>1, ChannelAppend
  <2> QED
    BY <1>2, <2>1, <2>2, <2>3, LeasesOfSubscribers DEF LoneSubscriber, Holding, Receiving
<1>6. Subscribed' \subseteq Subscribed
  BY <1>4, <1>5 DEF Subscribed
<1>7. IsFiniteSet(Subscribed') /\ Cardinality(Subscribed') <= Capacity
  BY <1>0, <1>1, <1>6, AdmittedFit
<1> QED
  BY <1>0, <1>4, <1>5, <1>7 DEF RouterBudget

LEMMA RouterBudgetStep ==
  /\ RouterShape /\ RouterShape' /\ RouterBudget /\ setup \in Setups
  /\ [ReceptionNext]_receptionVars
  => RouterBudget'
<1> SUFFICES ASSUME RouterShape, RouterShape', RouterBudget, setup \in Setups,
                    [ReceptionNext]_receptionVars
             PROVE  RouterBudget'
  OBVIOUS
<1> DEFINE Same == UNCHANGED <<setup, subscriber, routerRx>>
<1>1. ASSUME NEW s \in Subscribers, SubscriberActs(s) \/ RouterActs(s) PROVE RouterBudget'
  BY <1>1, BudgetSubscriber, BudgetRouter DEF SubscriberActs, RouterActs
<1>2. ASSUME Same PROVE RouterBudget'
  <2>1. Subscribed' = Subscribed /\ Capacity' = Capacity
    BY <1>2 DEF Subscribed, Queued, Capacity
  <2> QED
    BY <1>2, <2>1 DEF RouterBudget, LoneSubscriber
<1>3. ASSUME NEW t \in Requests, RequestActs(t) \/ TableActs(t) PROVE Same
  BY <1>3 DEF RequestActs, TableActs, routerVars
<1>4. ASSUME NEW frame \in RxFrames, Dispatch(frame) PROVE Same
  BY <1>4, RouteEffects DEF Dispatch
<1>5. CASE Disconnect \/ Tick \/ CloseAnnounced \/ Close
  <2>1. Same
    BY <1>5 DEF Disconnect, Tick, NextSecond, CloseAnnounced, Announce, Close, CloseReceive,
                RouterClosed, routerVars
  <2> QED
    BY <1>2, <2>1
<1>6. CASE End
  <2>1. /\ routerRx' = <<>> /\ UNCHANGED setup
        /\ \A s \in Subscribers : subscriber'[s] \in {"answered"} \cup Holding
                                    => subscriber[s] \in {"answered"} \cup Holding
    BY <1>6 DEF End, EndTask, RouterEnded, Holding, Receiving, RouterShape
  <2>2. \A s \in Subscribers : Absent(routerRx', OfSubscriber(s)) /\ Single(routerRx', OfSubscriber(s))
    BY <2>1 DEF Absent, Single
  <2>3. Subscribed' \subseteq Subscribed
    <3>1. Subscribed' \subseteq Subscribers
      BY DEF Subscribed
    <3> QED
      BY <2>1, <2>2, <3>1, LeasesOfSubscribers
  <2>4. Capacity \in Nat /\ Capacity' = Capacity
    BY <2>1, CapacityIsNat DEF Capacity
  <2>5. IsFiniteSet(Subscribed') /\ Cardinality(Subscribed') <= Capacity
    <3>1. IsFiniteSet(Subscribed) /\ Cardinality(Subscribed) <= Capacity
      BY DEF RouterBudget
    <3> QED
      BY <2>3, <2>4, <3>1, AdmittedFit
  <2> QED
    BY <2>2, <2>4, <2>5 DEF RouterBudget, LoneSubscriber
<1>7. CASE UNCHANGED receptionVars
  <2>1. Same
    BY <1>7 DEF receptionVars, routerVars
  <2> QED
    BY <1>2, <2>1
<1> QED
  BY <1>1, <1>2, <1>3, <1>4, <1>5, <1>6, <1>7 DEF ReceptionNext

\* The same of the requests.
LEMMA LeasesOfRequests ==
  ASSUME TableShape, TableShape', NEW t \in Requests
  PROVE  /\ t \in Prepared <=> \/ request[t] \in {"answered"} \cup Pending
                               \/ ~Absent(transactionRx, OfRequest(t))
         /\ t \in Prepared' <=> \/ request'[t] \in {"answered"} \cup Pending
                                \/ ~Absent(transactionRx', OfRequest(t))
<1>1. Commanded(t) <=> ~Absent(transactionRx, OfRequest(t))
  BY CommandedIsPresent DEF Commanded, TableShape
<1>2. Commanded(t)' <=> ~Absent(transactionRx', OfRequest(t))
  BY CommandedIsPresent DEF Commanded, TableShape
<1> QED
  BY <1>1, <1>2 DEF Prepared

LEMMA RequestSends ==
  ASSUME TableShape, NEW t \in Requests, RequestStep(t)
  PROVE  \/ /\ transactionRx' = Append(transactionRx, Register(t))
            /\ request[t] = "idle" /\ request'[t] = "asked" /\ Admits(Prepared)
         \/ /\ transactionRx' = Append(transactionRx, Deregister(t))
            /\ request[t] \in {"answered"} \cup Pending /\ request'[t] = "gone"
         \/ /\ UNCHANGED transactionRx /\ request'[t] # "idle"
            /\ request'[t] \in {"answered"} \cup Pending => request[t] \in {"answered"} \cup Pending
<1> USE DEF TableShape, MoveTo, Pending
<1>1. ASSUME NEW result, Finish(t, result)
      PROVE  /\ request'[t] = "gone"
             /\ (UNCHANGED transactionRx) \/ transactionRx' = Append(transactionRx, Deregister(t))
  BY <1>1 DEF Finish, SendDeregister
<1>2. CASE AskToPrepare(t)
  BY <1>2 DEF AskToPrepare
<1>3. CASE FailToPrepare(t) \/ TakePending(t) \/ BeginAttempt(t)
  BY <1>3 DEF FailToPrepare, TakePending, BeginAttempt
<1>4. CASE CancelPrepare(t)
  BY <1>1, <1>4 DEF CancelPrepare
<1>5. CASE FailToSend(t) \/ DropPending(t) \/ ChannelEnds(t)
  BY <1>1, <1>5 DEF FailToSend, DropPending, ChannelEnds
<1>6. CASE ReceiveSignal(t)
  <2>1. request[t] = "waiting"
    BY <1>6 DEF ReceiveSignal
  <2>2. (UNCHANGED <<request, transactionRx>>) \/ \E result : Finish(t, result)
    BY <1>6 DEF ReceiveSignal, CollectFrame
  <2> QED
    BY <1>1, <2>1, <2>2
<1>7. CASE DeadlinePasses(t)
  <2>1. request[t] = "waiting"
    BY <1>7 DEF DeadlinePasses
  <2>2. CASE DeadlineReturns(t)
    BY <1>1, <2>1, <2>2 DEF DeadlineReturns
  <2>3. CASE ClearAndRetry(t)
    BY <2>1, <2>3 DEF ClearAndRetry
  <2> QED
    BY <1>7, <2>2, <2>3 DEF DeadlinePasses
<1> QED
  BY <1>2, <1>3, <1>4, <1>5, <1>6, <1>7 DEF RequestStep

LEMMA BudgetRequest ==
  ASSUME TableShape, TableShape', TableBudget, NEW t \in Requests, RequestStep(t),
         setup \in Setups, UNCHANGED setup
  PROVE  TableBudget'
<1> USE TransactionCommandsDiffer
<1>0. Capacity \in Nat /\ UNCHANGED Capacity
  BY CapacityIsNat DEF Capacity
<1>1. /\ transactionRx \in Seq(TransactionCommands)
      /\ \A u \in Requests : LoneRequest(u)
      /\ IsFiniteSet(Prepared) /\ Cardinality(Prepared) <= Capacity
  BY DEF TableShape, TableBudget
<1>2. ASSUME NEW u \in Requests, u # t
      PROVE  LoneRequest(u)' /\ (u \in Prepared' => u \in Prepared)
  <2>1. request'[u] = request[u]
    BY <1>2, RequestEffects
  <2>2. /\ Single(transactionRx, OfRequest(u)) => Single(transactionRx', OfRequest(u))
        /\ Absent(transactionRx, OfRequest(u)) => Absent(transactionRx', OfRequest(u))
    <3>1. CASE UNCHANGED transactionRx
      BY <3>1
    <3>2. ASSUME NEW c \in OfRequest(t), transactionRx' = Append(transactionRx, c)
          PROVE  /\ Single(transactionRx, OfRequest(u)) => Single(transactionRx', OfRequest(u))
                 /\ Absent(transactionRx, OfRequest(u)) => Absent(transactionRx', OfRequest(u))
      <4>1. c \in TransactionCommands /\ c \notin OfRequest(u)
        BY <1>2, OwnCommands DEF OfRequest
      <4> QED
        BY <1>1, <3>2, <4>1, ChannelAppend
    <3>3. UNCHANGED transactionRx \/ \E c \in OfRequest(t) : transactionRx' = Append(transactionRx, c)
      BY RequestSends, OwnCommands
    <3> QED
      BY <3>1, <3>2, <3>3
  <2> QED
    BY <1>1, <2>1, <2>2, LeasesOfRequests DEF LoneRequest
<1>3. LoneRequest(t)' /\ (t \in Prepared' => t \in Prepared \/ Admits(Prepared))
  <2>1. CASE /\ transactionRx' = Append(transactionRx, Register(t))
             /\ request[t] = "idle" /\ request'[t] = "asked" /\ Admits(Prepared)
    <3>1. Absent(transactionRx, OfRequest(t))
      BY <1>1, <2>1 DEF LoneRequest
    <3>2. Single(transactionRx', OfRequest(t))
      BY <1>1, <2>1, <3>1, ChannelAppend
    <3> QED
      BY <2>1, <3>2 DEF LoneRequest, Pending
  <2>2. CASE /\ transactionRx' = Append(transactionRx, Deregister(t))
             /\ request[t] \in {"answered"} \cup Pending /\ request'[t] = "gone"
    <3>1. Absent(transactionRx, OfRequest(t))
      BY <1>1, <2>2 DEF LoneRequest
    <3>2. Single(transactionRx', OfRequest(t))
      BY <1>1, <2>2, <3>1, ChannelAppend
    <3> QED
      BY <2>2, <3>2, LeasesOfRequests DEF LoneRequest, Pending
  <2>3. CASE /\ UNCHANGED transactionRx /\ request'[t] # "idle"
             /\ request'[t] \in {"answered"} \cup Pending
                  => request[t] \in {"answered"} \cup Pending
    BY <1>1, <2>3, LeasesOfRequests DEF LoneRequest
  <2> QED
    BY <2>1, <2>2, <2>3, RequestSends
<1>4. IsFiniteSet(Prepared') /\ Cardinality(Prepared') <= Capacity
  <2>1. Prepared' \subseteq Requests
    BY DEF Prepared
  <2>2. \/ Prepared' \subseteq Prepared
        \/ Prepared' \subseteq Prepared \cup {t} /\ Cardinality(Prepared) < Capacity
    BY <1>2, <1>3, <2>1 DEF Admits
  <2> QED
    BY <1>0, <1>1, <2>2, AdmittedFit
<1> QED
  BY <1>0, <1>2, <1>3, <1>4 DEF TableBudget

LEMMA BudgetTable ==
  ASSUME TableShape, TableShape', TableBudget, NEW t \in Requests, TableStep(t),
         setup \in Setups, UNCHANGED setup
  PROVE  TableBudget'
<1> USE TransactionCommandsDiffer
<1>0. Capacity \in Nat /\ UNCHANGED Capacity
  BY CapacityIsNat DEF Capacity
<1>1. /\ transactionRx \in Seq(TransactionCommands) /\ transactionRx # <<>>
      /\ Head(transactionRx) \in OfRequest(t)
      /\ \A u \in Requests : LoneRequest(u)
      /\ IsFiniteSet(Prepared) /\ Cardinality(Prepared) <= Capacity
  BY DEF TableShape, TableBudget, TableStep, HandleRegister, HandleDeregister, OfRequest
<1>2. /\ \A u \in Requests \ {t} : request'[u] = request[u]
      /\ \/ transactionRx' = Tail(transactionRx)
         \/ transactionRx' = Append(Tail(transactionRx), Deregister(t)) /\ request'[t] = "gone"
  BY DEF TableShape, TableStep, HandleRegister, HandleDeregister, MoveTo
<1>3. Tail(transactionRx) \in Seq(TransactionCommands)
  BY <1>1, ChannelTail
<1>4. ASSUME NEW u \in Requests, u # t
      PROVE  LoneRequest(u)' /\ (u \in Prepared' => u \in Prepared)
  <2>1. /\ Single(transactionRx, OfRequest(u)) => Single(Tail(transactionRx), OfRequest(u))
        /\ Absent(transactionRx, OfRequest(u)) => Absent(Tail(transactionRx), OfRequest(u))
    BY <1>1, ChannelTail
  <2>2. /\ Single(Tail(transactionRx), OfRequest(u)) => Single(transactionRx', OfRequest(u))
        /\ Absent(Tail(transactionRx), OfRequest(u)) => Absent(transactionRx', OfRequest(u))
    <3> DEFINE longer == Append(Tail(transactionRx), Deregister(t))
    <3>1. Deregister(t) \in TransactionCommands /\ Deregister(t) \notin OfRequest(u)
      BY <1>4, OwnCommands
    <3>2. /\ Single(Tail(transactionRx), OfRequest(u)) => Single(longer, OfRequest(u))
          /\ Absent(Tail(transactionRx), OfRequest(u)) => Absent(longer, OfRequest(u))
      BY <1>3, <3>1, ChannelAppend
    <3>3. transactionRx' = Tail(transactionRx) \/ transactionRx' = longer
      BY <1>2
    <3> HIDE DEF longer
    <3> QED
      BY <3>2, <3>3
  <2>3. request'[u] = request[u]
    BY <1>2, <1>4
  <2> QED
    BY <1>1, <2>1, <2>2, <2>3, LeasesOfRequests DEF LoneRequest
<1>5. LoneRequest(t)' /\ t \in Prepared
  <2>1. Absent(Tail(transactionRx), OfRequest(t)) /\ ~Absent(transactionRx, OfRequest(t))
    BY <1>1, ChannelTail DEF LoneRequest
  <2>2. Single(Tail(transactionRx), OfRequest(t))
    BY <2>1 DEF Absent, Single
  <2>3. Single(Append(Tail(transactionRx), Deregister(t)), OfRequest(t))
    BY <1>3, <2>1, ChannelAppend
  <2> QED
    BY <1>2, <2>1, <2>2, <2>3, LeasesOfRequests DEF LoneRequest, Pending
<1>6. Prepared' \subseteq Prepared
  BY <1>4, <1>5 DEF Prepared
<1>7. IsFiniteSet(Prepared') /\ Cardinality(Prepared') <= Capacity
  BY <1>0, <1>1, <1>6, AdmittedFit
<1> QED
  BY <1>0, <1>4, <1>5, <1>7 DEF TableBudget

LEMMA TableBudgetStep ==
  /\ TableShape /\ TableShape' /\ TableBudget /\ setup \in Setups
  /\ [ReceptionNext]_receptionVars
  => TableBudget'
<1> SUFFICES ASSUME TableShape, TableShape', TableBudget, setup \in Setups,
                    [ReceptionNext]_receptionVars
             PROVE  TableBudget'
  OBVIOUS
<1> DEFINE Same == UNCHANGED <<setup, request, transactionRx>>
<1>1. ASSUME NEW t \in Requests, RequestActs(t) \/ TableActs(t) PROVE TableBudget'
  BY <1>1, BudgetRequest, BudgetTable DEF RequestActs, TableActs
<1>2. ASSUME Same PROVE TableBudget'
  <2>1. Prepared' = Prepared /\ Capacity' = Capacity
    BY <1>2 DEF Prepared, Commanded, Capacity
  <2> QED
    BY <1>2, <2>1 DEF TableBudget, LoneRequest
<1>3. ASSUME NEW s \in Subscribers, SubscriberActs(s) \/ RouterActs(s) PROVE Same
  BY <1>3 DEF SubscriberActs, RouterActs, transactionVars
<1>4. ASSUME NEW frame \in RxFrames, Dispatch(frame) PROVE Same
  BY <1>4 DEF Dispatch, Respond
<1>5. CASE Disconnect \/ Tick \/ CloseAnnounced \/ Close
  <2>1. Same
    BY <1>5 DEF Disconnect, Tick, CloseAnnounced, Announce, Close, CloseReceive,
                TableDisconnected, transactionVars
  <2> QED
    BY <1>2, <2>1
<1>6. CASE End
  <2>1. /\ transactionRx' = <<>> /\ UNCHANGED setup
        /\ \A t \in Requests : request'[t] \in {"answered"} \cup Pending
                                 => request[t] \in {"answered"} \cup Pending
    BY <1>6 DEF End, EndTask, TableEnded, Pending, TableShape
  <2>2. \A t \in Requests : Absent(transactionRx', OfRequest(t)) /\ Single(transactionRx', OfRequest(t))
    BY <2>1 DEF Absent, Single
  <2>3. Prepared' \subseteq Prepared
    <3>1. Prepared' \subseteq Requests
      BY DEF Prepared
    <3> QED
      BY <2>1, <2>2, <3>1, LeasesOfRequests
  <2>4. Capacity \in Nat /\ Capacity' = Capacity
    BY <2>1, CapacityIsNat DEF Capacity
  <2>5. IsFiniteSet(Prepared') /\ Cardinality(Prepared') <= Capacity
    <3>1. IsFiniteSet(Prepared) /\ Cardinality(Prepared) <= Capacity
      BY DEF TableBudget
    <3> QED
      BY <2>3, <2>4, <3>1, AdmittedFit
  <2> QED
    BY <2>2, <2>4, <2>5 DEF TableBudget, LoneRequest
<1>7. CASE UNCHANGED receptionVars
  <2>1. Same
    BY <1>7 DEF receptionVars, transactionVars
  <2> QED
    BY <1>2, <2>1
<1> QED
  BY <1>1, <1>2, <1>3, <1>4, <1>5, <1>6, <1>7 DEF ReceptionNext

LEMMA SetupKept == [ReceptionNext]_receptionVars => UNCHANGED setup
<1> SUFFICES ASSUME [ReceptionNext]_receptionVars PROVE UNCHANGED setup
  OBVIOUS
<1>1. ASSUME NEW s \in Subscribers, SubscriberActs(s) \/ RouterActs(s) PROVE UNCHANGED setup
  BY <1>1 DEF SubscriberActs, RouterActs
<1>2. ASSUME NEW t \in Requests, RequestActs(t) \/ TableActs(t) PROVE UNCHANGED setup
  BY <1>2 DEF RequestActs, TableActs
<1>3. ASSUME NEW frame \in RxFrames, Dispatch(frame) PROVE UNCHANGED setup
  BY <1>3 DEF Dispatch
<1>4. CASE Disconnect \/ Tick \/ CloseAnnounced \/ Close \/ End
  BY <1>4 DEF Disconnect, Tick, CloseAnnounced, Announce, Close, CloseReceive, End, EndTask
<1>5. CASE UNCHANGED receptionVars
  BY <1>5 DEF receptionVars
<1> QED
  BY <1>1, <1>2, <1>3, <1>4, <1>5 DEF ReceptionNext

LEMMA ChannelsFit ==
  ASSUME RouterShape, TableShape, RouterBudget, TableBudget, setup \in Setups
  PROVE  CommandsFitTheBudget
<1>0. Capacity \in Nat
  BY CapacityIsNat
<1>1. Len(routerRx) <= Capacity
  <2> DEFINE owner == [i \in 1..Len(routerRx) |-> routerRx[i].sub]
  <2>1. /\ routerRx \in Seq(RouterCommands) /\ Len(routerRx) \in Nat
        /\ \A i \in 1..Len(routerRx) : routerRx[i] \in RouterCommands
    BY DEF RouterShape
  <2>2. \A c \in RouterCommands : c.sub \in Subscribers /\ c \in OfSubscriber(c.sub)
    BY DEF RouterCommands, OfSubscriber, Subscribe, Unsubscribe
  <2>3. \A i \in 1..Len(routerRx) : routerRx[i].sub \in Subscribed
    BY <2>1, <2>2 DEF Subscribed, Queued
  <2>4. \A i, j \in 1..Len(routerRx) : routerRx[i].sub = routerRx[j].sub => i = j
    BY <2>1, <2>2 DEF RouterBudget, LoneSubscriber, Single
  <2>5. owner \in [1..Len(routerRx) -> Subscribed]
    BY <2>3
  <2>6. \A i, j \in 1..Len(routerRx) : owner[i] = owner[j] => i = j
    BY <2>4
  <2>7. IsFiniteSet(Subscribed) /\ Cardinality(Subscribed) <= Capacity
    BY DEF RouterBudget
  <2> HIDE DEF owner
  <2> QED
    BY <1>0, <2>1, <2>5, <2>6, <2>7, ChannelFits
<1>2. Len(transactionRx) <= Capacity
  <2> DEFINE owner == [i \in 1..Len(transactionRx) |-> transactionRx[i].id]
  <2>1. /\ transactionRx \in Seq(TransactionCommands) /\ Len(transactionRx) \in Nat
        /\ \A i \in 1..Len(transactionRx) : transactionRx[i] \in TransactionCommands
    BY DEF TableShape
  <2>2. \A c \in TransactionCommands : c.id \in Requests /\ c \in OfRequest(c.id)
    BY DEF TransactionCommands, OfRequest, Register, Deregister
  <2>3. \A i \in 1..Len(transactionRx) : transactionRx[i].id \in Prepared
    BY <2>1, <2>2 DEF Prepared, Commanded
  <2>4. \A i, j \in 1..Len(transactionRx) : transactionRx[i].id = transactionRx[j].id => i = j
    BY <2>1, <2>2 DEF TableBudget, LoneRequest, Single
  <2>5. owner \in [1..Len(transactionRx) -> Prepared]
    BY <2>3
  <2>6. \A i, j \in 1..Len(transactionRx) : owner[i] = owner[j] => i = j
    BY <2>4
  <2>7. IsFiniteSet(Prepared) /\ Cardinality(Prepared) <= Capacity
    BY DEF TableBudget
  <2> HIDE DEF owner
  <2> QED
    BY <1>0, <2>1, <2>5, <2>6, <2>7, ChannelFits
<1> QED
  BY <1>1, <1>2 DEF CommandsFitTheBudget

\* The leases of one budget, in both of its uses.
LeasesFit == setup \in Setups /\ RouterBudget /\ TableBudget

\* control.rs 24-66, concepts.md 96-112: both unbounded channels hold no more commands than the
\* budget has leases, however many calls are made, cancelled and dropped.
THEOREM CommandsAlwaysFit == ReceptionSpec => []CommandsFitTheBudget
<1>1. ReceptionInit => LeasesFit
  <2> SUFFICES ASSUME ReceptionInit PROVE LeasesFit
    OBVIOUS
  <2>1. /\ setup \in Setups /\ routerRx = <<>> /\ transactionRx = <<>>
        /\ subscriber = [s \in Subscribers |-> "idle"] /\ request = [t \in Requests |-> "idle"]
    BY DEF ReceptionInit, TaskInit, RouterInit, TransactionInit
  <2>2. Subscribed = {} /\ Prepared = {}
    BY <2>1 DEF Subscribed, Prepared, Queued, Commanded, Holding, Receiving, Pending
  <2>3. IsFiniteSet({}) /\ Cardinality({}) = 0 /\ Capacity \in Nat
    BY <2>1, FS_EmptySet, CapacityIsNat
  <2>4. /\ \A s \in Subscribers : LoneSubscriber(s)
        /\ \A t \in Requests : LoneRequest(t)
    BY <2>1 DEF LoneSubscriber, LoneRequest, Single, Absent
  <2> QED
    BY <2>1, <2>2, <2>3, <2>4 DEF LeasesFit, RouterBudget, TableBudget
<1>2. /\ LeasesFit /\ RouterShape /\ RouterShape' /\ TableShape /\ TableShape'
      /\ [ReceptionNext]_receptionVars
      => LeasesFit'
  BY SetupKept, RouterBudgetStep, TableBudgetStep DEF LeasesFit
<1>3. LeasesFit /\ RouterShape /\ TableShape => CommandsFitTheBudget
  BY ChannelsFit DEF LeasesFit
<1> QED
  BY <1>1, <1>2, <1>3, ShapeInvariance, TableShapeInvariance, PTL DEF ReceptionSpec

-----------------------------------------------------------------------------
(* The answers of a transaction.                                           *)

\* Of the first n signals each is a frame.
OnlyFrames(q, n) == \A i \in 1..n : q[i].signal = "Frame"

\* After `taken` answers of an attempt the buffer goes on with the next ones, up to the limit
\* or to the first signal that is no frame; and as long as there is room below the limit, all
\* that has arrived is in it.
GoesOn(q, taken, attempt, limit) ==
  \A n \in 1..Len(q) :
    OnlyFrames(q, n) /\ taken + n <= limit => q[n] = ResponseFrame(attempt, taken + n)

MissesNone(q, taken, count, limit) ==
  OnlyFrames(q, Len(q)) /\ taken + Len(q) < limit => count = taken + Len(q)

LEMMA SignalKinds ==
  /\ \A s \in Signals : s.signal \in {"Frame", "Rejected", "Disconnected"}
  /\ \A a, n \in Nat : ResponseFrame(a, n) \in Signals /\ ResponseFrame(a, n).signal = "Frame"
  /\ Signal("Rejected") \in Signals /\ Signal("Rejected").signal = "Rejected"
  /\ Signal("Disconnected") \in Signals /\ Signal("Disconnected").signal = "Disconnected"
BY DEF Signals, ResponseFrame, Signal

\* wait_attempt takes the next answer.
LEMMA AnswerTaken ==
  ASSUME NEW q \in Seq(Signals), q # <<>>, Head(q).signal = "Frame",
         NEW taken \in Nat, NEW attempt \in Nat, NEW count \in Nat, NEW limit \in Nat,
         taken < limit, GoesOn(q, taken, attempt, limit), MissesNone(q, taken, count, limit)
  PROVE  /\ Head(q) = ResponseFrame(attempt, taken + 1)
         /\ GoesOn(Tail(q), taken + 1, attempt, limit)
         /\ MissesNone(Tail(q), taken + 1, count, limit)
<1> DEFINE rest == Tail(q)
<1>1. /\ rest \in Seq(Signals) /\ Len(rest) \in Nat /\ Len(q) = Len(rest) + 1
      /\ \A i \in 1..Len(rest) : rest[i] = q[i + 1]
      /\ Head(q) = q[1]
  OBVIOUS
<1> HIDE DEF rest
<1>2. ASSUME NEW n \in 0..Len(rest), OnlyFrames(rest, n) PROVE OnlyFrames(q, n + 1)
  <2> SUFFICES ASSUME NEW i \in 1..(n + 1) PROVE q[i].signal = "Frame"
    BY DEF OnlyFrames
  <2>1. CASE i = 1
    BY <1>1, <2>1
  <2>2. CASE i # 1
    <3>1. i - 1 \in 1..n /\ i - 1 \in 1..Len(rest) /\ (i - 1) + 1 = i
      BY <1>1, <2>2
    <3>2. rest[i - 1] = q[i] /\ rest[i - 1].signal = "Frame"
      BY <1>1, <1>2, <3>1 DEF OnlyFrames
    <3> QED
      BY <3>2
  <2> QED
    BY <2>1, <2>2
<1>3. Head(q) = ResponseFrame(attempt, taken + 1)
  <2>1. OnlyFrames(q, 1) /\ 1 \in 1..Len(q) /\ taken + 1 <= limit
    BY <1>1 DEF OnlyFrames
  <2> QED
    BY <1>1, <2>1 DEF GoesOn
<1>4. GoesOn(rest, taken + 1, attempt, limit)
  <2> SUFFICES ASSUME NEW n \in 1..Len(rest), OnlyFrames(rest, n), (taken + 1) + n <= limit
               PROVE  rest[n] = ResponseFrame(attempt, (taken + 1) + n)
    BY DEF GoesOn
  <2>1. OnlyFrames(q, n + 1) /\ n + 1 \in 1..Len(q) /\ taken + (n + 1) <= limit
    BY <1>1, <1>2
  <2>2. q[n + 1] = ResponseFrame(attempt, taken + (n + 1))
    BY <2>1 DEF GoesOn
  <2>3. taken + (n + 1) = (taken + 1) + n
    BY <1>1
  <2> QED
    BY <1>1, <2>2, <2>3
<1>5. MissesNone(rest, taken + 1, count, limit)
  <2> SUFFICES ASSUME OnlyFrames(rest, Len(rest)), (taken + 1) + Len(rest) < limit
               PROVE  count = (taken + 1) + Len(rest)
    BY DEF MissesNone
  <2>1. OnlyFrames(q, Len(q)) /\ taken + Len(q) < limit
    BY <1>1, <1>2
  <2> QED
    BY <1>1, <2>1 DEF MissesNone
<1> QED
  BY <1>3, <1>4, <1>5 DEF rest

\* dispatch puts the next answer, or something that ends the attempt, behind the others.
LEMMA AnswerPut ==
  ASSUME NEW q \in Seq(Signals), NEW taken \in Nat, NEW attempt \in Nat, NEW count \in Nat,
         NEW limit \in Nat, NEW c \in Signals, NEW counted \in Nat,
         c.signal # "Frame" \/ (c = ResponseFrame(attempt, counted) /\ counted = count + 1),
         GoesOn(q, taken, attempt, limit), MissesNone(q, taken, count, limit)
  PROVE  /\ GoesOn(Append(q, c), taken, attempt, limit)
         /\ MissesNone(Append(q, c), taken, counted, limit)
<1> DEFINE longer == Append(q, c)
<1>1. /\ longer \in Seq(Signals) /\ Len(q) \in Nat /\ Len(longer) = Len(q) + 1
      /\ \A i \in 1..Len(q) : longer[i] = q[i]
      /\ longer[Len(q) + 1] = c
  OBVIOUS
<1> HIDE DEF longer
<1>2. \A n \in 0..Len(q) : OnlyFrames(longer, n) => OnlyFrames(q, n)
  BY <1>1 DEF OnlyFrames
<1>3. OnlyFrames(longer, Len(q) + 1) => c.signal = "Frame" /\ OnlyFrames(q, Len(q))
  BY <1>1 DEF OnlyFrames
<1>4. ASSUME OnlyFrames(longer, Len(q) + 1), taken + (Len(q) + 1) <= limit
      PROVE  c = ResponseFrame(attempt, taken + (Len(q) + 1)) /\ counted = taken + (Len(q) + 1)
  <2>1. c = ResponseFrame(attempt, counted) /\ counted = count + 1
    BY <1>3, <1>4
  <2>2. OnlyFrames(q, Len(q)) /\ taken + Len(q) < limit
    BY <1>1, <1>3, <1>4
  <2>3. count = taken + Len(q)
    BY <2>2 DEF MissesNone
  <2> QED
    BY <1>1, <2>1, <2>3
<1>5. GoesOn(longer, taken, attempt, limit)
  <2> SUFFICES ASSUME NEW n \in 1..Len(longer), OnlyFrames(longer, n), taken + n <= limit
               PROVE  longer[n] = ResponseFrame(attempt, taken + n)
    BY DEF GoesOn
  <2>1. CASE n \in 1..Len(q)
    BY <1>1, <1>2, <2>1 DEF GoesOn
  <2>2. CASE n = Len(q) + 1
    BY <1>1, <1>4, <2>2
  <2> QED
    BY <1>1, <2>1, <2>2
<1>6. MissesNone(longer, taken, counted, limit)
  <2> SUFFICES ASSUME OnlyFrames(longer, Len(longer)), taken + Len(longer) < limit
               PROVE  counted = taken + Len(longer)
    BY DEF MissesNone
  <2>1. taken + (Len(q) + 1) <= limit
    BY <1>1
  <2> QED
    BY <1>1, <1>4, <2>1
<1> QED
  BY <1>5, <1>6 DEF longer

LEMMA NothingMissed ==
  ASSUME NEW attempt \in Nat, NEW limit \in Nat
  PROVE  GoesOn(<<>>, 0, attempt, limit) /\ MissesNone(<<>>, 0, 0, limit)
  BY DEF GoesOn, MissesNone

\* The variables of a transaction but for its place and the channel.
AnswerShape ==
  /\ spec \in [Requests -> ResponseSpecs]
  /\ buffer \in [Requests -> Seq(Signals)]
  /\ overflowed \in [Requests -> Nat]
  /\ frames \in [Requests -> Seq(Signals)]
  /\ retry \in [Requests -> Nat]
  /\ outcome \in [Requests -> Outcomes]
  /\ arrived \in [Requests -> Nat]
  /\ lost \in [Requests -> BOOLEAN]

InBounds(t) ==
  /\ Len(buffer[t]) <= BufferOf(t)
  /\ Len(frames[t]) <= spec[t].limit
  /\ retry[t] <= spec[t].retries

Unregistered(t) ==
  request[t] \in {"idle", "asked", "cancelled"} =>
    /\ t \notin table /\ buffer[t] = <<>> /\ frames[t] = <<>>
    /\ retry[t] = 0 /\ arrived[t] = 0

Whole(t) == \A i \in 1..Len(frames[t]) : frames[t][i] = ResponseFrame(retry[t], i)
Taken(t) == IF request[t] = "waiting" THEN Len(frames[t]) ELSE 0

Collecting(t) ==
  /\ request[t] = "waiting" => Whole(t)
  /\ Awaited(t) => /\ GoesOn(buffer[t], Taken(t), retry[t], spec[t].limit)
                   /\ MissesNone(buffer[t], Taken(t), arrived[t], spec[t].limit)

Answered(t) ==
  /\ InBounds(t) /\ Unregistered(t)
  /\ outcome[t] = "Ok" => request[t] = "gone"
  /\ spec[t].mode # "Window" => Collecting(t) /\ (outcome[t] = "Ok" => Whole(t))

AnswerInv == \A t \in Requests : Answered(t)

LEMMA SpecFacts ==
  ASSUME AnswerShape, NEW t \in Requests
  PROVE  /\ spec[t] \in ResponseSpecs
         /\ spec[t].limit \in Nat \ {0} /\ spec[t].retries \in Nat
         /\ BufferOf(t) \in Nat \ {0}
         /\ spec[t].mode # "Window" => BufferOf(t) = spec[t].limit
         /\ buffer[t] \in Seq(Signals) /\ Len(buffer[t]) \in Nat
         /\ frames[t] \in Seq(Signals) /\ Len(frames[t]) \in Nat
         /\ retry[t] \in Nat /\ arrived[t] \in Nat
  BY TransactionAssumption DEF AnswerShape, BufferOf

\* Whoever a step does not touch.
Untouched(t) ==
  /\ request'[t] = request[t] /\ spec'[t] = spec[t] /\ buffer'[t] = buffer[t]
  /\ frames'[t] = frames[t] /\ retry'[t] = retry[t] /\ outcome'[t] = outcome[t]
  /\ arrived'[t] = arrived[t]
  /\ t \in table' => t \in table

LEMMA UntouchedStays ==
  ASSUME NEW t \in Requests, Answered(t), Untouched(t)
  PROVE  Answered(t)'
<1>1. /\ InBounds(t)' /\ Unregistered(t)'
      /\ outcome'[t] = "Ok" => request'[t] = "gone"
  BY DEF Answered, Untouched, InBounds, BufferOf, Unregistered
<1>2. Whole(t)' <=> Whole(t)
  BY DEF Untouched, Whole
<1>3. Collecting(t)' <=> Collecting(t)
  BY <1>2 DEF Untouched, Collecting, Taken, Awaited
<1> QED
  BY <1>1, <1>2, <1>3 DEF Answered, Untouched

\* A call that returns has let go of its buffer.
LEMMA FinishAnswers ==
  ASSUME AnswerShape, TableShape, NEW t \in Requests, Answered(t), NEW result \in Outcomes,
         request[t] \in {"answered"} \cup Pending, Finish(t, result),
         UNCHANGED <<spec, table, overflowed, retry, arrived, lost>>,
         frames' \in [Requests -> Seq(Signals)], Len(frames'[t]) <= spec[t].limit,
         result = "Ok" /\ spec[t].mode # "Window" => Whole(t)'
  PROVE  AnswerShape' /\ Answered(t)'
<1>1. /\ request'[t] = "gone" /\ outcome'[t] = result /\ buffer'[t] = <<>>
      /\ buffer' = [buffer EXCEPT ![t] = <<>>] /\ outcome' = [outcome EXCEPT ![t] = result]
  BY DEF Finish, MoveTo, SendDeregister, TableShape, AnswerShape
<1>2. AnswerShape'
  <2>1. buffer' \in [Requests -> Seq(Signals)] /\ outcome' \in [Requests -> Outcomes]
    BY <1>1 DEF AnswerShape
  <2> QED
    BY <2>1 DEF AnswerShape
<1>3. InBounds(t)'
  <2>1. BufferOf(t)' = BufferOf(t) /\ Len(buffer'[t]) = 0
    BY <1>1 DEF BufferOf
  <2>2. retry'[t] <= spec'[t].retries
    BY DEF Answered, InBounds
  <2> QED
    BY <2>1, <2>2, SpecFacts DEF InBounds
<1>4. Unregistered(t)' /\ ~Awaited(t)'
  BY <1>1 DEF Unregistered, Awaited, Pending
<1> QED
  BY <1>1, <1>2, <1>3, <1>4 DEF Answered, Collecting

\* What the caller does before and after the collection.
LEMMA CallAnswers ==
  ASSUME AnswerShape, TableShape, NEW t \in Requests, Answered(t),
         \/ AskToPrepare(t) \/ FailToPrepare(t) \/ CancelPrepare(t) \/ TakePending(t)
         \/ BeginAttempt(t) \/ FailToSend(t) \/ DropPending(t) \/ ChannelEnds(t)
  PROVE  AnswerShape' /\ Answered(t)'
<1>0. /\ {"Failed", "Dropped", "Disconnected"} \subseteq Outcomes
      /\ Len(frames[t]) <= spec[t].limit /\ frames \in [Requests -> Seq(Signals)]
  BY DEF Outcomes, Answered, InBounds, AnswerShape
<1>1. CASE AskToPrepare(t)
  <2>1. /\ request[t] = "idle" /\ request'[t] = "asked"
        /\ spec' \in [Requests -> ResponseSpecs]
        /\ UNCHANGED <<table, buffer, overflowed, frames, retry, outcome, arrived, lost>>
    BY <1>1 DEF AskToPrepare, MoveTo, TableShape, AnswerShape
  <2>2. AnswerShape'
    BY <2>1 DEF AnswerShape
  <2>3. /\ t \notin table /\ buffer[t] = <<>> /\ frames[t] = <<>> /\ retry[t] = 0
        /\ arrived[t] = 0 /\ outcome[t] # "Ok"
    BY <2>1 DEF Answered, Unregistered
  <2>4. spec'[t].limit \in Nat /\ spec'[t].retries \in Nat /\ BufferOf(t)' \in Nat
    BY <2>1, TransactionAssumption DEF BufferOf
  <2>5. InBounds(t)' /\ Unregistered(t)'
    BY <2>1, <2>3, <2>4 DEF InBounds, Unregistered
  <2> QED
    BY <2>1, <2>2, <2>3, <2>5 DEF Answered, Collecting, Awaited, Pending
<1>2. CASE FailToPrepare(t) \/ (CancelPrepare(t) /\ request[t] = "asked")
  <2>1. /\ request[t] \in {"idle", "asked"} /\ request'[t] \in {"gone", "cancelled"}
        /\ outcome'[t] \in {"Failed", "Dropped"} /\ outcome' \in [Requests -> Outcomes]
        /\ UNCHANGED <<spec, table, buffer, overflowed, frames, retry, arrived, lost>>
    BY <1>0, <1>2 DEF FailToPrepare, CancelPrepare, MoveTo, TableShape, AnswerShape
  <2>2. AnswerShape'
    BY <2>1 DEF AnswerShape
  <2>3. InBounds(t)' /\ Unregistered(t)'
    BY <2>1 DEF Answered, InBounds, Unregistered, BufferOf
  <2> QED
    BY <2>1, <2>2, <2>3 DEF Answered, Collecting, Awaited, Pending
<1>3. CASE TakePending(t)
  <2>1. /\ request[t] = "answered" /\ request'[t] = "sending"
        /\ UNCHANGED <<spec, table, buffer, overflowed, frames, retry, outcome, arrived, lost>>
    BY <1>3 DEF TakePending, MoveTo, TableShape
  <2>2. AnswerShape'
    BY <2>1 DEF AnswerShape
  <2>3. InBounds(t)' /\ Unregistered(t)'
    BY <2>1 DEF Answered, InBounds, Unregistered, BufferOf
  <2> QED
    BY <2>1, <2>2, <2>3 DEF Answered, Collecting, Awaited, Pending, Taken
<1>4. CASE BeginAttempt(t)
  <2>1. /\ request[t] = "sending" /\ request'[t] = "waiting" /\ frames'[t] = <<>>
        /\ frames' \in [Requests -> Seq(Signals)]
        /\ UNCHANGED <<spec, table, buffer, overflowed, retry, outcome, arrived, lost>>
    BY <1>4 DEF BeginAttempt, MoveTo, TableShape, AnswerShape
  <2>2. AnswerShape'
    BY <2>1 DEF AnswerShape
  <2>3. InBounds(t)' /\ Unregistered(t)'
    <3>1. Len(frames'[t]) = 0 /\ spec[t].limit \in Nat
      BY <2>1, SpecFacts
    <3> QED
      BY <2>1, <3>1 DEF Answered, InBounds, Unregistered, BufferOf
  <2>4. Taken(t) = 0 /\ Taken(t)' = 0 /\ Whole(t)'
    BY <2>1 DEF Taken, Whole
  <2> QED
    BY <2>1, <2>2, <2>3, <2>4 DEF Answered, Collecting, Awaited, Pending
<1>5. CASE \/ (CancelPrepare(t) /\ request[t] = "answered")
           \/ FailToSend(t) \/ DropPending(t) \/ ChannelEnds(t)
  <2>1. PICK result \in {"Failed", "Dropped", "Disconnected"} : Finish(t, result)
    BY <1>5 DEF CancelPrepare, FailToSend, DropPending, ChannelEnds
  <2>2. /\ UNCHANGED <<spec, table, overflowed, frames, retry, arrived, lost>>
        /\ request[t] \in {"answered"} \cup Pending
    BY <1>5 DEF CancelPrepare, FailToSend, DropPending, ChannelEnds, Pending
  <2> QED
    BY <1>0, <2>1, <2>2, FinishAnswers
<1> QED
  BY <1>1, <1>2, <1>3, <1>4, <1>5 DEF CancelPrepare

\* wait_attempt takes a signal: the next answer, or what ends it.
LEMMA ReceiveAnswers ==
  ASSUME AnswerShape, TableShape, NEW t \in Requests, Answered(t), ReceiveSignal(t)
  PROVE  AnswerShape' /\ Answered(t)'
<1>1. /\ request[t] = "waiting" /\ buffer[t] # <<>> /\ request[t] \in {"answered"} \cup Pending
      /\ UNCHANGED <<spec, table, overflowed, retry, arrived, lost>>
  BY DEF ReceiveSignal, Pending
<1>2. /\ Head(buffer[t]) \in Signals /\ Tail(buffer[t]) \in Seq(Signals)
      /\ Len(Tail(buffer[t])) <= Len(buffer[t]) /\ Len(Tail(buffer[t])) \in Nat
  BY <1>1, SpecFacts
<1>3. /\ Len(frames[t]) <= spec[t].limit /\ frames \in [Requests -> Seq(Signals)]
      /\ {"Ok", "Rejected", "Disconnected", "ResponseLimitExceeded"} \subseteq Outcomes
  BY DEF Answered, InBounds, AnswerShape, Outcomes
<1>4. CASE UNCHANGED frames /\ \E result \in Outcomes \ {"Ok"} : Finish(t, result)
  BY <1>1, <1>3, <1>4, FinishAnswers
<1>5. CASE CollectFrame(t)
  <2>1. /\ Head(buffer[t]).signal = "Frame" /\ Len(frames[t]) < spec[t].limit
        /\ frames' = [frames EXCEPT ![t] = Append(@, Head(buffer[t]))]
    BY <1>5 DEF CollectFrame
  <2>2. /\ frames' \in [Requests -> Seq(Signals)]
        /\ frames'[t] = Append(frames[t], Head(buffer[t]))
    BY <1>2, <1>3, <2>1
  <2>3. /\ Len(frames'[t]) = Len(frames[t]) + 1 /\ Len(frames[t]) \in Nat
        /\ Len(frames'[t]) <= spec[t].limit
        /\ \A i \in 1..Len(frames[t]) : frames'[t][i] = frames[t][i]
        /\ frames'[t][Len(frames[t]) + 1] = Head(buffer[t])
    BY <1>2, <2>1, <2>2, SpecFacts
  <2>4. ASSUME spec[t].mode # "Window"
        PROVE  /\ Whole(t)'
               /\ GoesOn(Tail(buffer[t]), Len(frames'[t]), retry[t], spec[t].limit)
               /\ MissesNone(Tail(buffer[t]), Len(frames'[t]), arrived[t], spec[t].limit)
    <3>1. /\ GoesOn(buffer[t], Len(frames[t]), retry[t], spec[t].limit)
          /\ MissesNone(buffer[t], Len(frames[t]), arrived[t], spec[t].limit)
          /\ Whole(t)
      BY <1>1, <2>4 DEF Answered, Collecting, Taken, Awaited
    <3>2. /\ Head(buffer[t]) = ResponseFrame(retry[t], Len(frames[t]) + 1)
          /\ GoesOn(Tail(buffer[t]), Len(frames[t]) + 1, retry[t], spec[t].limit)
          /\ MissesNone(Tail(buffer[t]), Len(frames[t]) + 1, arrived[t], spec[t].limit)
      BY <1>1, <2>1, <3>1, AnswerTaken, SpecFacts
    <3>3. Whole(t)'
      <4> SUFFICES ASSUME NEW i \in 1..Len(frames'[t]) PROVE frames'[t][i] = ResponseFrame(retry[t], i)
        BY <1>1 DEF Whole
      <4>1. CASE i \in 1..Len(frames[t])
        BY <2>3, <3>1, <4>1 DEF Whole
      <4>2. CASE i = Len(frames[t]) + 1
        BY <2>3, <3>2, <4>2
      <4> QED
        BY <2>3, <4>1, <4>2
    <3> QED
      BY <2>3, <3>2, <3>3
  <2>5. CASE Collected(t) /\ Finish(t, "Ok")
    BY <1>1, <1>3, <2>2, <2>3, <2>4, <2>5, FinishAnswers
  <2>6. CASE ~Collected(t) /\ buffer' = [buffer EXCEPT ![t] = Tail(@)]
             /\ UNCHANGED <<request, outcome, transactionRx>>
    <3>1. buffer'[t] = Tail(buffer[t]) /\ buffer' \in [Requests -> Seq(Signals)]
      BY <1>2, <2>6 DEF AnswerShape
    <3>2. AnswerShape'
      BY <1>1, <2>2, <2>6, <3>1 DEF AnswerShape
    <3>3. InBounds(t)'
      <4>1. Len(buffer[t]) <= BufferOf(t) /\ retry[t] <= spec[t].retries
        BY DEF Answered, InBounds
      <4>2. BufferOf(t)' = BufferOf(t) /\ BufferOf(t) \in Nat /\ Len(buffer[t]) \in Nat
        BY <1>1, SpecFacts DEF BufferOf
      <4>3. Len(buffer'[t]) <= BufferOf(t)
        BY <1>2, <3>1, <4>1, <4>2
      <4> QED
        BY <1>1, <2>3, <4>1, <4>2, <4>3 DEF InBounds
    <3>4. Unregistered(t)' /\ (outcome'[t] = "Ok" => request'[t] = "gone")
      BY <1>1, <2>6 DEF Answered, Unregistered
    <3>5. spec'[t].mode # "Window" => Collecting(t)' /\ (outcome'[t] = "Ok" => Whole(t)')
      BY <1>1, <2>4, <2>6, <3>1 DEF Collecting, Taken
    <3> QED
      BY <3>2, <3>3, <3>4, <3>5 DEF Answered
  <2> QED
    BY <1>5, <2>5, <2>6 DEF CollectFrame
<1>6. CASE Head(buffer[t]).signal = "Frame" /\ Finish(t, "ResponseLimitExceeded") /\ UNCHANGED frames
  BY <1>3, <1>4, <1>6
<1>7. CASE Head(buffer[t]).signal # "Frame" /\ Finish(t, Head(buffer[t]).signal) /\ UNCHANGED frames
  <2>1. Head(buffer[t]).signal \in Outcomes \ {"Ok"}
    BY <1>2, <1>3, <1>7, SignalKinds
  <2> QED
    BY <1>4, <1>7, <2>1
<1> QED
  BY <1>5, <1>6, <1>7 DEF ReceiveSignal

\* The deadline ends the attempt: the call returns, or begins again with an empty buffer.
LEMMA DeadlineAnswers ==
  ASSUME AnswerShape, TableShape, NEW t \in Requests, Answered(t), DeadlinePasses(t)
  PROVE  AnswerShape' /\ Answered(t)'
<1>1. /\ request[t] = "waiting" /\ request[t] \in {"answered"} \cup Pending
      /\ UNCHANGED <<spec, table, overflowed, frames, lost>>
  BY DEF DeadlinePasses, Pending
<1>2. CASE DeadlineReturns(t)
  <2>1. /\ Len(frames[t]) <= spec[t].limit /\ frames \in [Requests -> Seq(Signals)]
        /\ {"Ok", "Timeout"} \subseteq Outcomes
    BY DEF Answered, InBounds, AnswerShape, Outcomes
  <2>2. PICK result \in {"Ok", "Timeout"} :
          Finish(t, result) /\ (result = "Ok" => spec[t].mode = "Window")
    BY <1>2 DEF DeadlineReturns
  <2>3. UNCHANGED <<retry, arrived>>
    BY <1>2 DEF DeadlineReturns
  <2> QED
    BY <1>1, <2>1, <2>2, <2>3, FinishAnswers
<1>3. CASE ClearAndRetry(t)
  <2>1. /\ retry[t] < spec[t].retries
        /\ retry' = [retry EXCEPT ![t] = @ + 1] /\ buffer' = [buffer EXCEPT ![t] = <<>>]
        /\ arrived' = [arrived EXCEPT ![t] = 0] /\ request' = [request EXCEPT ![t] = "sending"]
        /\ UNCHANGED outcome
    BY <1>3 DEF ClearAndRetry, Cleared, MoveTo
  <2>2. /\ retry'[t] = retry[t] + 1 /\ buffer'[t] = <<>> /\ arrived'[t] = 0
        /\ request'[t] = "sending" /\ retry'[t] \in Nat
    BY <2>1, SpecFacts DEF AnswerShape, TableShape
  <2>3. AnswerShape'
    <3>1. /\ retry' \in [Requests -> Nat] /\ buffer' \in [Requests -> Seq(Signals)]
          /\ arrived' \in [Requests -> Nat]
      BY <2>1 DEF AnswerShape
    <3> QED
      BY <1>1, <2>1, <3>1 DEF AnswerShape
  <2>4. InBounds(t)'
    <3>1. BufferOf(t)' = BufferOf(t) /\ Len(buffer'[t]) = 0 /\ retry'[t] <= spec[t].retries
      BY <1>1, <2>1, <2>2, SpecFacts DEF BufferOf
    <3> QED
      BY <1>1, <3>1, SpecFacts DEF Answered, InBounds
  <2>5. Unregistered(t)' /\ outcome'[t] # "Ok"
    BY <1>1, <2>1, <2>2 DEF Answered, Unregistered
  <2>6. Collecting(t)'
    <3>1. Taken(t)' = 0
      BY <2>2 DEF Taken
    <3> QED
      BY <1>1, <2>2, <3>1, NothingMissed, SpecFacts DEF Collecting
  <2> QED
    BY <2>3, <2>4, <2>5, <2>6 DEF Answered
<1> QED
  BY <1>2, <1>3 DEF DeadlinePasses

LEMMA RequestOthers ==
  ASSUME AnswerShape, TableShape, NEW t \in Requests, RequestStep(t)
  PROVE  \A u \in Requests \ {t} : Untouched(u)
<1> SUFFICES ASSUME NEW u \in Requests \ {t} PROVE Untouched(u)
  OBVIOUS
<1> USE DEF Untouched, AnswerShape, TableShape, MoveTo, Finish, SendDeregister
<1>1. CASE AskToPrepare(t) \/ FailToPrepare(t) \/ TakePending(t) \/ BeginAttempt(t)
  BY <1>1 DEF AskToPrepare, FailToPrepare, TakePending, BeginAttempt
<1>2. CASE CancelPrepare(t)
  BY <1>2 DEF CancelPrepare
<1>3. CASE FailToSend(t) \/ DropPending(t) \/ ChannelEnds(t)
  BY <1>3 DEF FailToSend, DropPending, ChannelEnds
<1>4. CASE ReceiveSignal(t)
  <2>1. CASE CollectFrame(t)
    BY <1>4, <2>1 DEF ReceiveSignal, CollectFrame
  <2>2. CASE UNCHANGED frames /\ \E result : Finish(t, result)
    BY <1>4, <2>2 DEF ReceiveSignal
  <2> QED
    BY <1>4, <2>1, <2>2 DEF ReceiveSignal
<1>5. CASE DeadlinePasses(t)
  <2>1. CASE DeadlineReturns(t)
    BY <1>5, <2>1 DEF DeadlinePasses, DeadlineReturns
  <2>2. CASE ClearAndRetry(t)
    BY <1>5, <2>2 DEF DeadlinePasses, ClearAndRetry, Cleared
  <2> QED
    BY <1>5, <2>1, <2>2 DEF DeadlinePasses
<1> QED
  BY <1>1, <1>2, <1>3, <1>4, <1>5 DEF RequestStep

LEMMA RequestAnswers ==
  ASSUME AnswerShape, TableShape, AnswerInv, NEW t \in Requests, RequestStep(t)
  PROVE  AnswerShape' /\ AnswerInv'
<1>1. Answered(t)
  BY DEF AnswerInv
<1>2. AnswerShape' /\ Answered(t)'
  BY <1>1, CallAnswers, ReceiveAnswers, DeadlineAnswers DEF RequestStep
<1>3. \A u \in Requests \ {t} : Answered(u)'
  BY RequestOthers, UntouchedStays DEF AnswerInv
<1> QED
  BY <1>2, <1>3 DEF AnswerInv

\* A slot is given to a call that has an empty buffer, and has counted nothing.
LEMMA TableAnswers ==
  ASSUME AnswerShape, TableShape, AnswerInv, NEW t \in Requests, TableStep(t)
  PROVE  AnswerShape' /\ AnswerInv'
<1>1. /\ UNCHANGED <<spec, buffer, overflowed, frames, retry, arrived, lost>>
      /\ outcome' \in [Requests -> Outcomes]
      /\ \A u \in Requests \ {t} :
           /\ request'[u] = request[u] /\ outcome'[u] = outcome[u]
           /\ u \in table' => u \in table
      /\ \/ request'[t] = request[t] /\ outcome'[t] = outcome[t] /\ (t \in table' => t \in table)
         \/ /\ request[t] = "asked" /\ request'[t] = "gone"
            /\ outcome'[t] \in {"Failed", "Dropped"}
         \/ /\ request[t] = "asked" /\ request'[t] = "answered"
            /\ UNCHANGED outcome
  BY DEF TableStep, HandleRegister, HandleDeregister, MoveTo, AnswerShape, TableShape, Outcomes
<1>2. AnswerShape'
  BY <1>1 DEF AnswerShape
<1>3. \A u \in Requests \ {t} : Answered(u)'
  BY <1>1, UntouchedStays DEF AnswerInv, Untouched
<1>4. Answered(t)'
  <2>1. CASE request'[t] = request[t] /\ outcome'[t] = outcome[t] /\ (t \in table' => t \in table)
    BY <1>1, <2>1, UntouchedStays DEF AnswerInv, Untouched
  <2>2. InBounds(t)'
    BY <1>1 DEF AnswerInv, Answered, InBounds, BufferOf
  <2>3. CASE request'[t] = "gone" /\ outcome'[t] \in {"Failed", "Dropped"}
    BY <2>2, <2>3 DEF Answered, Unregistered, Collecting, Awaited, Pending
  <2>4. CASE request[t] = "asked" /\ request'[t] = "answered" /\ UNCHANGED outcome
    <3>1. buffer'[t] = <<>> /\ arrived'[t] = 0 /\ outcome'[t] # "Ok"
      BY <1>1, <2>4 DEF AnswerInv, Answered, Unregistered
    <3>2. Unregistered(t)' /\ Taken(t)' = 0
      BY <2>4 DEF Unregistered, Taken
    <3>3. Collecting(t)'
      <4>1. retry'[t] \in Nat /\ spec'[t].limit \in Nat
        BY <1>1, SpecFacts
      <4> QED
        BY <2>4, <3>1, <3>2, <4>1, NothingMissed DEF Collecting
    <3> QED
      BY <2>2, <2>4, <3>1, <3>2, <3>3 DEF Answered
  <2> QED
    BY <1>1, <2>1, <2>3, <2>4
<1> QED
  BY <1>2, <1>3, <1>4 DEF AnswerInv

\* What a dispatched frame, or the loss of the connection, does to one transaction: nothing,
\* an answer that is put or finds no room, a signal that ends the attempt.
Put(t, signal) ==
  /\ t \in table /\ Awaited(t) /\ HasSpace(t)
  /\ buffer'[t] = Append(buffer[t], signal)

Told(t) ==
  /\ request'[t] = request[t] /\ spec'[t] = spec[t] /\ frames'[t] = frames[t]
  /\ retry'[t] = retry[t] /\ outcome'[t] = outcome[t] /\ (t \in table' => t \in table)
  /\ \/ buffer'[t] = buffer[t] /\ arrived'[t] = arrived[t]
     \/ /\ t \in table /\ (~Awaited(t) \/ ~HasSpace(t))
        /\ buffer'[t] = buffer[t] /\ arrived'[t] = arrived[t] + 1
     \/ /\ Put(t, ResponseFrame(retry[t], arrived'[t])) /\ arrived'[t] = arrived[t] + 1
     \/ /\ arrived'[t] \in Nat
        /\ Put(t, Signal("Rejected")) \/ Put(t, Signal("Disconnected"))

LEMMA ToldAnswers ==
  ASSUME AnswerShape, NEW t \in Requests, Answered(t), Told(t)
  PROVE  Answered(t)' /\ buffer'[t] \in Seq(Signals) /\ arrived'[t] \in Nat
<1>0. /\ request'[t] = request[t] /\ spec'[t] = spec[t] /\ frames'[t] = frames[t]
      /\ retry'[t] = retry[t] /\ outcome'[t] = outcome[t] /\ (t \in table' => t \in table)
      /\ BufferOf(t)' = BufferOf(t) /\ Taken(t)' = Taken(t) /\ Awaited(t)' = Awaited(t)
      /\ Whole(t)' = Whole(t)
  BY DEF Told, BufferOf, Taken, Awaited, Whole
<1>1. Taken(t) \in Nat
  BY SpecFacts DEF Taken
<1>2. CASE buffer'[t] = buffer[t] /\ arrived'[t] = arrived[t]
  BY <1>0, <1>2, UntouchedStays, SpecFacts DEF Untouched
<1>3. CASE /\ t \in table /\ (~Awaited(t) \/ ~HasSpace(t))
           /\ buffer'[t] = buffer[t] /\ arrived'[t] = arrived[t] + 1
  <2>1. arrived'[t] \in Nat /\ buffer'[t] \in Seq(Signals)
    BY <1>3, SpecFacts
  <2>2. InBounds(t)' /\ Unregistered(t)' /\ (outcome'[t] = "Ok" => request'[t] = "gone")
    BY <1>0, <1>3 DEF Answered, InBounds, Unregistered
  <2>3. ASSUME spec[t].mode # "Window", Awaited(t)
        PROVE  MissesNone(buffer[t], Taken(t), arrived'[t], spec[t].limit)
    <3>1. Len(buffer[t]) >= spec[t].limit
      BY <1>3, <2>3, SpecFacts DEF HasSpace
    <3>2. ~(Taken(t) + Len(buffer[t]) < spec[t].limit)
      BY <1>1, <3>1, SpecFacts
    <3> QED
      BY <3>2 DEF MissesNone
  <2>4. spec'[t].mode # "Window" => Collecting(t)' /\ (outcome'[t] = "Ok" => Whole(t)')
    BY <1>0, <1>3, <2>3 DEF Answered, Collecting
  <2> QED
    BY <2>1, <2>2, <2>4 DEF Answered
<1>4. ASSUME NEW signal \in Signals, Put(t, signal), arrived'[t] \in Nat,
             signal.signal # "Frame"
               \/ (signal = ResponseFrame(retry[t], arrived'[t]) /\ arrived'[t] = arrived[t] + 1)
      PROVE  Answered(t)' /\ buffer'[t] \in Seq(Signals) /\ arrived'[t] \in Nat
  <2>1. /\ buffer'[t] \in Seq(Signals) /\ Len(buffer'[t]) = Len(buffer[t]) + 1
        /\ buffer'[t] = Append(buffer[t], signal) /\ t \in table
    BY <1>4, SpecFacts DEF Put
  <2>2. InBounds(t)'
    <3>1. Len(buffer'[t]) <= BufferOf(t)
      BY <1>4, <2>1, SpecFacts DEF Put, HasSpace
    <3> QED
      BY <1>0, <3>1 DEF Answered, InBounds
  <2>3. Unregistered(t)' /\ (outcome'[t] = "Ok" => request'[t] = "gone")
    BY <1>0, <2>1 DEF Answered, Unregistered
  <2>4. ASSUME spec[t].mode # "Window", Awaited(t)
        PROVE  /\ GoesOn(buffer'[t], Taken(t), retry[t], spec[t].limit)
               /\ MissesNone(buffer'[t], Taken(t), arrived'[t], spec[t].limit)
    <3>1. /\ GoesOn(buffer[t], Taken(t), retry[t], spec[t].limit)
          /\ MissesNone(buffer[t], Taken(t), arrived[t], spec[t].limit)
      BY <2>4 DEF Answered, Collecting
    <3>2. /\ buffer[t] \in Seq(Signals) /\ retry[t] \in Nat /\ arrived[t] \in Nat
          /\ spec[t].limit \in Nat
      BY SpecFacts
    <3>3. /\ GoesOn(Append(buffer[t], signal), Taken(t), retry[t], spec[t].limit)
          /\ MissesNone(Append(buffer[t], signal), Taken(t), arrived'[t], spec[t].limit)
      BY <1>1, <1>4, <3>1, <3>2, AnswerPut
    <3> QED
      BY <2>1, <3>3
  <2>5. spec'[t].mode # "Window" => Collecting(t)' /\ (outcome'[t] = "Ok" => Whole(t)')
    BY <1>0, <2>4 DEF Answered, Collecting
  <2> QED
    BY <1>4, <2>1, <2>2, <2>3, <2>5 DEF Answered
<1>5. CASE Put(t, ResponseFrame(retry[t], arrived'[t])) /\ arrived'[t] = arrived[t] + 1
  <2>1. arrived'[t] \in Nat /\ ResponseFrame(retry[t], arrived'[t]) \in Signals
    BY <1>5, SpecFacts, SignalKinds
  <2> QED
    BY <1>4, <1>5, <2>1
<1>6. CASE arrived'[t] \in Nat /\ (Put(t, Signal("Rejected")) \/ Put(t, Signal("Disconnected")))
  BY <1>4, <1>6, SignalKinds
<1> QED
  BY <1>2, <1>3, <1>5, <1>6 DEF Told

\* TransactionTable::dispatch, one slot at a time.
LEMMA RespondTells ==
  ASSUME AnswerShape, NEW frame, Respond(frame)
  PROVE  /\ \A t \in Requests : Told(t)
         /\ table' \subseteq table
         /\ buffer' = [t \in Requests |-> buffer'[t]]
         /\ arrived' = [t \in Requests |-> arrived'[t]]
         /\ overflowed' \in [Requests -> Nat]
         /\ UNCHANGED <<request, spec, frames, retry, outcome, lost>>
<1> DEFINE accepted == {t \in table : frame.id \in spec[t].accept}
           refused  == {t \in table : frame.id \in spec[t].reject}
           taken    == {t \in accepted \cup refused : Awaited(t) /\ HasSpace(t)}
           full     == {t \in accepted \cup refused : Awaited(t) /\ ~HasSpace(t)}
<1>1. /\ table' = {t \in table : t \in accepted \cup refused => StaysAfter(t)}
      /\ arrived' = [t \in Requests |-> arrived[t] + (IF t \in accepted THEN 1 ELSE 0)]
      /\ buffer' = [t \in Requests |->
                      IF t \notin taken THEN buffer[t]
                      ELSE Append(buffer[t], IF t \in refused THEN Signal("Rejected")
                                             ELSE ResponseFrame(retry[t], arrived'[t]))]
      /\ overflowed' = [t \in Requests |-> overflowed[t] + (IF t \in full THEN 1 ELSE 0)]
      /\ UNCHANGED <<request, spec, transactionRx, frames, retry, outcome, lost>>
  BY Zenon DEF Respond
<1>2. overflowed' \in [Requests -> Nat]
  BY <1>1 DEF AnswerShape
<1>3. ASSUME NEW t \in Requests PROVE Told(t)
  <2>0. /\ arrived'[t] = arrived[t] + (IF t \in accepted THEN 1 ELSE 0) /\ arrived'[t] \in Nat
        /\ t \notin taken => buffer'[t] = buffer[t]
        /\ t \in taken /\ t \in refused => buffer'[t] = Append(buffer[t], Signal("Rejected"))
        /\ t \in taken /\ t \notin refused
             => buffer'[t] = Append(buffer[t], ResponseFrame(retry[t], arrived'[t]))
    BY <1>1, SpecFacts
  <2>1. CASE t \notin taken /\ t \notin accepted
    BY <1>1, <2>0, <2>1, SpecFacts DEF Told
  <2>2. CASE t \notin taken /\ t \in accepted
    BY <1>1, <2>0, <2>2 DEF Told
  <2>3. CASE t \in taken /\ t \in refused
    BY <1>1, <2>0, <2>3 DEF Told, Put
  <2>4. CASE t \in taken /\ t \notin refused
    BY <1>1, <2>0, <2>4 DEF Told, Put
  <2> QED
    BY <2>1, <2>2, <2>3, <2>4
<1> QED
  BY <1>1, <1>2, <1>3

LEMMA RespondAnswers ==
  ASSUME AnswerShape, AnswerInv, NEW frame, Respond(frame)
  PROVE  AnswerShape' /\ AnswerInv'
<1>1. \A t \in Requests : Answered(t)' /\ buffer'[t] \in Seq(Signals) /\ arrived'[t] \in Nat
  BY RespondTells, ToldAnswers DEF AnswerInv
<1>2. AnswerShape'
  BY <1>1, RespondTells DEF AnswerShape
<1> QED
  BY <1>1, <1>2 DEF AnswerInv

\* disconnect_all tells whom it can.
LEMMA DisconnectAnswers ==
  ASSUME AnswerShape, AnswerInv, TableDisconnected
  PROVE  AnswerShape' /\ AnswerInv'
<1>1. /\ table' = {} /\ lost' \in [Requests -> BOOLEAN]
      /\ buffer' = [t \in Requests |->
                      IF t \in table /\ Awaited(t) /\ HasSpace(t)
                      THEN Append(buffer[t], Signal("Disconnected")) ELSE buffer[t]]
      /\ UNCHANGED <<request, spec, overflowed, frames, retry, outcome, arrived>>
  BY DEF TableDisconnected, DisconnectAll, AnswerShape
<1>2. ASSUME NEW t \in Requests PROVE Told(t)
  BY <1>1, SpecFacts DEF Told, Put
<1>3. \A t \in Requests : Answered(t)' /\ buffer'[t] \in Seq(Signals) /\ arrived'[t] \in Nat
  BY <1>2, ToldAnswers DEF AnswerInv
<1>4. AnswerShape'
  BY <1>1, <1>3 DEF AnswerShape
<1> QED
  BY <1>3, <1>4 DEF AnswerInv

\* With the task the commands end that were not handled.
LEMMA EndAnswers ==
  ASSUME AnswerShape, TableShape, AnswerInv, TableEnded
  PROVE  AnswerShape' /\ AnswerInv'
<1>1. /\ table' = {} /\ lost' \in [Requests -> BOOLEAN] /\ outcome' \in [Requests -> Outcomes]
      /\ \A t \in Requests :
           IF request[t] = "asked" THEN request'[t] = "gone" /\ outcome'[t] = "Failed"
           ELSE request'[t] = request[t] /\ outcome'[t] = outcome[t]
      /\ UNCHANGED <<spec, buffer, overflowed, frames, retry, arrived>>
  BY DEF TableEnded, AnswerShape, Outcomes
<1>2. AnswerShape'
  BY <1>1 DEF AnswerShape
<1>3. ASSUME NEW t \in Requests PROVE Answered(t)'
  <2>1. CASE request[t] # "asked"
    BY <1>1, <2>1, UntouchedStays DEF AnswerInv, Untouched
  <2>2. CASE request[t] = "asked"
    <3>1. InBounds(t)'
      BY <1>1 DEF AnswerInv, Answered, InBounds, BufferOf
    <3> QED
      BY <1>1, <2>2, <3>1 DEF Answered, Unregistered, Collecting, Awaited, Pending
  <2> QED
    BY <2>1, <2>2
<1> QED
  BY <1>2, <1>3 DEF AnswerInv

LEMMA AnswerStep ==
  /\ AnswerShape /\ TableShape /\ AnswerInv /\ [ReceptionNext]_receptionVars
  => AnswerShape' /\ AnswerInv'
<1> SUFFICES ASSUME AnswerShape, TableShape, AnswerInv, [ReceptionNext]_receptionVars
             PROVE  AnswerShape' /\ AnswerInv'
  OBVIOUS
<1>1. ASSUME NEW t \in Requests, RequestActs(t) \/ TableActs(t) PROVE AnswerShape' /\ AnswerInv'
  BY <1>1, RequestAnswers, TableAnswers DEF RequestActs, TableActs
<1>2. ASSUME NEW frame \in RxFrames, Dispatch(frame) PROVE AnswerShape' /\ AnswerInv'
  BY <1>2, RespondAnswers DEF Dispatch
<1>3. CASE Disconnect \/ Close
  BY <1>3, DisconnectAnswers DEF Disconnect, Close
<1>4. CASE End
  BY <1>4, EndAnswers DEF End
<1>5. CASE UNCHANGED transactionVars
  <2>1. AnswerShape'
    BY <1>5 DEF transactionVars, AnswerShape
  <2>2. \A t \in Requests : Untouched(t)
    BY <1>5 DEF transactionVars, Untouched
  <2> QED
    BY <2>1, <2>2, UntouchedStays DEF AnswerInv
<1>6. ASSUME NEW s \in Subscribers, SubscriberActs(s) \/ RouterActs(s) PROVE UNCHANGED transactionVars
  BY <1>6 DEF SubscriberActs, RouterActs
<1>7. CASE Tick \/ CloseAnnounced \/ UNCHANGED receptionVars
  <2>1. UNCHANGED transactionVars
    BY <1>7 DEF Tick, CloseAnnounced, receptionVars
  <2> QED
    BY <1>5, <2>1
<1> QED
  BY <1>1, <1>2, <1>3, <1>4, <1>5, <1>6, <1>7 DEF ReceptionNext

LEMMA AnswerInvariance == ReceptionSpec => [](AnswerShape /\ AnswerInv)
<1>1. ReceptionInit => AnswerShape /\ AnswerInv
  <2> SUFFICES ASSUME ReceptionInit PROVE AnswerShape /\ AnswerInv
    OBVIOUS
  <2>1. (CHOOSE r \in ResponseSpecs : TRUE) \in ResponseSpecs
    BY TransactionAssumption
  <2>2. AnswerShape
    BY <2>1 DEF ReceptionInit, TransactionInit, AnswerShape, Outcomes
  <2>3. ASSUME NEW t \in Requests PROVE Answered(t)
    <3>1. /\ request[t] = "idle" /\ buffer[t] = <<>> /\ frames[t] = <<>> /\ retry[t] = 0
          /\ arrived[t] = 0 /\ outcome[t] = "none" /\ t \notin table
      BY DEF ReceptionInit, TransactionInit
    <3>2. InBounds(t)
      BY <2>2, <3>1, SpecFacts DEF InBounds
    <3> QED
      BY <3>1, <3>2 DEF Answered, Unregistered, Collecting, Awaited, Pending
  <2> QED
    BY <2>2, <2>3 DEF AnswerInv
<1> QED
  BY <1>1, AnswerStep, TableShapeInvariance, PTL DEF ReceptionSpec

\* transaction.rs 352-443, 494-541: First and Exactly return the first answers of the last attempt,
\* in the order of arrival, without a gap and without one of an attempt that timed out, whatever is
\* dispatched, rejected or lost meanwhile; for any number of transactions, limit and retries.
THEOREM AnswersAlwaysWhole == ReceptionSpec => []AnswersHaveNoGap
<1>1. AnswerInv => AnswersHaveNoGap
  BY DEF AnswerInv, Answered, Collecting, Whole, AnswersHaveNoGap
<1> QED
  BY <1>1, AnswerInvariance, PTL

-----------------------------------------------------------------------------
(* The bounds of the queues and of the table, and every other variable.    *)

QueuesFit == \A s \in Subscribers : Len(queue[s]) <= config[s].capacity

\* A full queue lets nothing in, or lets the oldest out.
LEMMA QueuesFitRoute ==
  ASSUME RouterShape, QueuesFit, NEW frame, Route(frame)
  PROVE  QueuesFit'
<1> SUFFICES ASSUME NEW s \in Subscribers PROVE Len(queue'[s]) <= config'[s].capacity
  BY DEF QueuesFit
<1>1. /\ Len(queue[s]) \in Nat /\ config[s].capacity \in Nat
      /\ Len(queue[s]) <= config[s].capacity /\ config' = config
  BY RouteEffects, NumbersAreNat, RouterAssumption DEF RouterShape, QueuesFit
<1>2. CASE Skipped(s) \/ Shut(s)
  BY <1>1, <1>2 DEF Skipped, Shut
<1>3. CASE Pushed(s)
  <2>1. /\ queue'[s] = Append(queue[s], matched'[s]) /\ queue[s] \in Seq(Nat)
        /\ Len(queue[s]) < config[s].capacity
    BY <1>3, NumbersAreNat DEF Pushed, HasRoom
  <2>2. Len(queue'[s]) = Len(queue[s]) + 1
    BY <2>1
  <2> QED
    BY <1>1, <2>1, <2>2
<1>4. CASE Overflowed(s)
  <2>1. CASE queue'[s] = queue[s]
    BY <1>1, <2>1
  <2>2. CASE queue'[s] = Append(Tail(queue[s]), matched'[s])
    <3>1. config[s].capacity # 0 /\ ~(Len(queue[s]) < config[s].capacity)
      BY <1>4 DEF Overflowed, Wanted, HasRoom, RouterShape
    <3>2. queue[s] \in Seq(Nat) /\ queue[s] # <<>>
      BY <1>1, <3>1, NumbersAreNat
    <3>3. Tail(queue[s]) \in Seq(Nat) /\ Len(Tail(queue[s])) = Len(queue[s]) - 1
      BY <3>2, TailOf
    <3>4. Len(Append(Tail(queue[s]), matched'[s])) = Len(queue[s])
      BY <1>1, <3>3
    <3> QED
      BY <1>1, <2>2, <3>4
  <2> QED
    BY <1>4, <2>1, <2>2 DEF Overflowed
<1> QED
  BY <1>2, <1>3, <1>4, RouteEffects

\* A subscriber takes frames out, and chooses its capacity while there are none.
LEMMA QueuesFitSubscriber ==
  ASSUME RouterShape, DeliveryInv, QueuesFit, NEW u \in Subscribers, SubscriberStep(u)
  PROVE  QueuesFit'
<1>1. CASE AskToSubscribe(u)
  <2>1. queue[u] = <<>>
    BY <1>1 DEF AskToSubscribe, DeliveryInv, Delivered, Fresh, Unborn
  <2>2. PICK c \in SubscribeConfigs : config' = [config EXCEPT ![u] = c]
    BY <1>1 DEF AskToSubscribe
  <2>3. queue' = queue /\ c.capacity \in Nat /\ Len(<<>>) = 0
    BY <1>1, RouterAssumption DEF AskToSubscribe, subscriptionVars
  <2> QED
    BY <2>1, <2>2, <2>3 DEF QueuesFit, RouterShape
<1>2. CASE PopFrame(u) /\ queue[u] # <<>>
  <2>1. /\ config' = config /\ \A s \in Subscribers \ {u} : queue'[s] = queue[s]
        /\ queue'[u] = Tail(queue[u])
    BY <1>2 DEF PopFrame, RouterShape
  <2>2. Len(queue'[u]) = Len(queue[u]) - 1 /\ Len(queue[u]) \in Nat /\ config[u].capacity \in Nat
    BY <1>2, <2>1, NumbersAreNat, TailOf, RouterAssumption DEF RouterShape
  <2>3. Len(queue[u]) <= config[u].capacity
    BY DEF QueuesFit
  <2>4. Len(queue'[u]) <= config[u].capacity
    BY <2>2, <2>3
  <2> QED
    BY <2>1, <2>4 DEF QueuesFit
<1>3. CASE UNCHANGED <<queue, config>>
  BY <1>3 DEF QueuesFit
<1>4. AskToSubscribe(u) \/ (PopFrame(u) /\ queue[u] # <<>>) \/ UNCHANGED <<queue, config>>
  BY DEF SubscriberStep, FailToSubscribe, CancelSubscribe, TakeSubscription, DropSubscription,
     BeginRecv, PopFrame, CheckClosed, ParkRecv, WakeRecv, CancelRecv, subscriptionVars
<1> QED
  BY <1>1, <1>2, <1>3, <1>4

LEMMA QueuesFitStep ==
  RouterShape /\ DeliveryInv /\ QueuesFit /\ [ReceptionNext]_receptionVars => QueuesFit'
<1> SUFFICES ASSUME RouterShape, DeliveryInv, QueuesFit, [ReceptionNext]_receptionVars
             PROVE  QueuesFit'
  OBVIOUS
<1>1. ASSUME NEW s \in Subscribers, RouterStep(s) PROVE UNCHANGED <<queue, config>>
  BY <1>1 DEF RouterStep, HandleSubscribe, HandleUnsubscribe
<1>2. ASSUME NextSecond \/ RouterClosed \/ RouterEnded \/ UNCHANGED routerVars
      PROVE  UNCHANGED <<queue, config>>
  BY <1>2 DEF NextSecond, RouterClosed, RouterEnded, routerVars, subscriptionVars
<1>3. CASE UNCHANGED <<queue, config>>
  BY <1>3 DEF QueuesFit
<1> QED
  BY <1>1, <1>2, <1>3, RouterIsMoved, QueuesFitSubscriber, QueuesFitRoute DEF RouterMoves

\* max_in_flight_transactions: register looks at the table before it adds to it.
TableFits ==
  /\ IsFiniteSet(table) /\ Cardinality(table) <= MaxInFlight
  /\ inFlight \in 0..MaxInFlight

LEMMA SlotsAdmitted ==
  ASSUME TableShape, NEW t \in Requests, TableStep(t)
  PROVE  table' \subseteq table
         \/ (table' \subseteq table \cup {t} /\ Cardinality(table) < MaxInFlight)
  BY DEF TableStep, HandleRegister, HandleDeregister

LEMMA CountPublished ==
  ASSUME IsFiniteSet(table'), Cardinality(table') <= MaxInFlight, PublishCount
  PROVE  TableFits'
<1>1. Cardinality(table') \in Nat
  BY FS_CardinalityType
<1> QED
  BY <1>1, TransactionAssumption DEF TableFits, PublishCount

LEMMA TableFitsStep ==
  TableShape /\ TableFits /\ [ReceptionNext]_receptionVars => TableFits'
<1> SUFFICES ASSUME TableShape, TableFits, [ReceptionNext]_receptionVars PROVE TableFits'
  OBVIOUS
<1>0. IsFiniteSet(table) /\ Cardinality(table) <= MaxInFlight /\ MaxInFlight \in Nat
  BY TransactionAssumption DEF TableFits
<1>1. ASSUME table' \subseteq table PROVE IsFiniteSet(table') /\ Cardinality(table') <= MaxInFlight
  BY <1>0, <1>1, AdmittedFit
<1>2. ASSUME UNCHANGED <<table, inFlight>> PROVE TableFits'
  BY <1>2 DEF TableFits
<1>3. ASSUME NEW s \in Subscribers, SubscriberActs(s) \/ RouterActs(s) PROVE TableFits'
  BY <1>2, <1>3 DEF SubscriberActs, RouterActs, transactionVars
<1>4. ASSUME NEW t \in Requests, RequestActs(t) PROVE TableFits'
  BY <1>2, <1>4, RequestEffects DEF RequestActs
<1>5. ASSUME NEW t \in Requests, TableActs(t) PROVE TableFits'
  <2>1. TableStep(t) /\ PublishCount
    BY <1>5 DEF TableActs
  <2>2. IsFiniteSet(table') /\ Cardinality(table') <= MaxInFlight
    BY <1>0, <2>1, SlotsAdmitted, AdmittedFit
  <2> QED
    BY <2>1, <2>2, CountPublished
<1>6. ASSUME NEW frame \in RxFrames, Dispatch(frame) PROVE TableFits'
  <2>1. PublishCount /\ table' \subseteq table
    BY <1>6 DEF Dispatch, Respond
  <2> QED
    BY <1>1, <2>1, CountPublished
<1>7. CASE Disconnect \/ Close
  <2>1. PublishCount /\ table' \subseteq table
    BY <1>7 DEF Disconnect, Close, TableDisconnected, DisconnectAll
  <2> QED
    BY <1>1, <2>1, CountPublished
<1>8. CASE Tick \/ CloseAnnounced \/ UNCHANGED receptionVars
  BY <1>2, <1>8 DEF Tick, CloseAnnounced, receptionVars, transactionVars
<1>9. CASE End
  <2>1. table' \subseteq table /\ inFlight' = inFlight
    BY <1>9 DEF End, TableEnded
  <2> QED
    BY <1>1, <2>1 DEF TableFits
<1> QED
  BY <1>3, <1>4, <1>5, <1>6, <1>7, <1>8, <1>9 DEF ReceptionNext

\* The task only comes to its end, and takes no more frames than there are.
LEMMA TaskStep ==
  /\ TaskTypeOK /\ rx \in 0..setup.frames /\ [ReceptionNext]_receptionVars
  => TaskTypeOK' /\ rx' \in 0..setup'.frames
<1> SUFFICES ASSUME TaskTypeOK, rx \in 0..setup.frames, [ReceptionNext]_receptionVars
             PROVE  TaskTypeOK' /\ rx' \in 0..setup'.frames
  OBVIOUS
<1>0. setup' = setup /\ setup.frames \in Nat
  BY SetupKept, SetupAssumption DEF TaskTypeOK
<1>1. task' \in {task, "announced", "closed", "ended"}
  BY DEF ReceptionNext, SubscriberActs, RouterActs, RequestActs, TableActs, Dispatch, Disconnect,
     Tick, CloseAnnounced, Announce, Close, CloseReceive, End, EndTask, receptionVars
<1>2. rx' = rx \/ (rx < setup.frames /\ rx' = rx + 1)
  BY DEF ReceptionNext, SubscriberActs, RouterActs, RequestActs, TableActs, Dispatch, Disconnect,
     Tick, CloseAnnounced, Close, End, receptionVars
<1> QED
  BY <1>0, <1>1, <1>2 DEF TaskTypeOK

\* router.rs 40-85, transaction.rs 221-350, control.rs 24-66: in every state every variable has
\* its type, and everything that has a bound keeps it: each queue its capacity, the table
\* max_in_flight_transactions, each buffer and collection the limit of its request, the retries
\* their number and the command channels the leases; the published count is within the bound.
THEOREM ReceptionTypesAlways == ReceptionSpec => []ReceptionTypeOK
<1> DEFINE Bounds == QueuesFit /\ TableFits /\ TaskTypeOK /\ rx \in 0..setup.frames
<1>1. ReceptionInit => Bounds
  <2> SUFFICES ASSUME ReceptionInit PROVE Bounds
    OBVIOUS
  <2>1. QueuesFit
    <3>1. (CHOOSE c \in SubscribeConfigs : TRUE) \in SubscribeConfigs
      BY RouterAssumption
    <3>2. \A s \in Subscribers : queue[s] = <<>> /\ config[s].capacity \in Nat
      BY <3>1, RouterAssumption DEF ReceptionInit, RouterInit
    <3> QED
      BY <3>2 DEF QueuesFit
  <2>2. TableFits
    BY FS_EmptySet, TransactionAssumption DEF ReceptionInit, TransactionInit, TableFits
  <2>3. TaskTypeOK /\ rx \in 0..setup.frames
    BY SetupAssumption DEF ReceptionInit, TaskInit, TaskTypeOK
  <2> QED
    BY <2>1, <2>2, <2>3
<1>2. /\ Bounds /\ RouterShape /\ DeliveryInv /\ TableShape /\ [ReceptionNext]_receptionVars
      => Bounds'
  BY QueuesFitStep, TableFitsStep, TaskStep
<1>3. /\ Bounds /\ RouterShape /\ TableShape /\ AnswerShape /\ AnswerInv /\ CommandsFitTheBudget
      => ReceptionTypeOK
  <2> SUFFICES ASSUME Bounds, RouterShape, TableShape, AnswerShape, AnswerInv, CommandsFitTheBudget
               PROVE  ReceptionTypeOK
    OBVIOUS
  <2>1. RouterTypeOK
    BY DEF RouterShape, QueuesFit, RouterTypeOK
  <2>2. \A t \in Requests : InBounds(t) /\ retry[t] \in Nat /\ spec[t].retries \in Nat
    BY SpecFacts DEF AnswerInv, Answered
  <2>3. TransactionTypeOK
    BY <2>2 DEF TableShape, AnswerShape, InBounds, TransactionTypeOK
  <2> QED
    BY <2>1, <2>3 DEF ReceptionTypeOK, TableFits
<1> HIDE DEF Bounds
<1> QED
  BY <1>1, <1>2, <1>3, ShapeInvariance, DeliveryInvariance, TableShapeInvariance, AnswerInvariance,
     CommandsAlwaysFit, PTL DEF ReceptionSpec
=============================================================================
