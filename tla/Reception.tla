------------------------------- MODULE Reception -------------------------------
(***************************************************************************)
(* RxDispatch (supervisor/receive.rs): every frame goes to the router and  *)
(* then to the transactions, a fault of the connection to the transactions *)
(* only, and the end of the task to both.  The supervisor's other work and *)
(* the application's calls come in between in any order.                   *)
(***************************************************************************)
EXTENDS RxRouter, Transactions

VARIABLES
  rx,        \* frames dispatched so far
  inFlight   \* SharedRuntime::in_flight, what Link::in_flight_count reads

receptionVars == <<setup, task, routerVars, transactionVars, rx, inFlight>>

ReceptionInit ==
  /\ TaskInit
  /\ RouterInit
  /\ TransactionInit
  /\ rx = 0
  /\ inFlight = 0

PublishCount == inFlight' = Cardinality(table')

SubscriberActs(s) ==
  /\ s \in setup.callers
  /\ SubscriberStep(s)
  /\ UNCHANGED <<setup, task, transactionVars, rx, inFlight>>

RouterActs(s) ==
  /\ RouterStep(s)
  /\ UNCHANGED <<setup, task, transactionVars, rx, inFlight>>

RequestActs(t) ==
  /\ t \in setup.callers
  /\ RequestStep(t)
  /\ UNCHANGED <<setup, task, routerVars, rx, inFlight>>

TableActs(t) ==
  /\ TableStep(t)
  /\ PublishCount
  /\ UNCHANGED <<setup, task, routerVars, rx>>

\* RxDispatch::frame
Dispatch(frame) ==
  /\ Selecting /\ rx < setup.frames
  /\ rx' = rx + 1
  /\ Route(frame)
  /\ Respond(frame)
  /\ PublishCount
  /\ UNCHANGED <<setup, task>>

\* RxDispatch::disconnect, before any input that may take the connection down.
Disconnect ==
  /\ Selecting
  /\ TableDisconnected
  /\ PublishCount
  /\ UNCHANGED <<setup, task, routerVars, rx>>

Tick == NextSecond /\ UNCHANGED <<setup, task, transactionVars, rx, inFlight>>

CloseAnnounced ==
  Announce /\ UNCHANGED <<routerVars, transactionVars, rx, inFlight>>

\* RxDispatch::close
Close ==
  /\ CloseReceive
  /\ TableDisconnected
  /\ RouterClosed
  /\ PublishCount
  /\ UNCHANGED rx

\* The supervisor returns or panics, and drops the RxDispatch and both receivers.
End ==
  /\ EndTask
  /\ RouterEnded
  /\ TableEnded
  /\ UNCHANGED <<rx, inFlight>>

ReceptionNext ==
  \/ \E s \in Subscribers : SubscriberActs(s) \/ RouterActs(s)
  \/ \E t \in Requests : RequestActs(t) \/ TableActs(t)
  \/ \E frame \in RxFrames : Dispatch(frame)
  \/ Disconnect \/ Tick \/ CloseAnnounced \/ Close \/ End

ReceptionSpec == ReceptionInit /\ [][ReceptionNext]_receptionVars

\* The supervisor runs: its select takes every command in the end, and once the
\* end is announced it cleans up and returns.  A caller
\* that is woken runs: nothing is said of deadlines, of the frames, or of when
\* an application calls.  send_await returns (TxWorker: FramesAreAnswered).
ReceptionFairness ==
  /\ WF_receptionVars(Close)
  /\ WF_receptionVars(task = "closed" /\ End)
  /\ WF_receptionVars(\E s \in Subscribers : RouterActs(s))
  /\ WF_receptionVars(\E t \in Requests : TableActs(t))
  /\ \A t \in Requests :
       /\ WF_receptionVars(RequestActs(t) /\ (TakePending(t) \/ BeginAttempt(t)))
       /\ WF_receptionVars(RequestActs(t) /\ (ReceiveSignal(t) \/ ChannelEnds(t)))

FairReceptionSpec == ReceptionSpec /\ ReceptionFairness

-----------------------------------------------------------------------------
(* Properties. *)

\* The two command channels are unbounded, and yet never hold more commands
\* than there are leases: one that was given back while its command is still
\* queued would let cancelled calls pile up.
CommandsFitTheBudget ==
  /\ Len(routerRx) <= Capacity
  /\ Len(transactionRx) <= Capacity

\* Every variable keeps its range, and the command channels their bound.
ReceptionTypeOK ==
  /\ CommandsFitTheBudget
  /\ TaskTypeOK
  /\ RouterTypeOK
  /\ TransactionTypeOK
  /\ rx \in 0..setup.frames
  /\ inFlight \in 0..MaxInFlight

\* A slot is never forgotten: whoever is in the router or in the table has a
\* caller who will see it, or a command on its way that takes it out, whether the
\* call was cancelled before its answer, with it undelivered, or later.
SlotIsEscorted ==
  /\ \A s \in slots :
       subscriber[s] \in {"answered"} \cup Holding
         \/ \E i \in 1..Len(routerRx) : routerRx[i] = Unsubscribe(s)
  /\ \A t \in table :
       Awaited(t)
         \/ \E i \in 1..Len(transactionRx) : transactionRx[i] = Deregister(t)

\* recv() never sleeps on a frame or on the end of its subscription: the push or
\* the close it missed between pop_front and await has left it a wake-up.
SleeperIsWoken ==
  \A s \in Subscribers :
    subscriber[s] = "waiting" /\ (queue[s] # <<>> \/ closed[s]) => permit[s] \/ woken[s]

\* Whatever the policy, each frame that passed the filter of an open subscription
\* has been received, is queued, or is in the drop count, and a first drop has been
\* reported at once.
FramesAreAccounted ==
  \A s \in slots :
    /\ matched[s] = Len(got[s]) + Len(queue[s]) + dropped[s]
    /\ dropped[s] > 0 => reported[s] \in 1..second

\* What a subscriber has received and will receive is in the order of arrival,
\* none twice; with DropOldest what is queued are the newest ones, without a gap.
FramesKeepOrder ==
  \A s \in Subscribers :
    LET all == got[s] \o queue[s]
    IN /\ \A i, j \in 1..Len(all) : i < j => all[i] < all[j]
       /\ config[s].overflow = "DropOldest"
            => \A i \in 1..Len(queue[s]) : queue[s][i] = matched[s] - Len(queue[s]) + i

\* First and Exactly(n) return the first n responses of the last attempt,
\* without a gap and without one left over from an attempt that timed out.
AnswersHaveNoGap ==
  \A t \in Requests :
    /\ request[t] = "waiting" \/ outcome[t] = "Ok"
    /\ spec[t].mode # "Window"
    => \A i \in 1..Len(frames[t]) : frames[t][i] = ResponseFrame(retry[t], i)

\* A subscribe() in the queue of the supervisor is answered, whatever happens to
\* the task.
SubscribeReturns ==
  \A s \in Subscribers : subscriber[s] = "asked" ~> subscriber[s] # "asked"

\* A transaction that lost its slot ends without waiting for its deadline, even
\* when the Disconnected signal found its buffer full.
LossIsHeard == \A t \in Requests : lost[t] ~> request[t] = "gone"

\* The documentation of max_responses: a window that received more than it may
\* return is an error and never a success with some of the responses missing.
WindowIsComplete ==
  \A t \in Requests :
    outcome[t] = "Ok" /\ spec[t].mode = "Window" => overflowed[t] = 0
=============================================================================
