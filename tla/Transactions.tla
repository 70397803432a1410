----------------------------- MODULE Transactions -----------------------------
(***************************************************************************)
(* Requests and responses.  Link::prepare registers a slot in the table of *)
(* the supervisor task and waits for the answer; then the request is sent, *)
(* the matching frames are collected until the mode is satisfied or the    *)
(* deadline passes, and the attempt may be repeated.  What the caller      *)
(* holds, the PendingResponse, deregisters when it is dropped.             *)
(*                                                                         *)
(* A response is known by the attempt it was dispatched in and its number  *)
(* among the accepted frames of that attempt.  Time is left out: while an  *)
(* attempt waits, its deadline may pass at any moment.                     *)
(***************************************************************************)
EXTENDS ReceiveTask

CONSTANTS
  Requests,        \* calls of Link::request_many, or of prepare and wait_many
  ResponseSpecs,   \* the ResponseSpec values they come with
  MaxInFlight,     \* LinkBuilder::max_in_flight_transactions
  ResponseBuffer   \* the 64 of Link::prepare

ASSUME TransactionAssumption ==
  /\ MaxInFlight \in Nat \ {0} /\ ResponseBuffer \in Nat \ {0} /\ ResponseSpecs # {}
  /\ \A r \in ResponseSpecs :
       /\ r = [accept |-> r.accept, reject |-> r.reject, mode |-> r.mode,
               limit |-> r.limit, retries |-> r.retries]
       /\ r.accept \subseteq Ids /\ r.reject \subseteq Ids \ r.accept  \* Matcher::evaluate
       /\ r.mode \in {"First", "Exactly", "Window"}
       /\ r.limit \in Nat \ {0} /\ (r.mode = "First" => r.limit = 1)
       /\ r.retries \in Nat

VARIABLES
  request,        \* where each call is
  spec,           \* what it was called with, once it has been
  transactionRx,  \* the unbounded channel of TransactionCommand
  table,          \* TransactionTable::slots
  buffer,         \* the bounded channel of TransactionSignal of each slot
  overflowed,     \* TransactionSlot::dropped
  frames,         \* the frames wait_attempt has collected
  retry,          \* the retries so far
  outcome,        \* what the call returned
  arrived,        \* ghost: frames accepted since registration, or since clear_buffer
  lost            \* ghost: disconnect_all took the slot

transactionVars == <<request, spec, transactionRx, table, buffer, overflowed, frames, retry,
                     outcome, arrived, lost>>

Register(t)   == [op |-> "Register", id |-> t]
Deregister(t) == [op |-> "Deregister", id |-> t]
TransactionCommands == {Register(t) : t \in Requests} \cup {Deregister(t) : t \in Requests}

ResponseFrame(attempt, number) == [signal |-> "Frame", attempt |-> attempt, number |-> number]
Signal(kind) == [signal |-> kind, attempt |-> 0, number |-> 0]
Signals == {ResponseFrame(a, n) : a \in Nat, n \in Nat}
             \cup {Signal("Rejected"), Signal("Disconnected")}

\* Where the caller has the PendingResponse: at the send, or in wait_attempt.
Pending == {"sending", "waiting"}
Outcomes == {"none", "Ok", "Timeout", "Disconnected", "Rejected", "ResponseLimitExceeded",
             "Failed", "Dropped"}

Commanded(t) == \E i \in 1..Len(transactionRx) : transactionRx[i].id = t

\* The lease is in the command, in the PendingResponse, or in the Deregister.
Prepared == {t \in Requests : request[t] \in {"answered"} \cup Pending \/ Commanded(t)}

\* The capacity of the channel, fixed by prepare.
BufferOf(t) ==
  IF spec[t].mode = "Window" /\ spec[t].limit > ResponseBuffer
  THEN ResponseBuffer ELSE spec[t].limit

TransactionTypeOK ==
  /\ request \in [Requests -> {"idle", "asked", "cancelled", "answered", "gone"} \cup Pending]
  /\ spec \in [Requests -> ResponseSpecs]
  /\ transactionRx \in Seq(TransactionCommands)
  /\ table \subseteq Requests
  /\ \A t \in Requests : Len(buffer[t]) <= BufferOf(t) /\ Len(frames[t]) <= spec[t].limit
  /\ overflowed \in [Requests -> Nat]
  /\ \A t \in Requests : retry[t] \in 0..spec[t].retries
  /\ outcome \in [Requests -> Outcomes]
  /\ arrived \in [Requests -> Nat]
  /\ lost \in [Requests -> BOOLEAN]

TransactionInit ==
  /\ request = [t \in Requests |-> "idle"]
  /\ spec = [t \in Requests |-> CHOOSE r \in ResponseSpecs : TRUE]
  /\ transactionRx = <<>>
  /\ table = {}
  /\ buffer = [t \in Requests |-> <<>>]
  /\ overflowed = [t \in Requests |-> 0]
  /\ frames = [t \in Requests |-> <<>>]
  /\ retry = [t \in Requests |-> 0]
  /\ outcome = [t \in Requests |-> "none"]
  /\ arrived = [t \in Requests |-> 0]
  /\ lost = [t \in Requests |-> FALSE]

-----------------------------------------------------------------------------
(* The caller. *)

MoveTo(t, station) == request' = [request EXCEPT ![t] = station]

\* The drop of a PendingResponse, wherever it is.  The receiver goes with it.
SendDeregister(t) ==
  /\ transactionRx' = IF Reachable THEN Append(transactionRx, Deregister(t)) ELSE transactionRx
  /\ buffer' = [buffer EXCEPT ![t] = <<>>]

\* The call returns, and drops what it holds.
Finish(t, result) ==
  /\ MoveTo(t, "gone")
  /\ outcome' = [outcome EXCEPT ![t] = result]
  /\ SendDeregister(t)

\* Link::prepare up to its await.
AskToPrepare(t) ==
  /\ request[t] = "idle"
  /\ Admits(Prepared) /\ Reachable
  /\ \E r \in ResponseSpecs : spec' = [spec EXCEPT ![t] = r]
  /\ MoveTo(t, "asked")
  /\ transactionRx' = Append(transactionRx, Register(t))
  /\ UNCHANGED <<table, buffer, overflowed, frames, retry, outcome, arrived, lost>>

\* The same, with one of its errors.
FailToPrepare(t) ==
  /\ request[t] = "idle"
  /\ task # "running" \/ ~Admits(Prepared)
  /\ MoveTo(t, "gone")
  /\ outcome' = [outcome EXCEPT ![t] = "Failed"]
  /\ UNCHANGED <<spec, transactionRx, table, buffer, overflowed, frames, retry, arrived, lost>>

CancelPrepare(t) ==
  /\ \/ /\ request[t] = "asked"
        /\ MoveTo(t, "cancelled")
        /\ outcome' = [outcome EXCEPT ![t] = "Dropped"]
        /\ UNCHANGED <<transactionRx, buffer>>
     \/ request[t] = "answered" /\ Finish(t, "Dropped")
  /\ UNCHANGED <<spec, table, overflowed, frames, retry, arrived, lost>>

TakePending(t) ==
  /\ request[t] = "answered"
  /\ MoveTo(t, "sending")
  /\ UNCHANGED <<spec, transactionRx, table, buffer, overflowed, frames, retry, outcome,
                 arrived, lost>>

\* send_await has returned; wait_attempt begins with nothing collected.
BeginAttempt(t) ==
  /\ request[t] = "sending"
  /\ MoveTo(t, "waiting")
  /\ frames' = [frames EXCEPT ![t] = <<>>]
  /\ UNCHANGED <<spec, transactionRx, table, buffer, overflowed, retry, outcome, arrived, lost>>

FailToSend(t) ==
  /\ request[t] = "sending"
  /\ Finish(t, "Failed")
  /\ UNCHANGED <<spec, table, overflowed, frames, retry, arrived, lost>>

\* The future of the request, or the PendingResponse itself, is dropped.
DropPending(t) ==
  /\ request[t] \in Pending
  /\ Finish(t, "Dropped")
  /\ UNCHANGED <<spec, table, overflowed, frames, retry, arrived, lost>>

-----------------------------------------------------------------------------
(* PendingResponse::wait_attempt, and the loop of request_inner around it. *)

Collected(t) == spec[t].mode # "Window" /\ Len(frames'[t]) >= spec[t].limit

CollectFrame(t) ==
  /\ Head(buffer[t]).signal = "Frame" /\ Len(frames[t]) < spec[t].limit
  /\ frames' = [frames EXCEPT ![t] = Append(@, Head(buffer[t]))]
  /\ \/ Collected(t) /\ Finish(t, "Ok")
     \/ /\ ~Collected(t)
        /\ buffer' = [buffer EXCEPT ![t] = Tail(@)]
        /\ UNCHANGED <<request, outcome, transactionRx>>

ReceiveSignal(t) ==
  /\ request[t] = "waiting" /\ buffer[t] # <<>>
  /\ \/ CollectFrame(t)
     \/ /\ Head(buffer[t]).signal = "Frame" /\ Len(frames[t]) = spec[t].limit
        /\ Finish(t, "ResponseLimitExceeded")
        /\ UNCHANGED frames
     \/ /\ Head(buffer[t]).signal # "Frame"
        /\ Finish(t, Head(buffer[t]).signal)
        /\ UNCHANGED frames
  /\ UNCHANGED <<spec, table, overflowed, retry, arrived, lost>>

\* recv() returns None: the buffer is empty and the slot, the one sender, is gone.
ChannelEnds(t) ==
  /\ request[t] = "waiting" /\ buffer[t] = <<>> /\ t \notin table
  /\ Finish(t, "Disconnected")
  /\ UNCHANGED <<spec, table, overflowed, frames, retry, arrived, lost>>

\* The deadline is looked at first, whatever is in the buffer.
DeadlineReturns(t) ==
  /\ \/ spec[t].mode = "Window" /\ frames[t] # <<>> /\ Finish(t, "Ok")
     \/ /\ spec[t].mode = "Window" => frames[t] = <<>>
        /\ retry[t] = spec[t].retries
        /\ Finish(t, "Timeout")
  /\ UNCHANGED <<retry, arrived>>

\* mutant of Cleared: the answers of the last attempt stay.
ClearedNot(t) == buffer

Cleared(t) == [buffer EXCEPT ![t] = <<>>]

\* clear_buffer, and the request is sent again under the same registration.
ClearAndRetry(t) ==
  /\ spec[t].mode = "Window" => frames[t] = <<>>
  /\ retry[t] < spec[t].retries
  /\ retry' = [retry EXCEPT ![t] = @ + 1]
  /\ buffer' = Cleared(t)
  /\ arrived' = [arrived EXCEPT ![t] = 0]
  /\ MoveTo(t, "sending")
  /\ UNCHANGED <<transactionRx, outcome>>

DeadlinePasses(t) ==
  /\ request[t] = "waiting"
  /\ DeadlineReturns(t) \/ ClearAndRetry(t)
  /\ UNCHANGED <<spec, table, overflowed, frames, lost>>

-----------------------------------------------------------------------------
(* The table. *)

\* TransactionTable::handle of a Register.  The caller may have gone away,
\* before the command is looked at or between that and the answer.
HandleRegister(t) ==
  /\ Selecting /\ transactionRx # <<>> /\ Head(transactionRx) = Register(t)
  /\ \/ /\ request[t] = "cancelled"
        /\ transactionRx' = Tail(transactionRx)
        /\ UNCHANGED <<request, table, outcome>>
     \/ /\ request[t] = "asked" /\ Cardinality(table) >= MaxInFlight
        /\ transactionRx' = Tail(transactionRx)
        /\ MoveTo(t, "gone")
        /\ outcome' = [outcome EXCEPT ![t] = "Failed"]
        /\ UNCHANGED table
     \/ /\ request[t] = "asked" /\ Cardinality(table) < MaxInFlight
        /\ transactionRx' = Tail(transactionRx)
        /\ table' = table \cup {t}
        /\ MoveTo(t, "answered")
        /\ UNCHANGED outcome
     \/ /\ request[t] = "asked" /\ Cardinality(table) < MaxInFlight
        /\ transactionRx' = Append(Tail(transactionRx), Deregister(t))
        /\ MoveTo(t, "gone")
        /\ outcome' = [outcome EXCEPT ![t] = "Dropped"]
        /\ UNCHANGED table
  /\ UNCHANGED <<spec, buffer, overflowed, frames, retry, arrived, lost>>

HandleDeregister(t) ==
  /\ Selecting /\ transactionRx # <<>> /\ Head(transactionRx) = Deregister(t)
  /\ transactionRx' = Tail(transactionRx)
  /\ table' = table \ {t}
  /\ UNCHANGED <<request, spec, buffer, overflowed, frames, retry, outcome, arrived, lost>>

\* The receiver end of the slot still exists.
Awaited(t) == request[t] \in {"answered"} \cup Pending
HasSpace(t) == Len(buffer[t]) < BufferOf(t)

\* The slot stays after a signal was tried on it.
StaysAfter(t) == Awaited(t)

\* TransactionTable::dispatch.
Respond(frame) ==
  LET accepted == {t \in table : frame.id \in spec[t].accept}
      refused  == {t \in table : frame.id \in spec[t].reject}
      taken    == {t \in accepted \cup refused : Awaited(t) /\ HasSpace(t)}
      full     == {t \in accepted \cup refused : Awaited(t) /\ ~HasSpace(t)}
  IN /\ table' = {t \in table : t \in accepted \cup refused => StaysAfter(t)}
     /\ arrived' = [t \in Requests |-> arrived[t] + (IF t \in accepted THEN 1 ELSE 0)]
     /\ buffer' = [t \in Requests |->
                     IF t \notin taken THEN buffer[t]
                     ELSE Append(buffer[t], IF t \in refused THEN Signal("Rejected")
                                            ELSE ResponseFrame(retry[t], arrived'[t]))]
     /\ overflowed' = [t \in Requests |-> overflowed[t] + (IF t \in full THEN 1 ELSE 0)]
     /\ UNCHANGED <<request, spec, transactionRx, frames, retry, outcome, lost>>

\* mutant of DisconnectAll: a slot goes only once its waiter was told.
DisconnectTold ==
  /\ table' = {t \in table : Awaited(t) /\ ~HasSpace(t)}
  /\ buffer' = [t \in Requests |->
                  IF t \in table /\ Awaited(t) /\ HasSpace(t)
                  THEN Append(buffer[t], Signal("Disconnected")) ELSE buffer[t]]
  /\ lost' = [t \in Requests |-> lost[t] \/ t \in table]

\* disconnect_all: the slots go, and each tells its waiter if there is room.
DisconnectAll ==
  /\ table' = {}
  /\ buffer' = [t \in Requests |->
                  IF t \in table /\ Awaited(t) /\ HasSpace(t)
                  THEN Append(buffer[t], Signal("Disconnected")) ELSE buffer[t]]
  /\ lost' = [t \in Requests |-> lost[t] \/ t \in table]

TableDisconnected ==
  /\ DisconnectAll
  /\ UNCHANGED <<request, spec, transactionRx, overflowed, frames, retry, outcome, arrived>>

\* The task is gone: the slots, and the commands that were not handled.
TableEnded ==
  /\ table' = {}
  /\ lost' = [t \in Requests |-> lost[t] \/ t \in table]
  /\ transactionRx' = <<>>
  /\ request' = [t \in Requests |-> IF request[t] = "asked" THEN "gone" ELSE request[t]]
  /\ outcome' = [t \in Requests |-> IF request[t] = "asked" THEN "Failed" ELSE outcome[t]]
  /\ UNCHANGED <<spec, buffer, overflowed, frames, retry, arrived>>

RequestStep(t) ==
  \/ AskToPrepare(t) \/ FailToPrepare(t) \/ CancelPrepare(t) \/ TakePending(t)
  \/ BeginAttempt(t) \/ FailToSend(t) \/ DropPending(t)
  \/ ReceiveSignal(t) \/ ChannelEnds(t) \/ DeadlinePasses(t)

TableStep(t) == HandleRegister(t) \/ HandleDeregister(t)
=============================================================================
