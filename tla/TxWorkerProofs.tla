--------------------------- MODULE TxWorkerProofs ---------------------------
(***************************************************************************)
(* Proofs about the tx worker under the contract of the other tasks, for   *)
(* every capacity, number of frames, transports and senders.               *)
(***************************************************************************)
EXTENDS TxWorker, SequenceTheorems, TLAPS

USE DEF None

-----------------------------------------------------------------------------
(* What the worker knows of the two watch channels it reads.               *)

\* Between reading an open gate and reading the transport, a transport that
\* went away left a change the worker has not seen.
WithdrawalUnseen ==
  worker \in {"take", "borrow"} /\ transportWatch = None => transportUnseen

\* The same of the gate, from its reading to the select.
GateReadOrUnseen ==
  worker \in {"take", "drain", "hold", "park"} /\ wGate # gate => gateUnseen

WatchInv ==
  /\ gate \in TxGates
  /\ GateHasTransport
  /\ WithdrawalUnseen
  /\ WaitFindsChange
  /\ GateReadOrUnseen

\* The initial state has a gate on Hold and a worker at the top of its loop.
LEMMA WatchInvInit == TxWorkerInit => WatchInv
BY DEF TxWorkerInit, ChannelInit, TxInit, WatchInv, TxGates, GateHasTransport,
       WithdrawalUnseen, WaitFindsChange, GateReadOrUnseen

\* A step of the worker keeps the invariant: it only marks a value as seen when
\* it goes back to read both again.
LEMMA WatchInvWorker == WatchInv /\ WorkerRuns => WatchInv'
<1> SUFFICES ASSUME WatchInv, WorkerRuns PROVE WatchInv'
  OBVIOUS
<1> USE DEF WatchInv, GateHasTransport, WithdrawalUnseen, WaitFindsChange, GateReadOrUnseen,
            channelVars, stateWatch, gateWatch, txWatch, tasks
<1>1. CASE Top
  <2>1. wGate' = gate /\ UNCHANGED <<gate, gateUnseen, transportWatch, transportUnseen>>
    BY <1>1 DEF Top
  <2>2. \/ gate = "Open" /\ worker' = "take"
        \/ gate = "FailAll" /\ worker' = "drain"
        \/ gate = "Hold" /\ worker' = "hold"
    BY <1>1 DEF Top, TxGates
  <2> QED
    BY <2>1, <2>2
<1>2. CASE TakeNothing \/ TakeExpired \/ TakeFresh
  BY <1>2 DEF TakeNothing, TakeExpired, TakeFresh, Goto, Again, Leave
<1>3. CASE BorrowNone \/ BorrowSome
  BY <1>3 DEF BorrowNone, BorrowSome, Goto
<1>4. CASE SendOk \/ SendRetries \/ SendGivesUp
  BY <1>4 DEF SendOk, SendRetries, SendGivesUp, Again, Leave
<1>5. CASE \E k \in {"Fatal", "Permanent"} : SendFaults(k)
  BY <1>5 DEF SendFaults
<1>6. CASE PostFault
  BY <1>6 DEF PostFault, Again, Leave
<1>7. CASE Drain
  BY <1>7 DEF Drain, Goto
<1>8. CASE Hold
  BY <1>8 DEF Hold, Goto
<1>9. CASE SeeTransport \/ SeeGate
  BY <1>9 DEF SeeTransport, SeeGate, Again, Leave
<1>10. CASE ParkReceives \/ ParkExpires
  BY <1>10 DEF ParkReceives, ParkExpires, Again, Leave
<1>11. CASE Exits
  BY <1>11 DEF Exits, Leave
<1> QED
  BY <1>1, <1>2, <1>3, <1>4, <1>5, <1>6, <1>7, <1>8, <1>9, <1>10, <1>11 DEF WorkerRuns

\* The clients touch neither watch, and a guard sends FailAll.
LEMMA WatchInvClients == WatchInv /\ (TxClients \/ Panics) => WatchInv'
<1> SUFFICES ASSUME WatchInv, TxClients \/ Panics PROVE WatchInv'
  OBVIOUS
<1> USE DEF WatchInv, GateHasTransport, WithdrawalUnseen, WaitFindsChange, GateReadOrUnseen,
            channelVars, stateWatch, gateWatch, txWatch, tasks
<1>1. ASSUME NEW s \in Senders, SendCalled(s) \/ SendQueued(s) \/ SendRefused(s)
      PROVE  WatchInv'
  BY <1>1 DEF SendCalled, SendQueued, SendRefused
<1>2. ASSUME NEW i \in Frames, Age(i)
      PROVE  WatchInv'
  BY <1>2 DEF Age
<1>3. CASE Panics
  BY <1>3 DEF Panics, FatalGuard, PublishGate, Leave, TxGates
<1> QED
  BY <1>1, <1>2, <1>3 DEF TxClients

\* What the other tasks may do keeps the invariant: the gate is opened only over
\* a transport, and each change of a watch is one the worker has not seen.
LEMMA WatchInvEnvironment == WatchInv /\ Environment => WatchInv'
<1> SUFFICES ASSUME WatchInv, Environment PROVE WatchInv'
  OBVIOUS
<1> USE DEF WatchInv, GateHasTransport, WithdrawalUnseen, WaitFindsChange, GateReadOrUnseen,
            stateWatch, gateWatch, txWatch, tasks, RestOfWorker, workerVars
<1>1. ASSUME NEW s \in LinkStates, EnvState(s) PROVE WatchInv'
  BY <1>1 DEF EnvState
<1>2. CASE EnvTakes
  BY <1>2 DEF EnvTakes
<1>3. ASSUME NEW g \in TxGates, EnvGate(g) PROVE WatchInv'
  BY <1>3 DEF EnvGate, PublishGate
<1>4. ASSUME NEW t \in Transports, EnvPublishes(t) PROVE WatchInv'
  <2>1. t # None
    BY ChannelsAssumption DEF Transports
  <2> QED
    BY <1>4, <2>1 DEF EnvPublishes, PublishTransport
<1>5. CASE EnvWithdraws
  BY <1>5 DEF EnvWithdraws, PublishTransport
<1>6. ASSUME NEW t \in Transports, NEW n \in {"open", "closing", "closed"}, EnvTransport(t, n)
      PROVE  WatchInv'
  BY <1>6 DEF EnvTransport
<1>7. ASSUME NEW m, EnvAsks(m) PROVE WatchInv'
  BY <1>7 DEF EnvAsks
<1>8. CASE EnvEnds
  BY <1>8 DEF EnvEnds, FatalGuard, PublishGate, TxGates
<1>9. CASE EnvSchedulerEnds
  BY <1>9 DEF EnvSchedulerEnds
<1>10. ASSUME NEW h \in Handles, EnvDrops(h) PROVE WatchInv'
  BY <1>10 DEF EnvDrops
<1> QED
  BY <1>1, <1>2, <1>3, <1>4, <1>5, <1>6, <1>7, <1>8, <1>9, <1>10, ChannelsAssumption
  DEF Environment

\* The invariant holds in every state of the worker under its contract.
THEOREM WatchInvariance == TxWorkerSpec => []WatchInv
<1>1. WatchInv /\ [TxWorkerNext]_txVars => WatchInv'
  <2> SUFFICES ASSUME WatchInv, [TxWorkerNext]_txVars PROVE WatchInv'
    OBVIOUS
  <2>1. CASE UNCHANGED txVars
    BY <2>1 DEF WatchInv, GateHasTransport, WithdrawalUnseen, WaitFindsChange,
                GateReadOrUnseen, txVars, gateWatch, txWatch, workerVars
  <2> QED
    BY <2>1, WatchInvWorker, WatchInvClients, WatchInvEnvironment DEF TxWorkerNext
<1> QED
  BY WatchInvInit, <1>1, PTL DEF TxWorkerSpec

\* The gate is never open over a missing transport (supervisor/actions.rs 63-72
\* and 101-110, machine.rs 161-222), whatever task is lost.
THEOREM GateAlwaysHasTransport == TxWorkerSpec => []GateHasTransport
<1>1. WatchInv => GateHasTransport
  BY DEF WatchInv
<1> QED
  BY WatchInvariance, <1>1, PTL

\* The wait of txqueue.rs 188 never blocks: the worker cannot sleep through a
\* FailAll or an expiry with a frame in its hand.
THEOREM WaitAlwaysFindsChange == TxWorkerSpec => []WaitFindsChange
<1>1. WatchInv => WaitFindsChange
  BY DEF WatchInv
<1> QED
  BY WatchInvariance, <1>1, PTL

\* The select of txqueue.rs 286-299 never sleeps on a gate it has not heard of.
THEOREM GateChangeAlwaysWakes == TxWorkerSpec => []GateChangeWakes
<1>1. WatchInv => GateChangeWakes
  BY DEF WatchInv, GateReadOrUnseen, GateChangeWakes
<1> QED
  BY WatchInvariance, <1>1, PTL

-----------------------------------------------------------------------------
(* Types, and the bound of the staged segment.                             *)

\* A frame is in the worker's hand exactly while it is being sent, and a fault
\* is posted of a transport and a kind.
HandInv ==
  /\ worker \in {"borrow", "send"} <=> inflight # NoFrame
  /\ worker \in {"send", "fault"} => held \in Transports
  /\ worker = "fault" => faultKind # "none"

QueueTypeOK ==
  /\ pending \in Seq(Frames)
  /\ chan \in Seq(Frames) /\ Len(chan) <= Capacity
  /\ inflight \in Frames \cup {NoFrame}
  /\ StagedIsBounded

LoopTypeOK ==
  /\ worker \in TxPlaces
  /\ wGate \in TxGates
  /\ held \in Transports \cup {None}
  /\ retry \in 0..RetryLimit
  /\ faultKind \in {"none", "Fatal", "Permanent"}

RecordTypeOK ==
  /\ accepted \in 0..MaxFrames
  /\ old \subseteq Frames
  /\ outcome \in [Frames -> Outcomes]
  /\ bus \in Seq(Frames)
  /\ sender \in [Senders -> {"idle", "waiting"}]

TxInv == SharedTypeOK /\ HandInv /\ QueueTypeOK /\ LoopTypeOK /\ RecordTypeOK

\* The length of the staged segment alone is bounded with the frame in flight.
LEMMA TxInvTypes == TxInv => TxTypeOK /\ StagedIsBounded
<1> SUFFICES ASSUME TxInv PROVE TxTypeOK /\ StagedIsBounded
  OBVIOUS
<1>1. Len(pending) \in Nat
  BY LenProperties DEF TxInv, QueueTypeOK
<1> QED
  BY <1>1, TxAssumption
  DEF TxInv, QueueTypeOK, LoopTypeOK, RecordTypeOK, TxTypeOK, StagedIsBounded

\* What the constants give.
LEMMA FrameFacts == NoFrame \notin Frames /\ None \notin Transports /\ Capacity \in Nat
BY TxAssumption, ChannelsAssumption DEF Frames, Transports, NoFrame

\* What Resolve leaves: a record of the same type.
LEMMA ResolveTypes ==
  ASSUME NEW s, NEW r \in Outcomes, RecordTypeOK, Resolve(s, r)
  PROVE  old' \subseteq Frames /\ outcome' \in [Frames -> Outcomes]
BY DEF Resolve, RecordTypeOK

\* Taking the oldest frame takes it from the staged segment, or from the channel
\* when nothing is staged: there is room to put it back.
LEMMA OldestTypes ==
  ASSUME QueueTypeOK, inflight = NoFrame, pending \o chan # <<>>, RemoveOldest
  PROVE  /\ Oldest \in Frames
         /\ pending' \in Seq(Frames) /\ Len(pending') + 1 <= Capacity
         /\ chan' \in Seq(Frames) /\ Len(chan') <= Capacity
<1> USE DEF QueueTypeOK
<1>1. Len(pending) \in Nat /\ Len(chan) \in Nat /\ Len(pending) <= Capacity
  BY LenProperties DEF StagedIsBounded
<1>2. CASE pending # <<>>
  <2>1. /\ Head(pending) \in Frames /\ Tail(pending) \in Seq(Frames)
        /\ Len(Tail(pending)) = Len(pending) - 1
    BY <1>2, HeadTailProperties
  <2>2. Head(pending \o chan) = Head(pending)
    BY <1>2
  <2> QED
    BY <1>1, <1>2, <2>1, <2>2 DEF RemoveOldest, Oldest
<1>3. CASE pending = <<>>
  <2>1. pending \o chan = chan
    BY <1>3, ConcatEmptySeq
  <2>2. /\ Head(chan) \in Frames /\ Tail(chan) \in Seq(Frames)
        /\ Len(Tail(chan)) = Len(chan) - 1
    BY <2>1, HeadTailProperties
  <2> QED
    BY <1>1, <1>3, <2>1, <2>2, TxAssumption DEF RemoveOldest, Oldest
<1> QED
  BY <1>2, <1>3

\* Part of a sequence of frames is a sequence of frames.
LEMMA SubSeqFrames ==
  ASSUME NEW s \in Seq(Frames), NEW m \in 1..(Len(s) + 1), NEW n \in 0..Len(s)
  PROVE  /\ SubSeq(s, m, n) \in Seq(Frames)
         /\ Len(SubSeq(s, m, n)) = IF m <= n THEN n - m + 1 ELSE 0
<1>1. Len(s) \in Nat
  BY LenProperties
<1>2. \A i \in m..n : s[i] \in Frames
  BY <1>1, ElementOfSeq
<1> QED
  BY <1>1, <1>2, SubSeqProperties

\* Filling the staged segment stops at its capacity.
LEMMA HoldTypes ==
  ASSUME QueueTypeOK, inflight = NoFrame, RecordTypeOK, Hold
  PROVE  /\ pending' \in Seq(Frames) /\ Len(pending') <= Capacity
         /\ chan' \in Seq(Frames) /\ Len(chan') <= Capacity
         /\ old' \subseteq Frames /\ outcome' \in [Frames -> Outcomes]
<1> DEFINE moved  == IF Len(pending) < Capacity THEN Lesser(Len(chan), Capacity - Len(pending))
                                                ELSE 0
           filled == pending \o SubSeq(chan, 1, moved)
<1>1. /\ Len(pending) \in Nat /\ Len(chan) \in Nat
      /\ Len(pending) <= Capacity /\ Len(chan) <= Capacity /\ Capacity \in Nat
  BY LenProperties, TxAssumption DEF QueueTypeOK, StagedIsBounded
<1>2. moved \in 0..Len(chan) /\ Len(pending) + moved <= Capacity
  BY <1>1 DEF Lesser
<1>3. PICK n \in 0..Len(filled) :
        /\ pending' = SubSeq(filled, n + 1, Len(filled))
        /\ chan' = SubSeq(chan, moved + 1, Len(chan))
        /\ Resolve(SubSeq(filled, 1, n), "expired")
  BY DEF Hold
<1> HIDE DEF moved
<1>4. SubSeq(chan, 1, moved) \in Seq(Frames) /\ Len(SubSeq(chan, 1, moved)) = moved
  BY <1>1, <1>2, SubSeqFrames DEF QueueTypeOK
<1>5. filled \in Seq(Frames) /\ Len(filled) = Len(pending) + moved
  BY <1>4, ConcatProperties DEF QueueTypeOK
<1> HIDE DEF filled
<1>6. Len(filled) \in Nat /\ Len(filled) <= Capacity
  BY <1>1, <1>2, <1>5
<1>7. pending' \in Seq(Frames) /\ Len(pending') <= Capacity
  BY <1>1, <1>3, <1>5, <1>6, SubSeqFrames
<1>8. chan' \in Seq(Frames) /\ Len(chan') <= Capacity
  BY <1>1, <1>2, <1>3, SubSeqFrames DEF QueueTypeOK
<1> QED
  BY <1>3, <1>7, <1>8, ResolveTypes DEF Outcomes

\* The worker starts with nothing queued and nothing in its hand.
LEMMA TxInvInit == TxWorkerInit => TxInv
<1> SUFFICES ASSUME TxWorkerInit PROVE TxInv
  OBVIOUS
<1>1. SharedTypeOK
  <2>1. commands \in Seq(Commands) /\ Len(commands) <= QueueBound
    BY EmptySeq, ChannelsAssumption DEF TxWorkerInit, ChannelInit
  <2>2. linkState \in LinkStates
    BY DEF TxWorkerInit, ChannelInit, LinkStates
  <2> QED
    BY <2>1, <2>2 DEF TxWorkerInit, ChannelInit, SharedTypeOK, TxGates
<1>2. HandInv
  BY DEF TxWorkerInit, TxInit, HandInv
<1>3. QueueTypeOK
  BY EmptySeq, TxAssumption DEF TxWorkerInit, TxInit, QueueTypeOK, StagedIsBounded
<1>4. LoopTypeOK
  BY TxAssumption DEF TxWorkerInit, TxInit, LoopTypeOK, TxPlaces, TxGates
<1>5. RecordTypeOK
  BY EmptySeq, TxAssumption DEF TxWorkerInit, TxInit, RecordTypeOK, Outcomes
<1> QED
  BY <1>1, <1>2, <1>3, <1>4, <1>5 DEF TxInv

\* Steps that leave the channels alone keep their types.
LEMMA SharedTypeStable == SharedTypeOK /\ UNCHANGED channelVars => SharedTypeOK'
BY DEF SharedTypeOK, channelVars, stateWatch, gateWatch, txWatch, tasks

\* Putting a frame back, or sending it, keeps the types.
LEMMA SendTypes ==
  ASSUME TxInv,
         \/ BorrowNone \/ BorrowSome \/ SendOk \/ SendRetries \/ SendGivesUp
         \/ \E k \in {"Fatal", "Permanent"} : SendFaults(k)
  PROVE  TxInv'
<1> USE FrameFacts DEF TxInv
<1>1. inflight \in Frames
  BY DEF HandInv, QueueTypeOK, BorrowNone, BorrowSome, SendOk, SendRetries, SendGivesUp, SendFaults
<1>2. Len(pending) \in Nat /\ Len(pending) + 1 <= Capacity
  BY <1>1, LenProperties DEF QueueTypeOK, StagedIsBounded
<1>3. <<inflight>> \o pending \in Seq(Frames) /\ Len(<<inflight>> \o pending) <= Capacity
  BY <1>1, <1>2, ConcatProperties DEF QueueTypeOK
<1>4. SharedTypeOK'
  BY SharedTypeStable
  DEF BorrowNone, BorrowSome, SendOk, SendRetries, SendGivesUp, SendFaults
<1>5. CASE BorrowNone
  BY <1>3, <1>4, <1>5 DEF BorrowNone, PutBack, Goto, HandInv, QueueTypeOK, LoopTypeOK,
     RecordTypeOK, TxPlaces, StagedIsBounded, sending, record
<1>6. CASE BorrowSome
  <2>1. transportWatch \in Transports
    BY <1>6 DEF BorrowSome, SharedTypeOK
  <2> QED
    BY <1>1, <1>4, <1>6, <2>1, TxAssumption DEF BorrowSome, HandInv, QueueTypeOK, LoopTypeOK,
       RecordTypeOK, TxPlaces, StagedIsBounded, queue, record
<1>7. CASE SendOk
  <2>1. old' \subseteq Frames /\ outcome' \in [Frames -> Outcomes]
    BY <1>7, ResolveTypes DEF SendOk, Outcomes
  <2>2. bus' \in Seq(Frames)
    BY <1>1, <1>7, AppendProperties DEF SendOk, RecordTypeOK
  <2> QED
    BY <1>2, <1>4, <1>7, <2>1, <2>2, TxAssumption DEF SendOk, Again, Leave, HandInv,
       QueueTypeOK, LoopTypeOK, RecordTypeOK, TxPlaces, TxGates, StagedIsBounded
<1>8. CASE SendRetries
  BY <1>4, <1>8, TxAssumption DEF SendRetries, HandInv, QueueTypeOK, LoopTypeOK,
     RecordTypeOK, StagedIsBounded, queue, record
<1>9. CASE SendGivesUp
  <2>1. old' \subseteq Frames /\ outcome' \in [Frames -> Outcomes]
    BY <1>9, ResolveTypes DEF SendGivesUp, Outcomes
  <2> QED
    BY <1>2, <1>4, <1>9, <2>1, TxAssumption DEF SendGivesUp, Again, Leave, HandInv,
       QueueTypeOK, LoopTypeOK, RecordTypeOK, TxPlaces, TxGates, StagedIsBounded
<1>10. ASSUME NEW k \in {"Fatal", "Permanent"}, SendFaults(k) PROVE TxInv'
  BY <1>3, <1>4, <1>10 DEF SendFaults, PutBack, HandInv, QueueTypeOK, LoopTypeOK,
     RecordTypeOK, TxPlaces, StagedIsBounded, record
<1> QED
  BY <1>5, <1>6, <1>7, <1>8, <1>9, <1>10

\* Taking a frame, or answering one that has expired, keeps the types.
LEMMA LoopTakeTypes ==
  ASSUME TxInv, Top \/ TakeNothing \/ TakeExpired \/ TakeFresh
  PROVE  TxInv'
<1> USE FrameFacts DEF TxInv
<1>1. inflight = NoFrame
  BY DEF HandInv, Top, TakeNothing, TakeExpired, TakeFresh
<1>2. SharedTypeOK'
  BY SharedTypeStable DEF Top, TakeNothing, TakeExpired, TakeFresh
<1>3. CASE Top
  <2>1. wGate' = gate /\ worker' \in {"take", "drain", "hold"}
    BY <1>3 DEF Top, SharedTypeOK, TxGates
  <2> QED
    BY <1>1, <1>2, <1>3, <2>1 DEF Top, HandInv, QueueTypeOK, LoopTypeOK, RecordTypeOK, TxPlaces,
       SharedTypeOK, StagedIsBounded, queue, sending, record
<1>4. CASE TakeNothing
  BY <1>1, <1>2, <1>4 DEF TakeNothing, Goto, HandInv, QueueTypeOK, LoopTypeOK, RecordTypeOK,
     TxPlaces, StagedIsBounded, queue, sending, record
<1>5. CASE TakeExpired
  <2>1. old' \subseteq Frames /\ outcome' \in [Frames -> Outcomes]
    BY <1>5, ResolveTypes DEF TakeExpired, Outcomes
  <2>2. /\ pending' \in Seq(Frames) /\ Len(pending') + 1 <= Capacity
        /\ chan' \in Seq(Frames) /\ Len(chan') <= Capacity
    BY <1>1, <1>5, OldestTypes DEF TakeExpired
  <2>3. Len(pending') \in Nat
    BY <2>2, LenProperties
  <2> QED
    BY <1>1, <1>2, <1>5, <2>1, <2>2, <2>3, TxAssumption DEF TakeExpired, Again, Leave, HandInv,
       QueueTypeOK, LoopTypeOK, RecordTypeOK, TxPlaces, TxGates, StagedIsBounded
<1>6. CASE TakeFresh
  <2>1. /\ Oldest \in Frames
        /\ pending' \in Seq(Frames) /\ Len(pending') + 1 <= Capacity
        /\ chan' \in Seq(Frames) /\ Len(chan') <= Capacity
    BY <1>1, <1>6, OldestTypes DEF TakeFresh
  <2> QED
    BY <1>1, <1>2, <1>6, <2>1 DEF TakeFresh, Goto, HandInv, QueueTypeOK, LoopTypeOK,
       RecordTypeOK, TxPlaces, StagedIsBounded, sending, record
<1> QED
  BY <1>3, <1>4, <1>5, <1>6

\* The fault fits the command queue, which had room for it.
LEMMA FaultTypes ==
  ASSUME TxInv, PostFault
  PROVE  TxInv'
<1> USE FrameFacts DEF TxInv
<1>1. inflight = NoFrame /\ held \in Transports /\ faultKind \in {"Fatal", "Permanent"}
  BY DEF PostFault, HandInv, LoopTypeOK
<1>2. TxFault(faultKind, held) \in Commands
  BY <1>1 DEF Commands
<1>3. commands' \in Seq(Commands) /\ Len(commands') <= QueueBound
  <2>1. CASE supAlive
    <3>1. Len(commands) \in Nat /\ Len(commands) < QueueBound
      BY <2>1, LenProperties DEF PostFault, SharedTypeOK
    <3> QED
      BY <1>2, <2>1, <3>1, AppendProperties, ChannelsAssumption DEF PostFault, SharedTypeOK
  <2> QED
    BY <2>1 DEF PostFault, SharedTypeOK
<1>4. SharedTypeOK'
  BY <1>3 DEF PostFault, SharedTypeOK, stateWatch, gateWatch, txWatch, tasks
<1> QED
  BY <1>1, <1>4, TxAssumption DEF PostFault, Again, Leave, HandInv, QueueTypeOK, LoopTypeOK,
     RecordTypeOK, TxPlaces, TxGates, StagedIsBounded, queue, record

\* Emptying the queues, filling the staged segment, and the select.
LEMMA ParkTypes ==
  ASSUME TxInv,
         Drain \/ Hold \/ SeeTransport \/ SeeGate \/ ParkReceives \/ ParkExpires \/ Exits
  PROVE  TxInv'
<1> USE FrameFacts DEF TxInv
<1>1. inflight = NoFrame
  BY DEF HandInv, Drain, Hold, SeeTransport, SeeGate, ParkReceives, ParkExpires, Exits
<1>2. Len(pending) \in Nat /\ Len(pending) <= Capacity
  BY <1>1, LenProperties DEF QueueTypeOK, StagedIsBounded
<1>3. <<>> \in Seq(Frames) /\ Len(<<>>) = 0
  BY EmptySeq
<1>4. CASE Drain
  <2>1. old' \subseteq Frames /\ outcome' \in [Frames -> Outcomes]
    BY <1>4, ResolveTypes DEF Drain, Outcomes
  <2>2. SharedTypeOK'
    BY <1>4, SharedTypeStable DEF Drain
  <2> QED
    BY <1>1, <1>3, <1>4, <2>1, <2>2 DEF Drain, Goto, HandInv, QueueTypeOK, LoopTypeOK,
       RecordTypeOK, TxPlaces, StagedIsBounded, sending
<1>5. CASE Hold
  <2>1. /\ pending' \in Seq(Frames) /\ Len(pending') <= Capacity
        /\ chan' \in Seq(Frames) /\ Len(chan') <= Capacity
        /\ old' \subseteq Frames /\ outcome' \in [Frames -> Outcomes]
    BY <1>1, <1>5, HoldTypes
  <2>2. SharedTypeOK'
    BY <1>5, SharedTypeStable DEF Hold
  <2>3. /\ worker = "hold" /\ worker' = "park"
        /\ UNCHANGED <<wGate, held, retry, faultKind, inflight, accepted, bus, sender>>
    BY <1>5 DEF Hold, Goto, sending
  <2>4. Len(pending') \in Nat
    BY <2>1, LenProperties
  <2> QED
    BY <1>1, <2>1, <2>2, <2>3, <2>4 DEF HandInv, QueueTypeOK, LoopTypeOK, RecordTypeOK,
       TxPlaces, StagedIsBounded
<1>6. CASE SeeTransport \/ SeeGate
  <2>1. SharedTypeOK'
    BY <1>6 DEF SeeTransport, SeeGate, SharedTypeOK, stateWatch, gateWatch, txWatch, tasks
  <2> QED
    BY <1>1, <1>6, <2>1, TxAssumption DEF SeeTransport, SeeGate, Again, Leave, HandInv,
       QueueTypeOK, LoopTypeOK, RecordTypeOK, TxPlaces, TxGates, StagedIsBounded, queue, record
<1>7. CASE ParkReceives
  <2>1. /\ Head(chan) \in Frames /\ Tail(chan) \in Seq(Frames)
        /\ Len(Tail(chan)) = Len(chan) - 1
    BY <1>7, HeadTailProperties DEF ParkReceives, QueueTypeOK
  <2>2. /\ Append(pending, Head(chan)) \in Seq(Frames)
        /\ Len(Append(pending, Head(chan))) = Len(pending) + 1
    BY <2>1, AppendProperties DEF QueueTypeOK
  <2>3. SharedTypeOK' /\ Len(chan) \in Nat
    BY <1>7, SharedTypeStable, LenProperties DEF ParkReceives, QueueTypeOK
  <2> QED
    BY <1>1, <1>2, <1>7, <2>1, <2>2, <2>3, TxAssumption DEF ParkReceives, Again, Leave, HandInv,
       QueueTypeOK, LoopTypeOK, RecordTypeOK, TxPlaces, TxGates, StagedIsBounded, record
<1>8. CASE ParkExpires
  <2>1. SharedTypeOK'
    BY <1>8, SharedTypeStable DEF ParkExpires
  <2> QED
    BY <1>1, <1>8, <2>1, TxAssumption DEF ParkExpires, Again, Leave, HandInv, QueueTypeOK,
       LoopTypeOK, RecordTypeOK, TxPlaces, TxGates, StagedIsBounded, queue, record
<1>9. CASE Exits
  <2>1. old' \subseteq Frames /\ outcome' \in [Frames -> Outcomes]
    BY <1>9, ResolveTypes DEF Exits, Outcomes
  <2>2. SharedTypeOK'
    BY <1>9 DEF Exits, SharedTypeOK, stateWatch, gateWatch, txWatch
  <2> QED
    BY <1>1, <1>3, <1>9, <2>1, <2>2, TxAssumption DEF Exits, Leave, HandInv, QueueTypeOK,
       LoopTypeOK, RecordTypeOK, TxPlaces, TxGates, StagedIsBounded
<1> QED
  BY <1>4, <1>5, <1>6, <1>7, <1>8, <1>9

\* The clients, the passing of time, and the loss of the worker.
LEMMA ClientTypes ==
  ASSUME TxInv, TxClients \/ Panics
  PROVE  TxInv'
<1> USE FrameFacts DEF TxInv
<1>1. ASSUME NEW s \in Senders, SendCalled(s) \/ SendRefused(s) PROVE TxInv'
  <2>1. SharedTypeOK'
    BY <1>1, SharedTypeStable DEF SendCalled, SendRefused
  <2> QED
    BY <1>1, <2>1 DEF SendCalled, SendRefused, HandInv, QueueTypeOK, LoopTypeOK, RecordTypeOK,
       StagedIsBounded, queue, sending, record
<1>2. ASSUME NEW s \in Senders, SendQueued(s) PROVE TxInv'
  <2>1. SharedTypeOK'
    BY <1>2, SharedTypeStable DEF SendQueued
  <2>2. accepted + 1 \in Frames /\ accepted' \in 0..MaxFrames
    BY <1>2, TxAssumption DEF SendQueued, RecordTypeOK, Frames
  <2>3. chan' \in Seq(Frames) /\ Len(chan') <= Capacity
    <3>1. Len(chan) \in Nat /\ Len(chan) < Capacity
      BY <1>2, LenProperties DEF SendQueued, QueueTypeOK
    <3> QED
      BY <1>2, <2>2, <3>1, AppendProperties DEF SendQueued, QueueTypeOK
  <2> QED
    BY <1>2, <2>1, <2>2, <2>3 DEF SendQueued, HandInv, QueueTypeOK, LoopTypeOK, RecordTypeOK,
       StagedIsBounded, Outcomes, sending
<1>3. ASSUME NEW i \in Frames, Age(i) PROVE TxInv'
  <2>1. SharedTypeOK'
    BY <1>3, SharedTypeStable DEF Age
  <2> QED
    BY <1>3, <2>1 DEF Age, HandInv, QueueTypeOK, LoopTypeOK, RecordTypeOK, StagedIsBounded,
       queue, sending
<1>4. CASE Panics
  <2>1. <<>> \in Seq(Frames) /\ Len(<<>>) = 0
    BY EmptySeq
  <2>2. old' \subseteq Frames /\ outcome' \in [Frames -> Outcomes]
    BY <1>4, ResolveTypes DEF Panics, Outcomes
  <2>3. SharedTypeOK'
    BY <1>4 DEF Panics, FatalGuard, PublishGate, PublishState, SharedTypeOK, LinkStates,
       TxGates, stateWatch, gateWatch, txWatch
  <2> QED
    BY <1>4, <2>1, <2>2, <2>3, TxAssumption DEF Panics, Leave, HandInv, QueueTypeOK,
       LoopTypeOK, RecordTypeOK, TxPlaces, TxGates, StagedIsBounded
<1> QED
  BY <1>1, <1>2, <1>3, <1>4 DEF TxClients

\* Steps that leave the worker alone keep its types.
LEMMA WorkerTypesStable ==
  HandInv /\ QueueTypeOK /\ LoopTypeOK /\ RecordTypeOK /\ UNCHANGED workerVars
    => HandInv' /\ QueueTypeOK' /\ LoopTypeOK' /\ RecordTypeOK'
BY DEF HandInv, QueueTypeOK, LoopTypeOK, RecordTypeOK, StagedIsBounded, workerVars, queue,
   sending, record

\* The other tasks leave the worker alone and keep the types of the channels.
LEMMA EnvironmentTypes ==
  ASSUME TxInv, Environment
  PROVE  TxInv'
<1> USE DEF TxInv
<1>1. UNCHANGED workerVars
  BY DEF Environment, RestOfWorker, EnvState, EnvTakes, EnvGate, EnvPublishes, EnvWithdraws,
     EnvTransport, EnvAsks, EnvEnds, EnvSchedulerEnds, EnvDrops
<1>2. commands # <<>> /\ commands' = Tail(commands)
        => commands' \in Seq(Commands) /\ Len(commands') <= QueueBound
  <2> SUFFICES ASSUME commands # <<>>, commands' = Tail(commands)
               PROVE  commands' \in Seq(Commands) /\ Len(commands') <= QueueBound
    OBVIOUS
  <2>1. Len(commands) \in Nat /\ Len(commands) <= QueueBound
    BY LenProperties DEF SharedTypeOK
  <2>2. Tail(commands) \in Seq(Commands) /\ Len(Tail(commands)) = Len(commands) - 1
    BY HeadTailProperties DEF SharedTypeOK
  <2> QED
    BY <2>1, <2>2, ChannelsAssumption
<1>3. ASSUME NEW s \in LinkStates, EnvState(s) PROVE SharedTypeOK'
  BY <1>2, <1>3 DEF EnvState, PublishState, SharedTypeOK, gateWatch, txWatch, tasks
<1>4. ASSUME EnvTakes PROVE SharedTypeOK'
  BY <1>2, <1>4 DEF EnvTakes, SharedTypeOK, stateWatch, gateWatch, txWatch, tasks
<1>5. ASSUME NEW g \in TxGates, EnvGate(g) PROVE SharedTypeOK'
  BY <1>5 DEF EnvGate, PublishGate, SharedTypeOK, stateWatch, gateWatch, txWatch, tasks
<1>6. ASSUME NEW t \in Transports, EnvPublishes(t) PROVE SharedTypeOK'
  BY <1>6 DEF EnvPublishes, PublishTransport, SharedTypeOK, stateWatch, gateWatch, txWatch, tasks
<1>7. ASSUME EnvWithdraws PROVE SharedTypeOK'
  BY <1>7 DEF EnvWithdraws, PublishTransport, SharedTypeOK, stateWatch, gateWatch, txWatch, tasks
<1>8. ASSUME NEW t \in Transports, NEW n \in {"open", "closing", "closed"}, EnvTransport(t, n)
      PROVE  SharedTypeOK'
  BY <1>8 DEF EnvTransport, SharedTypeOK, stateWatch, gateWatch, txWatch, tasks
<1>9. ASSUME NEW m \in Commands, EnvAsks(m) PROVE SharedTypeOK'
  <2>1. Len(commands) \in Nat /\ Len(commands) < QueueBound
    BY <1>9, LenProperties DEF EnvAsks, SharedTypeOK
  <2>2. commands' \in Seq(Commands) /\ Len(commands') <= QueueBound
    BY <1>9, <2>1, AppendProperties, ChannelsAssumption DEF EnvAsks, SharedTypeOK
  <2> QED
    BY <1>9, <2>2 DEF EnvAsks, SharedTypeOK, stateWatch, gateWatch, txWatch, tasks
<1>10. ASSUME EnvEnds PROVE SharedTypeOK'
  <2>1. commands' \in Seq(Commands) /\ Len(commands') <= QueueBound
    BY <1>10, EmptySeq, ChannelsAssumption DEF EnvEnds
  <2>2. linkState' \in LinkStates
    BY <1>10 DEF EnvEnds, FatalGuard, PublishState, SharedTypeOK, LinkStates, stateWatch
  <2>3. gate' \in TxGates /\ gateUnseen' \in BOOLEAN /\ cyclicClosed' \in BOOLEAN
    BY <1>10 DEF EnvEnds, FatalGuard, PublishGate, SharedTypeOK, TxGates, gateWatch
  <2> QED
    BY <1>10, <2>1, <2>2, <2>3 DEF EnvEnds, SharedTypeOK, txWatch
<1>11. ASSUME EnvSchedulerEnds PROVE SharedTypeOK'
  BY <1>11 DEF EnvSchedulerEnds, SharedTypeOK, stateWatch, gateWatch, txWatch
<1>12. ASSUME NEW h \in Handles, EnvDrops(h) PROVE SharedTypeOK'
  BY <1>12 DEF EnvDrops, SharedTypeOK, stateWatch, gateWatch, txWatch, tasks
<1>13. \A c \in Closers : CloseRequest(c) \in Commands
  BY DEF Commands
<1>14. \A f \in Asked : FilterRequest(f) \in Commands
  BY DEF Commands
<1>15. SharedTypeOK'
  BY <1>3, <1>4, <1>5, <1>6, <1>7, <1>8, <1>9, <1>10, <1>11, <1>12, <1>13, <1>14,
     ChannelsAssumption
  DEF Environment
<1> QED
  BY <1>1, <1>15, WorkerTypesStable

\* Every variable keeps its type, and the worker's hand what it knows, for all
\* capacities and numbers of frames (txqueue.rs 148-303).
THEOREM TxInvariance == TxWorkerSpec => []TxInv
<1>1. TxInv /\ [TxWorkerNext]_txVars => TxInv'
  <2> SUFFICES ASSUME TxInv, [TxWorkerNext]_txVars PROVE TxInv'
    OBVIOUS
  <2>1. CASE WorkerRuns
    BY <2>1, LoopTakeTypes, SendTypes, FaultTypes, ParkTypes DEF WorkerRuns
  <2>2. CASE Panics \/ TxClients
    BY <2>2, ClientTypes
  <2>3. CASE Environment
    BY <2>3, EnvironmentTypes
  <2>4. CASE UNCHANGED txVars
    <3>1. SharedTypeOK'
      BY <2>4 DEF TxInv, SharedTypeOK, txVars, gateWatch, txWatch, tasks
    <3> QED
      BY <2>4, <3>1, WorkerTypesStable DEF TxInv, txVars
  <2> QED
    BY <2>1, <2>2, <2>3, <2>4 DEF TxWorkerNext
<1> QED
  BY TxInvInit, <1>1, PTL DEF TxWorkerSpec

\* The ranges of the code's types hold in every state.
THEOREM TxTypesAlways == TxWorkerSpec => []TxTypeOK
<1> QED
  BY TxInvariance, TxInvTypes, PTL

\* The staged segment never exceeds its capacity, the frame put back included
\* (txqueue.rs 187, 214, 246-255 and 296-298).
THEOREM StagedAlwaysBounded == TxWorkerSpec => []StagedIsBounded
<1> QED
  BY TxInvariance, TxInvTypes, PTL
-----------------------------------------------------------------------------
(* What is taken for sending.                                              *)

\* A frame that grew old in one of the two queues is never taken for sending; the
\* age of the frame in the worker's hand is not looked at again (txqueue.rs 167-186).
THEOREM ExpiredNeverTaken == TxWorkerSpec => ExpiredIsNotTaken
<1>1. TxInv /\ [TxWorkerNext]_txVars
        => \A i \in Frames : i \in old /\ inflight # i => inflight' # i
  <2> SUFFICES ASSUME TxInv, [TxWorkerNext]_txVars
               PROVE  inflight' \in {inflight, NoFrame} \/ (inflight' = Oldest /\ Oldest \notin old)
    BY FrameFacts
  <2>1. CASE WorkerRuns
    <3>1. CASE TakeFresh
      BY <3>1 DEF TakeFresh
    <3>2. CASE ~TakeFresh
      BY <2>1, <3>2 DEF WorkerRuns, Top, TakeNothing, TakeExpired, BorrowNone, BorrowSome, SendOk,
         SendRetries, SendGivesUp, SendFaults, PostFault, Drain, Hold, SeeTransport, SeeGate,
         ParkReceives, ParkExpires, Exits, PutBack, queue
    <3> QED
      BY <3>1, <3>2
  <2>2. CASE Panics \/ TxClients
    BY <2>2 DEF Panics, TxClients, SendCalled, SendQueued, SendRefused, Age, queue
  <2>3. CASE Environment
    BY <2>3 DEF Environment, RestOfWorker, EnvState, EnvTakes, EnvGate, EnvPublishes,
       EnvWithdraws, EnvTransport, EnvAsks, EnvEnds, EnvSchedulerEnds, EnvDrops, workerVars, queue
  <2>4. CASE UNCHANGED txVars
    BY <2>4 DEF txVars, workerVars, queue
  <2> QED
    BY <2>1, <2>2, <2>3, <2>4 DEF TxWorkerNext
<1> QED
  BY TxInvariance, <1>1, PTL DEF TxWorkerSpec, ExpiredIsNotTaken

-----------------------------------------------------------------------------
(* One queue: lemmas about sequences of frames.                            *)

\* A frame before a sequence.
LEMMA ConsFrames ==
  ASSUME NEW x \in Frames, NEW s \in Seq(Frames)
  PROVE  /\ <<x>> \o s \in Seq(Frames) /\ Len(<<x>> \o s) = Len(s) + 1
         /\ <<x>> \o s # <<>> /\ Head(<<x>> \o s) = x /\ (<<x>> \o s)[1] = x
         /\ Tail(<<x>> \o s) = s /\ SubSeq(<<x>> \o s, 2, Len(<<x>> \o s)) = s
<1> DEFINE t == <<x>> \o s
<1>1. <<x>> \in Seq(Frames) /\ Len(<<x>>) = 1 /\ Len(s) \in Nat
  BY LenProperties
<1>2. /\ t \in Seq(Frames) /\ Len(t) = Len(s) + 1
      /\ \A i \in 1..(Len(s) + 1) : t[i] = IF i <= 1 THEN <<x>>[i] ELSE s[i - 1]
  BY <1>1, ConcatProperties
<1>3. t[1] = x /\ t # <<>>
  BY <1>1, <1>2, EmptySeq
<1> HIDE DEF t
<1>4. Head(t) = t[1] /\ Tail(t) \in Seq(Frames) /\ Len(Tail(t)) = Len(s)
      /\ \A i \in 1..Len(s) : Tail(t)[i] = t[i + 1]
  <2>1. /\ Tail(t) \in Seq(Frames) /\ Len(Tail(t)) = Len(t) - 1
        /\ \A i \in 1..Len(Tail(t)) : Tail(t)[i] = t[i + 1]
    BY <1>2, <1>3, HeadTailProperties
  <2> QED
    BY <1>1, <1>2, <1>3, <2>1
<1>5. \A i \in 1..Len(s) : t[i + 1] = s[i]
  BY <1>1, <1>2
<1>6. Tail(t) = s
  BY <1>4, <1>5, SeqEqual
<1>7. SubSeq(t, 2, Len(t)) = s
  BY <1>2, <1>3, <1>6, TailIsSubSeq
<1> QED
  BY <1>2, <1>3, <1>4, <1>6, <1>7 DEF t

\* A sequence that is not empty is its head before its tail.
LEMMA UnconsFrames ==
  ASSUME NEW s \in Seq(Frames), s # <<>>
  PROVE  /\ Head(s) \in Frames /\ Tail(s) \in Seq(Frames)
         /\ s = <<Head(s)>> \o Tail(s)
<1>1. /\ Head(s) \in Frames /\ Tail(s) \in Seq(Frames) /\ Len(Tail(s)) = Len(s) - 1
      /\ \A i \in 1..Len(Tail(s)) : Tail(s)[i] = s[i + 1]
  BY HeadTailProperties
<1>2. Len(s) \in Nat /\ Len(s) # 0
  BY EmptySeq, LenProperties
<1> DEFINE t == <<Head(s)>> \o Tail(s)
<1>3. /\ t \in Seq(Frames) /\ Len(t) = Len(s)
      /\ \A i \in 1..Len(s) : t[i] = IF i <= 1 THEN Head(s) ELSE Tail(s)[i - 1]
  <2>1. <<Head(s)>> \in Seq(Frames) /\ Len(<<Head(s)>>) = 1 /\ <<Head(s)>>[1] = Head(s)
    BY <1>1
  <2>2. /\ t \in Seq(Frames) /\ Len(t) = 1 + Len(Tail(s))
        /\ \A i \in 1..(1 + Len(Tail(s))) :
             t[i] = IF i <= 1 THEN <<Head(s)>>[i] ELSE Tail(s)[i - 1]
    BY <1>1, <2>1, ConcatProperties
  <2> QED
    BY <1>1, <1>2, <2>1, <2>2
<1> HIDE DEF t
<1>4. \A i \in 1..Len(s) : s[i] = t[i]
  BY <1>1, <1>2, <1>3
<1>5. s = t
  BY <1>3, <1>4, SeqEqual
<1> QED
  BY <1>1, <1>5 DEF t

\* Dropping from the front of the first of two sequences drops from the front of both.
LEMMA DropFront ==
  ASSUME NEW s \in Seq(Frames), NEW t \in Seq(Frames), NEW n \in 0..Len(s)
  PROVE  /\ SubSeq(s, n + 1, Len(s)) \o t = SubSeq(s \o t, n + 1, Len(s \o t))
         /\ \A k \in 1..n : SubSeq(s, 1, n)[k] = (s \o t)[k]
         /\ Len(SubSeq(s, 1, n)) = n
<1> DEFINE st == s \o t
           a == SubSeq(s, n + 1, Len(s))
           b == SubSeq(st, n + 1, Len(st))
           f == SubSeq(s, 1, n)
<1>1. Len(s) \in Nat /\ Len(t) \in Nat /\ n \in Nat
  BY LenProperties
<1>2. /\ st \in Seq(Frames) /\ Len(st) = Len(s) + Len(t)
      /\ \A i \in 1..(Len(s) + Len(t)) : st[i] = IF i <= Len(s) THEN s[i] ELSE t[i - Len(s)]
  BY ConcatProperties
<1> HIDE DEF st
<1>3. (\A i \in (n + 1)..Len(s) : s[i] \in Frames) /\ (\A i \in 1..n : s[i] \in Frames)
  BY <1>1, ElementOfSeq
<1>4. \A i \in (n + 1)..Len(st) : st[i] \in Frames
  BY <1>1, <1>2, ElementOfSeq
<1>5. /\ a \in Seq(Frames) /\ Len(a) = Len(s) - n
      /\ \A i \in 1..(Len(s) - n) : a[i] = s[n + i]
  <2>1. /\ a \in Seq(Frames)
        /\ Len(a) = IF n + 1 <= Len(s) THEN Len(s) - (n + 1) + 1 ELSE 0
        /\ \A i \in 1..(Len(s) - (n + 1) + 1) : a[i] = s[n + 1 + i - 1]
    BY <1>1, <1>3, SubSeqProperties
  <2>2. Len(a) = Len(s) - n
    BY <1>1, <2>1
  <2>3. ASSUME NEW i \in 1..(Len(s) - n) PROVE a[i] = s[n + i]
    <3>1. i \in 1..(Len(s) - (n + 1) + 1) /\ n + 1 + i - 1 = n + i
      BY <1>1
    <3> QED
      BY <2>1, <3>1
  <2> QED
    BY <2>1, <2>2, <2>3
<1>6. /\ b \in Seq(Frames) /\ Len(b) = Len(s) + Len(t) - n
      /\ \A i \in 1..(Len(s) + Len(t) - n) : b[i] = st[n + i]
  <2>1. /\ b \in Seq(Frames)
        /\ Len(b) = IF n + 1 <= Len(st) THEN Len(st) - (n + 1) + 1 ELSE 0
        /\ \A i \in 1..(Len(st) - (n + 1) + 1) : b[i] = st[n + 1 + i - 1]
    BY <1>1, <1>2, <1>4, SubSeqProperties
  <2>2. Len(b) = Len(s) + Len(t) - n
    BY <1>1, <1>2, <2>1
  <2>3. ASSUME NEW i \in 1..(Len(s) + Len(t) - n) PROVE b[i] = st[n + i]
    <3>1. i \in 1..(Len(st) - (n + 1) + 1) /\ n + 1 + i - 1 = n + i
      BY <1>1, <1>2
    <3> QED
      BY <2>1, <3>1
  <2> QED
    BY <2>1, <2>2, <2>3
<1>7. /\ Len(f) = n /\ \A i \in 1..n : f[i] = s[i]
  <2>1. /\ Len(f) = IF 1 <= n THEN n - 1 + 1 ELSE 0
        /\ \A i \in 1..(n - 1 + 1) : f[i] = s[1 + i - 1]
    BY <1>1, <1>3, SubSeqProperties
  <2>2. Len(f) = n
    BY <1>1, <2>1
  <2>3. ASSUME NEW i \in 1..n PROVE f[i] = s[i]
    <3>1. i \in 1..(n - 1 + 1) /\ 1 + i - 1 = i
      BY <1>1
    <3> QED
      BY <2>1, <3>1
  <2> QED
    BY <2>2, <2>3
<1> HIDE DEF a, b, f
<1>8. /\ a \o t \in Seq(Frames) /\ Len(a \o t) = Len(a) + Len(t)
      /\ \A i \in 1..(Len(a) + Len(t)) : (a \o t)[i] = IF i <= Len(a) THEN a[i] ELSE t[i - Len(a)]
  BY <1>5, ConcatProperties
<1>9. Len(a \o t) = Len(b)
  BY <1>1, <1>5, <1>6, <1>8
<1>10. ASSUME NEW i \in 1..Len(a \o t) PROVE (a \o t)[i] = b[i]
  <2>1. i \in 1..(Len(s) + Len(t) - n) /\ b[i] = st[n + i] /\ n + i \in 1..(Len(s) + Len(t))
    BY <1>1, <1>6, <1>9
  <2>2. CASE i <= Len(s) - n
    <3>1. (a \o t)[i] = a[i] /\ a[i] = s[n + i]
      BY <1>1, <1>5, <1>8, <2>1, <2>2
    <3>2. st[n + i] = s[n + i]
      BY <1>1, <1>2, <2>1, <2>2
    <3> QED
      BY <2>1, <3>1, <3>2
  <2>3. CASE ~(i <= Len(s) - n)
    <3>1. (a \o t)[i] = t[i - Len(a)] /\ Len(a) = Len(s) - n
      BY <1>1, <1>5, <1>8, <2>1, <2>3
    <3>2. st[n + i] = t[n + i - Len(s)]
      BY <1>1, <1>2, <2>1, <2>3
    <3>3. n + i - Len(s) = i - (Len(s) - n)
      BY <1>1, <2>1
    <3> QED
      BY <2>1, <3>1, <3>2, <3>3
  <2> QED
    BY <2>2, <2>3
<1>11. a \o t = b
  BY <1>6, <1>8, <1>9, <1>10, SeqEqual
<1>12. \A k \in 1..n : f[k] = st[k]
  BY <1>1, <1>2, <1>7
<1> QED
  BY <1>7, <1>11, <1>12 DEF a, b, f, st
-----------------------------------------------------------------------------
(* One queue: how the worker's steps move it.                              *)

\* With nothing in the worker's hand the queue is the staged frames, then the channel.
LEMMA QueueIdle ==
  ASSUME QueueTypeOK, inflight = NoFrame
  PROVE  Unanswered = pending \o chan /\ Unanswered \in Seq(Frames)
<1>1. pending \in Seq(Frames) /\ chan \in Seq(Frames)
  BY DEF QueueTypeOK
<1>2. <<>> \o pending = pending
  BY <1>1, ConcatEmptySeq
<1>3. pending \o chan \in Seq(Frames)
  BY <1>1, ConcatProperties
<1> QED
  BY <1>2, <1>3 DEF Unanswered

\* The frame in its hand is in front of them.
LEMMA QueueInHand ==
  ASSUME QueueTypeOK, inflight # NoFrame
  PROVE  /\ Unanswered = <<inflight>> \o (pending \o chan)
         /\ Unanswered = (<<inflight>> \o pending) \o chan
         /\ Unanswered \in Seq(Frames) /\ Len(Unanswered) \in Nat \ {0}
         /\ Unanswered # <<>> /\ Head(Unanswered) = inflight /\ Unanswered[1] = inflight
         /\ Tail(Unanswered) = pending \o chan
         /\ SubSeq(Unanswered, 2, Len(Unanswered)) = pending \o chan
<1>1. /\ pending \in Seq(Frames) /\ chan \in Seq(Frames) /\ inflight \in Frames
      /\ <<inflight>> \in Seq(Frames)
  BY DEF QueueTypeOK
<1>2. pending \o chan \in Seq(Frames)
  BY <1>1, ConcatProperties
<1>3. Unanswered = (<<inflight>> \o pending) \o chan
  BY DEF Unanswered
<1>4. (<<inflight>> \o pending) \o chan = <<inflight>> \o (pending \o chan)
  BY <1>1, ConcatAssociative
<1>5. Len(pending \o chan) \in Nat
  BY <1>2, LenProperties
<1> DEFINE rest == pending \o chan
<1>6. Unanswered = <<inflight>> \o rest
  BY <1>3, <1>4
<1>7. rest \in Seq(Frames) /\ Len(rest) \in Nat
  BY <1>2, <1>5
<1> HIDE DEF rest
<1>8. /\ Unanswered \in Seq(Frames) /\ Len(Unanswered) = Len(rest) + 1
      /\ Unanswered # <<>> /\ Head(Unanswered) = inflight /\ Unanswered[1] = inflight
      /\ Tail(Unanswered) = rest /\ SubSeq(Unanswered, 2, Len(Unanswered)) = rest
  BY <1>1, <1>6, <1>7, ConsFrames
<1>9. Len(Unanswered) \in Nat \ {0}
  BY <1>7, <1>8
<1> QED
  BY <1>3, <1>6, <1>8, <1>9 DEF rest

\* The steps of the queue, with the number of frames the channel has accepted.
Delivered == OneQueue!Deliver /\ accepted' = accepted
Lost      == (\E n \in 1..Len(Unanswered), r \in OneQueue!Losses : OneQueue!Lose(n, r))
               /\ accepted' = accepted
Joined    == /\ accepted' = accepted + 1 /\ accepted' \in Frames
             /\ Unanswered' = Append(Unanswered, accepted')
             /\ outcome' = [outcome EXCEPT ![accepted'] = "queued"]
             /\ bus' = bus
Kept      == UNCHANGED <<Unanswered, bus, outcome, accepted>>
QueueMoved     == Delivered \/ Lost \/ Joined \/ Kept

\* What a step that answers the n frames at the front with one loss does.
LEMMA LoseFront ==
  ASSUME RecordTypeOK, Unanswered \in Seq(Frames), NEW n \in 0..Len(Unanswered),
         NEW r \in {"expired", "failed", "dropped", "closed"},
         NEW s, DOMAIN s = 1..n, \A k \in 1..n : s[k] = Unanswered[k],
         Resolve(s, r),
         Unanswered' = SubSeq(Unanswered, n + 1, Len(Unanswered)),
         UNCHANGED <<bus, accepted>>
  PROVE  Lost \/ Kept
<1>1. outcome' = [i \in Frames |->
                    IF \E k \in 1..n : Unanswered[k] = i THEN r ELSE outcome[i]]
  BY DEF Resolve
<1>2. CASE n = 0
  <2>1. outcome' = outcome
    BY <1>1, <1>2 DEF RecordTypeOK
  <2>2. Unanswered' = Unanswered
    BY <1>2, SubSeqFull
  <2> QED
    BY <2>1, <2>2 DEF Kept
<1>3. CASE n # 0
  <2>1. n \in 1..Len(Unanswered) /\ r \in OneQueue!Losses
    BY <1>3 DEF OneQueue!Losses
  <2>2. OneQueue!Lose(n, r)
    BY <1>1 DEF OneQueue!Lose, OneQueue!FrameNumbers, Frames
  <2> QED
    BY <2>1, <2>2 DEF Lost
<1> QED
  BY <1>2, <1>3

\* Taking the oldest frame takes the front of the queue.
LEMMA OldestIsFront ==
  ASSUME QueueTypeOK, pending \o chan # <<>>, RemoveOldest
  PROVE  /\ Oldest \in Frames /\ pending' \o chan' \in Seq(Frames)
         /\ pending \o chan = <<Oldest>> \o (pending' \o chan')
<1>1. pending \in Seq(Frames) /\ chan \in Seq(Frames)
  BY DEF QueueTypeOK
<1>2. CASE pending # <<>>
  <2>1. /\ Head(pending) \in Frames /\ Tail(pending) \in Seq(Frames)
        /\ pending = <<Head(pending)>> \o Tail(pending)
    BY <1>1, <1>2, UnconsFrames
  <2>2. pending' = Tail(pending) /\ chan' = chan
    BY <1>2 DEF RemoveOldest
  <2> DEFINE h == Head(pending)
             t == Tail(pending)
  <2>3. <<h>> \in Seq(Frames)
    BY <2>1
  <2> HIDE DEF h, t
  <2>4. (<<h>> \o t) \o chan = <<h>> \o (t \o chan) /\ t \o chan \in Seq(Frames)
    BY <1>1, <2>1, <2>3, ConcatAssociative, ConcatProperties DEF h, t
  <2>5. pending \o chan = <<h>> \o (t \o chan)
    BY <2>1, <2>4 DEF h, t
  <2>6. Head(pending \o chan) = h
    BY <2>1, <2>4, <2>5, ConsFrames DEF h
  <2> QED
    BY <2>1, <2>2, <2>4, <2>5, <2>6 DEF Oldest, h, t
<1>3. CASE pending = <<>>
  <2>1. pending \o chan = chan
    BY <1>1, <1>3, ConcatEmptySeq
  <2>2. /\ Head(chan) \in Frames /\ Tail(chan) \in Seq(Frames)
        /\ chan = <<Head(chan)>> \o Tail(chan)
    BY <1>1, <2>1, UnconsFrames
  <2>3. pending' = <<>> /\ chan' = Tail(chan)
    BY <1>3 DEF RemoveOldest
  <2>4. pending' \o chan' = Tail(chan)
    BY <2>2, <2>3, ConcatEmptySeq
  <2> QED
    BY <2>1, <2>2, <2>4 DEF Oldest
<1> QED
  BY <1>2, <1>3

\* Taking a frame to send it, and putting it back, move nothing.
LEMMA HandMoves ==
  ASSUME TxInv, TakeFresh \/ BorrowNone \/ \E k \in {"Fatal", "Permanent"} : SendFaults(k)
  PROVE  Kept
<1> USE DEF TxInv
<1>1. UNCHANGED <<bus, outcome, accepted>>
  BY DEF TakeFresh, BorrowNone, SendFaults, record
<1>2. CASE TakeFresh
  <2>1. /\ inflight = NoFrame /\ pending \o chan # <<>> /\ RemoveOldest /\ inflight' = Oldest
    BY <1>2 DEF TakeFresh, HandInv
  <2>2. Unanswered = pending \o chan
    BY <2>1, QueueIdle
  <2>3. /\ Oldest \in Frames
        /\ pending \o chan = <<Oldest>> \o (pending' \o chan')
    BY <2>1, OldestIsFront
  <2>4. pending' \in Seq(Frames) /\ chan' \in Seq(Frames) /\ <<Oldest>> \in Seq(Frames)
    BY <2>1, <2>3, OldestTypes
  <2>5. (<<Oldest>> \o pending') \o chan' = <<Oldest>> \o (pending' \o chan')
    BY <2>4, ConcatAssociative
  <2>6. Unanswered' = (<<Oldest>> \o pending') \o chan'
    BY <2>1, <2>3, FrameFacts DEF Unanswered
  <2> QED
    BY <1>1, <2>2, <2>3, <2>5, <2>6 DEF Kept
<1>3. CASE BorrowNone \/ \E k \in {"Fatal", "Permanent"} : SendFaults(k)
  <2>1. /\ inflight # NoFrame
        /\ pending' = <<inflight>> \o pending /\ inflight' = NoFrame /\ chan' = chan
    BY <1>3 DEF BorrowNone, SendFaults, PutBack, HandInv
  <2>2. Unanswered = (<<inflight>> \o pending) \o chan
    BY <2>1, QueueInHand
  <2>3. <<inflight>> \o pending \in Seq(Frames)
    BY <2>1, ConsFrames DEF QueueTypeOK
  <2>4. <<>> \o pending' = pending'
    BY <2>1, <2>3, ConcatEmptySeq
  <2>5. Unanswered' = (<<inflight>> \o pending) \o chan
    BY <2>1, <2>4 DEF Unanswered
  <2> QED
    BY <1>1, <2>2, <2>5 DEF Kept
<1> QED
  BY <1>2, <1>3

\* A frame taken expired, or given up, leaves at the front.
LEMMA FrontMoves ==
  ASSUME TxInv, TakeExpired \/ SendOk \/ SendGivesUp
  PROVE  QueueMoved
<1> USE DEF TxInv
<1>1. CASE TakeExpired
  <2>1. /\ inflight = NoFrame /\ inflight' = NoFrame /\ pending \o chan # <<>> /\ RemoveOldest
        /\ Resolve(<<Oldest>>, "expired") /\ UNCHANGED <<bus, accepted>>
    BY <1>1 DEF TakeExpired, HandInv
  <2>2. Unanswered = pending \o chan /\ Unanswered \in Seq(Frames)
    BY <2>1, QueueIdle
  <2>3. /\ Oldest \in Frames /\ pending' \o chan' \in Seq(Frames)
        /\ pending \o chan = <<Oldest>> \o (pending' \o chan')
    BY <2>1, OldestIsFront
  <2>4. <<>> \o pending' = pending'
    BY <2>1, OldestTypes, ConcatEmptySeq
  <2>5. Unanswered' = pending' \o chan'
    BY <2>1, <2>4 DEF Unanswered
  <2>6. /\ Unanswered[1] = Oldest /\ Len(Unanswered) = Len(pending' \o chan') + 1
        /\ SubSeq(Unanswered, 2, Len(Unanswered)) = pending' \o chan'
    BY <2>2, <2>3, ConsFrames
  <2>7. Len(pending' \o chan') \in Nat
    BY <2>3, LenProperties
  <2>8. 1 \in 0..Len(Unanswered) /\ 1 + 1 = 2 /\ DOMAIN <<Oldest>> = 1..1
    BY <2>6, <2>7
  <2>9. \A k \in 1..1 : <<Oldest>>[k] = Unanswered[k]
    BY <2>6
  <2>10. Unanswered' = SubSeq(Unanswered, 1 + 1, Len(Unanswered))
    BY <2>5, <2>6, <2>8
  <2>11. Lost \/ Kept
    BY <2>1, <2>2, <2>8, <2>9, <2>10, LoseFront
  <2> QED
    BY <2>11 DEF QueueMoved
<1>2. CASE SendOk \/ SendGivesUp
  <2>1. /\ inflight # NoFrame /\ inflight' = NoFrame /\ UNCHANGED <<pending, chan, accepted>>
        /\ inflight \in Frames
    BY <1>2, FrameFacts DEF SendOk, SendGivesUp, HandInv, QueueTypeOK
  <2>2. /\ Unanswered \in Seq(Frames) /\ Len(Unanswered) \in Nat \ {0}
        /\ Unanswered # <<>> /\ Head(Unanswered) = inflight /\ Unanswered[1] = inflight
        /\ Tail(Unanswered) = pending \o chan
        /\ SubSeq(Unanswered, 2, Len(Unanswered)) = pending \o chan
    BY <2>1, QueueInHand
  <2>3. <<>> \o pending = pending
    BY ConcatEmptySeq DEF QueueTypeOK
  <2>4. Unanswered' = pending \o chan
    BY <2>1, <2>3 DEF Unanswered
  <2>5. CASE SendOk
    <3>1. bus' = Append(bus, inflight) /\ Resolve(<<inflight>>, "sent")
      BY <2>5 DEF SendOk
    <3>2. outcome' = [outcome EXCEPT ![inflight] = "sent"]
      <4>1. {<<inflight>>[k] : k \in DOMAIN <<inflight>>} = {inflight}
        OBVIOUS
      <4>2. outcome' = [i \in Frames |-> IF i \in {inflight} THEN "sent" ELSE outcome[i]]
        BY <3>1, <4>1 DEF Resolve
      <4> QED
        BY <2>1, <4>2 DEF RecordTypeOK
    <3>3. OneQueue!Deliver
      BY <2>2, <2>4, <3>1, <3>2 DEF OneQueue!Deliver
    <3> QED
      BY <2>1, <3>3 DEF Delivered, QueueMoved
  <2>6. CASE SendGivesUp
    <3>1. Resolve(<<inflight>>, "failed") /\ bus' = bus
      BY <2>6 DEF SendGivesUp
    <3>2. 1 \in 0..Len(Unanswered) /\ 1 + 1 = 2 /\ DOMAIN <<inflight>> = 1..1
      BY <2>2
    <3>3. \A k \in 1..1 : <<inflight>>[k] = Unanswered[k]
      BY <2>2
    <3>4. Unanswered' = SubSeq(Unanswered, 1 + 1, Len(Unanswered))
      BY <2>2, <2>4, <3>2
    <3>5. Lost \/ Kept
      BY <2>1, <2>2, <3>1, <3>2, <3>3, <3>4, LoseFront
    <3> QED
      BY <3>5 DEF QueueMoved
  <2> QED
    BY <1>2, <2>5, <2>6
<1> QED
  BY <1>1, <1>2

\* A drain, an exit and a panic answer every frame there is.
LEMMA AllMoves ==
  ASSUME TxInv, Drain \/ Exits \/ Panics
  PROVE  QueueMoved
<1> USE DEF TxInv
<1>1. /\ pending' = <<>> /\ chan' = <<>> /\ inflight' = NoFrame /\ UNCHANGED <<bus, accepted>>
      /\ \E r \in {"expired", "failed", "dropped", "closed"} : Resolve(Unanswered, r)
      /\ Unanswered \in Seq(Frames)
  <2>1. CASE Drain \/ Exits
    <3>1. inflight = NoFrame /\ inflight' = inflight
      BY <2>1 DEF Drain, Exits, HandInv
    <3>2. Unanswered = pending \o chan /\ Unanswered \in Seq(Frames)
      BY <3>1, QueueIdle
    <3> QED
      BY <2>1, <3>1, <3>2 DEF Drain, Exits
  <2>2. CASE Panics
    <3>1. inflight # NoFrame
      BY <2>2 DEF Panics, HandInv
    <3>2. Unanswered = (<<inflight>> \o pending) \o chan /\ Unanswered \in Seq(Frames)
      BY <3>1, QueueInHand
    <3> QED
      BY <2>2, <3>2 DEF Panics
  <2> QED
    BY <2>1, <2>2
<1>2. PICK r \in {"expired", "failed", "dropped", "closed"} : Resolve(Unanswered, r)
  BY <1>1
<1>3. Len(Unanswered) \in Nat /\ DOMAIN Unanswered = 1..Len(Unanswered)
  BY <1>1, LenProperties
<1>4. Len(Unanswered) \in 0..Len(Unanswered)
  BY <1>3
<1>5. SubSeq(Unanswered, Len(Unanswered) + 1, Len(Unanswered)) = <<>>
  BY <1>3, SubSeqEmpty
<1>6. Unanswered' = <<>>
  <2>1. <<>> \o <<>> = <<>>
    BY EmptySeq, ConcatEmptySeq
  <2> QED
    BY <1>1, <2>1 DEF Unanswered
<1>7. Lost \/ Kept
  BY <1>1, <1>2, <1>3, <1>4, <1>5, <1>6, LoseFront
<1> QED
  BY <1>7 DEF QueueMoved

\* Filling the staged segment moves nothing; the expired front of it leaves.
LEMMA HoldMoves ==
  ASSUME TxInv, Hold
  PROVE  QueueMoved
<1> USE DEF TxInv
<1> DEFINE moved  == IF Len(pending) < Capacity THEN Lesser(Len(chan), Capacity - Len(pending))
                                                ELSE 0
           front  == SubSeq(chan, 1, moved)
           rest   == SubSeq(chan, moved + 1, Len(chan))
           filled == pending \o front
<1>1. PICK n \in 0..Len(filled) :
        /\ pending' = SubSeq(filled, n + 1, Len(filled))
        /\ chan' = rest
        /\ Resolve(SubSeq(filled, 1, n), "expired")
  BY DEF Hold
<1>2. inflight = NoFrame /\ inflight' = NoFrame /\ UNCHANGED <<bus, accepted>>
  BY DEF Hold, HandInv
<1>3. /\ Len(pending) \in Nat /\ Len(chan) \in Nat /\ Capacity \in Nat
      /\ pending \in Seq(Frames) /\ chan \in Seq(Frames)
  BY LenProperties, TxAssumption DEF QueueTypeOK
<1>4. moved \in 0..Len(chan)
  BY <1>3 DEF Lesser
<1> HIDE DEF moved
<1>5. front \o rest = chan
  <2>1. /\ 1 \in 1..(Len(chan) + 1) /\ moved \in (1 - 1)..Len(chan)
        /\ Len(chan) \in moved..Len(chan)
    BY <1>3, <1>4
  <2>2. front \o rest = SubSeq(chan, 1, Len(chan))
    BY <1>3, <2>1, ConcatAdjacentSubSeq
  <2> QED
    BY <1>3, <2>2, SubSeqFull
<1>6. front \in Seq(Frames) /\ rest \in Seq(Frames)
  BY <1>3, <1>4, SubSeqFrames
<1> HIDE DEF front, rest
<1>7. filled \in Seq(Frames) /\ filled \o rest = pending \o chan
  <2>1. filled \in Seq(Frames)
    BY <1>3, <1>6, ConcatProperties
  <2>2. filled \o rest = pending \o (front \o rest)
    BY <1>3, <1>6, ConcatAssociative
  <2> QED
    BY <1>5, <2>1, <2>2
<1> HIDE DEF filled
<1>8. Unanswered = filled \o rest /\ Unanswered \in Seq(Frames)
  BY <1>2, <1>7, QueueIdle
<1>9. Len(filled) \in Nat /\ Len(rest) \in Nat /\ Len(Unanswered) = Len(filled) + Len(rest)
  BY <1>6, <1>7, <1>8, LenProperties, ConcatProperties
<1>10. /\ SubSeq(filled, n + 1, Len(filled)) \o rest = SubSeq(Unanswered, n + 1, Len(Unanswered))
       /\ \A k \in 1..n : SubSeq(filled, 1, n)[k] = Unanswered[k]
       /\ Len(SubSeq(filled, 1, n)) = n
  BY <1>6, <1>7, <1>8, DropFront
<1>11. SubSeq(filled, n + 1, Len(filled)) \in Seq(Frames) /\ SubSeq(filled, 1, n) \in Seq(Frames)
  BY <1>7, <1>9, SubSeqFrames
<1>12. DOMAIN SubSeq(filled, 1, n) = 1..n
  BY <1>10, <1>11, LenProperties
<1>13. Unanswered' = SubSeq(Unanswered, n + 1, Len(Unanswered))
  <2>1. <<>> \o pending' = pending'
    BY <1>1, <1>11, ConcatEmptySeq
  <2> QED
    BY <1>1, <1>2, <1>10, <2>1 DEF Unanswered
<1>14. n \in 0..Len(Unanswered)
  BY <1>9
<1> DEFINE s == SubSeq(filled, 1, n)
<1>15. DOMAIN s = 1..n /\ (\A k \in 1..n : s[k] = Unanswered[k]) /\ Resolve(s, "expired")
  BY <1>1, <1>10, <1>12
<1> HIDE DEF s
<1>16. Lost \/ Kept
  BY <1>2, <1>8, <1>13, <1>14, <1>15, LoseFront
<1> QED
  BY <1>16 DEF QueueMoved

\* A frame from the channel is staged behind the others: nothing moves.
LEMMA ParkMoves ==
  ASSUME TxInv, ParkReceives
  PROVE  Kept
<1> USE DEF TxInv
<1>1. /\ inflight = NoFrame /\ inflight' = NoFrame /\ UNCHANGED <<bus, outcome, accepted>>
      /\ chan # <<>> /\ pending' = Append(pending, Head(chan)) /\ chan' = Tail(chan)
      /\ pending \in Seq(Frames) /\ chan \in Seq(Frames)
  BY DEF ParkReceives, HandInv, QueueTypeOK, record
<1> DEFINE h == Head(chan)
           t == Tail(chan)
<1>2. h \in Frames /\ t \in Seq(Frames) /\ chan = <<h>> \o t
  BY <1>1, UnconsFrames
<1> HIDE DEF h, t
<1>3. <<h>> \in Seq(Frames)
  BY <1>2
<1>4. Append(pending, h) = pending \o <<h>> /\ Append(pending, h) \in Seq(Frames)
  BY <1>1, <1>2, AppendIsConcat, AppendProperties
<1>5. (pending \o <<h>>) \o t = pending \o (<<h>> \o t)
  BY <1>1, <1>2, <1>3, ConcatAssociative
<1>6. <<>> \o Append(pending, h) = Append(pending, h)
  BY <1>4, ConcatEmptySeq
<1>7. Unanswered' = Append(pending, h) \o t
  BY <1>1, <1>6 DEF Unanswered, h, t
<1>8. Unanswered = pending \o chan
  BY <1>1, QueueIdle
<1> QED
  BY <1>1, <1>2, <1>4, <1>5, <1>7, <1>8 DEF Kept
\* The frame that the channel accepts joins at the end, with the next number.
LEMMA JoinMoves ==
  ASSUME TxInv, NEW s \in Senders, SendQueued(s)
  PROVE  Joined
<1> USE DEF TxInv
<1> DEFINE i == accepted + 1
<1>1. /\ accepted' = i /\ chan' = Append(chan, i) /\ UNCHANGED <<pending, inflight, bus>>
      /\ outcome' = [outcome EXCEPT ![i] = "queued"]
      /\ pending \in Seq(Frames) /\ chan \in Seq(Frames)
  BY DEF SendQueued, QueueTypeOK
<1>2. i \in Frames
  BY TxAssumption DEF SendQueued, RecordTypeOK, Frames
<1> HIDE DEF i
<1> DEFINE hand == IF inflight = NoFrame THEN <<>> ELSE <<inflight>>
           front == hand \o pending
<1>3. hand \in Seq(Frames)
  BY EmptySeq DEF QueueTypeOK
<1> HIDE DEF hand
<1>4. front \in Seq(Frames)
  BY <1>1, <1>3, ConcatProperties
<1> HIDE DEF front
<1>5. <<i>> \in Seq(Frames)
  BY <1>2
<1>6. front \o chan \in Seq(Frames) /\ (front \o chan) \o <<i>> = front \o (chan \o <<i>>)
  BY <1>1, <1>4, <1>5, ConcatProperties, ConcatAssociative
<1>7. Append(chan, i) = chan \o <<i>>
  BY <1>1, <1>2, AppendIsConcat
<1>8. Append(front \o chan, i) = (front \o chan) \o <<i>>
  BY <1>2, <1>6, AppendIsConcat
<1>9. Unanswered = front \o chan /\ Unanswered' = front \o Append(chan, i)
  BY <1>1 DEF Unanswered, front, hand
<1> QED
  BY <1>1, <1>2, <1>6, <1>7, <1>8, <1>9 DEF Joined, i

\* Every step of the worker under its contract is a step of the queue.
LEMMA StepMovesQueue ==
  ASSUME TxInv, [TxWorkerNext]_txVars
  PROVE  QueueMoved
<1>1. UNCHANGED <<queue, bus, outcome, accepted>> => Kept
  BY DEF queue, Kept, Unanswered
<1>2. CASE \/ Top \/ TakeNothing \/ BorrowSome \/ SendRetries \/ PostFault
           \/ SeeTransport \/ SeeGate \/ ParkExpires
           \/ (\E s \in Senders : SendCalled(s) \/ SendRefused(s))
           \/ (\E i \in Frames : Age(i))
           \/ Environment \/ UNCHANGED txVars
  <2>1. UNCHANGED <<queue, bus, outcome, accepted>>
    <3>1. CASE \/ Top \/ TakeNothing \/ BorrowSome \/ SendRetries \/ PostFault
               \/ SeeTransport \/ SeeGate \/ ParkExpires
               \/ (\E s \in Senders : SendCalled(s) \/ SendRefused(s))
               \/ (\E i \in Frames : Age(i))
      BY <3>1 DEF Top, TakeNothing, BorrowSome, SendRetries, PostFault, SeeTransport, SeeGate,
         ParkExpires, SendCalled, SendRefused, Age, record
    <3>2. CASE Environment
      BY <3>2 DEF Environment, RestOfWorker, EnvState, EnvTakes, EnvGate, EnvPublishes,
         EnvWithdraws, EnvTransport, EnvAsks, EnvEnds, EnvSchedulerEnds, EnvDrops, workerVars,
         record
    <3>3. CASE UNCHANGED txVars
      BY <3>3 DEF txVars, workerVars, record
    <3> QED
      BY <1>2, <3>1, <3>2, <3>3
  <2> QED
    BY <1>1, <2>1 DEF QueueMoved
<1>3. CASE \/ TakeFresh \/ BorrowNone \/ (\E k \in {"Fatal", "Permanent"} : SendFaults(k))
           \/ ParkReceives
  BY <1>3, HandMoves, ParkMoves DEF QueueMoved
<1>4. CASE \/ TakeExpired \/ SendOk \/ SendGivesUp \/ Drain \/ Exits \/ Panics \/ Hold
  BY <1>4, FrontMoves, AllMoves, HoldMoves
<1>5. CASE \E s \in Senders : SendQueued(s)
  BY <1>5, JoinMoves DEF QueueMoved
<1> QED
  BY <1>2, <1>3, <1>4, <1>5 DEF TxWorkerNext, WorkerRuns, TxClients

\* The frames have been accepted in the order of their numbers, those in the
\* queue among them, and an accepted frame always has an outcome.
NumberInv ==
  /\ \A i \in Frames : outcome[i] = "none" <=> i > accepted
  /\ \A k \in 1..Len(Unanswered) : Unanswered[k] <= accepted

\* The queue is one of frames, whatever the worker holds.
LEMMA QueueTyped == TxInv => Unanswered \in Seq(Frames)
BY QueueIdle, QueueInHand DEF TxInv

\* Every step of the queue keeps the numbers in order.
LEMMA NumberStep ==
  ASSUME TxInv, NumberInv, QueueMoved
  PROVE  NumberInv'
<1>1. /\ Unanswered \in Seq(Frames) /\ Len(Unanswered) \in Nat
      /\ outcome \in [Frames -> Outcomes] /\ accepted \in Nat
      /\ \A k \in 1..Len(Unanswered) : Unanswered[k] \in Frames
      /\ \A i \in Frames : i \in Nat
  BY QueueTyped, LenProperties, ElementOfSeq, TxAssumption DEF TxInv, RecordTypeOK, Frames
<1> DEFINE u == Unanswered
<1>2. CASE Delivered
  <2>1. /\ u # <<>> /\ outcome' = [outcome EXCEPT ![Head(u)] = "sent"]
        /\ u' = Tail(u) /\ accepted' = accepted
    BY <1>2 DEF Delivered, OneQueue!Deliver
  <2>2. Head(u) = u[1] /\ 1 \in 1..Len(u)
    BY <1>1, <2>1, EmptySeq
  <2>3. Len(u') = Len(u) - 1 /\ \A k \in 1..Len(u') : u'[k] = u[k + 1]
    BY <1>1, <2>1, HeadTailProperties
  <2>4. \A k \in 1..Len(u') : u'[k] <= accepted'
    BY <1>1, <2>1, <2>3 DEF NumberInv
  <2>5. Head(u) \in Frames /\ Head(u) <= accepted
    BY <1>1, <2>2 DEF NumberInv
  <2>6. \A i \in Frames : outcome'[i] = "none" <=> i > accepted'
    BY <1>1, <2>1, <2>5 DEF NumberInv
  <2> QED
    BY <2>4, <2>6 DEF NumberInv
<1>3. CASE Lost
  <2>1. PICK n \in 1..Len(u), r \in OneQueue!Losses : OneQueue!Lose(n, r)
    BY <1>3 DEF Lost
  <2>2. /\ outcome' = [i \in Frames |-> IF \E k \in 1..n : u[k] = i THEN r ELSE outcome[i]]
        /\ u' = SubSeq(u, n + 1, Len(u)) /\ accepted' = accepted /\ r # "none"
    BY <1>3, <2>1 DEF Lost, OneQueue!Lose, OneQueue!FrameNumbers, Frames, OneQueue!Losses
  <2> HIDE DEF u
  <2>3. /\ u \in Seq(Frames) /\ Len(u) \in Nat
        /\ \A k \in 1..Len(u) : u[k] \in Frames /\ u[k] <= accepted
    BY <1>1 DEF NumberInv, u
  <2>4. \A k \in 1..Len(u') : k + n \in 1..Len(u) /\ u'[k] = u[k + n]
    <3>1. \A i \in (n + 1)..Len(u) : u[i] \in Frames
      BY <2>3
    <3>2. /\ Len(u') = IF n + 1 <= Len(u) THEN Len(u) - (n + 1) + 1 ELSE 0
          /\ \A i \in 1..(Len(u) - (n + 1) + 1) : u'[i] = u[n + 1 + i - 1]
      BY <2>2, <2>3, <3>1, SubSeqProperties
    <3> QED
      BY <2>3, <3>2
  <2>5. \A k \in 1..Len(u') : u'[k] <= accepted'
    BY <2>2, <2>3, <2>4
  <2>6. ASSUME NEW i \in Frames PROVE outcome'[i] = "none" <=> i > accepted'
    <3>1. CASE \E k \in 1..n : u[k] = i
      <4>1. i <= accepted
        BY <2>3, <3>1
      <4> QED
        BY <1>1, <2>2, <3>1, <4>1
    <3>2. CASE ~ \E k \in 1..n : u[k] = i
      BY <2>2, <3>2 DEF NumberInv
    <3> QED
      BY <3>1, <3>2
  <2> QED
    BY <2>5, <2>6 DEF NumberInv, u
<1>4. CASE Joined
  <2>1. /\ accepted' = accepted + 1 /\ accepted' \in Frames /\ u' = Append(u, accepted')
        /\ outcome' = [outcome EXCEPT ![accepted'] = "queued"]
    BY <1>4 DEF Joined
  <2>2. /\ Len(u') = Len(u) + 1 /\ u'[Len(u) + 1] = accepted'
        /\ \A k \in 1..Len(u) : u'[k] = u[k]
    BY <1>1, <2>1, AppendProperties
  <2>3. ASSUME NEW k \in 1..Len(u') PROVE u'[k] <= accepted'
    <3>1. CASE k \in 1..Len(u)
      <4>1. u[k] \in Nat /\ u[k] <= accepted
        BY <1>1, <3>1 DEF NumberInv
      <4> QED
        BY <1>1, <2>1, <2>2, <3>1, <4>1
    <3>2. CASE k \notin 1..Len(u)
      <4>1. k = Len(u) + 1 /\ accepted' \in Nat
        BY <1>1, <2>1, <2>2, <3>2
      <4> QED
        BY <2>2, <4>1
    <3> QED
      BY <3>1, <3>2
  <2>4. \A i \in Frames : outcome'[i] = "none" <=> i > accepted'
    BY <1>1, <2>1 DEF NumberInv
  <2> QED
    BY <2>3, <2>4 DEF NumberInv
<1>5. CASE Kept
  BY <1>5 DEF Kept, NumberInv
<1> QED
  BY <1>2, <1>3, <1>4, <1>5 DEF QueueMoved

\* Accepted frames leave in the order of acceptance, each with one answer and for
\* good: the channel, the staged segment and the frame in the worker's hand act as
\* one queue (txqueue.rs 148-320), whatever happens to the link meanwhile.
THEOREM QueueImplements == TxWorkerSpec => ImplementsFrameQueue
<1>1. TxWorkerInit => NumberInv /\ OneQueue!FrameInit
  <2> SUFFICES ASSUME TxWorkerInit PROVE NumberInv /\ OneQueue!FrameInit
    OBVIOUS
  <2>1. Unanswered = <<>> /\ Len(Unanswered) = 0
    BY EmptySeq, ConcatEmptySeq DEF TxWorkerInit, TxInit, Unanswered
  <2> QED
    BY <2>1, TxAssumption DEF TxWorkerInit, TxInit, NumberInv, OneQueue!FrameInit,
       OneQueue!FrameNumbers, Frames
<1>2. TxInv /\ NumberInv /\ [TxWorkerNext]_txVars
        => NumberInv' /\ [OneQueue!FrameNext]_(OneQueue!frameVars)
  <2> SUFFICES ASSUME TxInv, NumberInv, [TxWorkerNext]_txVars
               PROVE  NumberInv' /\ (OneQueue!FrameNext \/ UNCHANGED OneQueue!frameVars)
    OBVIOUS
  <2>1. QueueMoved
    BY StepMovesQueue
  <2>2. NumberInv'
    BY <2>1, NumberStep
  <2>3. CASE Delivered \/ Lost
    BY <2>2, <2>3 DEF Delivered, Lost, OneQueue!FrameNext
  <2>4. CASE Joined
    <3>1. /\ accepted' \in Frames /\ accepted \in Nat /\ accepted' = accepted + 1
      BY <2>4, TxAssumption DEF Joined, TxInv, RecordTypeOK
    <3>2. outcome[accepted'] = "none"
      BY <3>1 DEF NumberInv
    <3>3. \A j \in 1..(accepted' - 1) : outcome[j] # "none"
      BY <3>1, TxAssumption DEF NumberInv, Frames
    <3>4. OneQueue!Accept(accepted')
      BY <2>4, <3>2, <3>3 DEF Joined, OneQueue!Accept
    <3> QED
      BY <2>2, <3>1, <3>4 DEF OneQueue!FrameNext, OneQueue!FrameNumbers, Frames
  <2>5. CASE Kept
    BY <2>2, <2>5 DEF Kept, OneQueue!frameVars
  <2> QED
    BY <2>1, <2>2, <2>3, <2>4, <2>5 DEF QueueMoved
<1> QED
  BY TxInvariance, <1>1, <1>2, PTL
  DEF TxWorkerSpec, ImplementsFrameQueue, OneQueue!FrameSpec
=============================================================================
