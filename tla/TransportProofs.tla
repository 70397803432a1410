---------------------------- MODULE TransportProofs ----------------------------
(***************************************************************************)
(* Proofs about both transports, for every number of opens, callers,       *)
(* messages and retries, and every configuration of the channel.           *)
(***************************************************************************)
EXTENDS AnyTransport, SequenceTheorems, FiniteSetTheorems, TLAPS

(* Who has the driver.  PCAN-Basic has one handle, and four parties reach it: the     *)
(* blocking job of an open, the callers, the source, and close_sync.                  *)

Live(o) == shut[o] \in {"open", "closing"}

\* The open that is over for the supervisor: nothing of it is left but perhaps its job.
Over(o) == asker[o] \in {"left", "refused"} \/ (asker[o] = "holds" /\ shut[o] = "closed")

\* The job has initialized the driver; it has created the source.
Initialized == {"params", "rx", "filter", "range", "stop"}
Sourced     == {"filter", "range", "stop"}

Driving(o) == Live(o) \/ (permit = o /\ job \in Initialized)
Quiet      == ~registered /\ thread \in {"none", "gone"}

ChannelShape ==
  /\ permit \in Opens \cup {0} /\ handle \in Opens \cup {0}
  /\ permit = 0 <=> job = "idle"
  /\ asker \in [Opens -> {"none", "queued", "awaiting", "left", "holds", "refused"}]
  /\ shut \in [Opens -> {"none", "open", "closing", "closed"}]
  /\ call \in [Callers -> Calls]
  /\ reader = [pc |-> reader.pc, fresh |-> reader.fresh, seen |-> reader.seen]

\* How the call of open() and the channel that comes of it go together.
AskerFits(o) ==
  /\ asker[o] \in {"none", "queued", "refused"} => shut[o] = "none" /\ permit # o
  /\ asker[o] = "awaiting" => permit = o
  /\ asker[o] = "holds" => shut[o] # "none" /\ permit # o
  /\ permit = o => (job = "built" <=> shut[o] # "none")
  /\ asker[o] # "none" => \A p \in Opens : p < o => Over(p)

AskInv == \A o \in Opens : AskerFits(o)

\* A channel that lives is held by its caller, or its job has not ended; and while a job
\* runs no other channel lives.
SoleInv ==
  /\ \A o \in Opens : Live(o) => asker[o] = "holds" \/ permit = o
  /\ permit # 0 => \A o \in Opens : Live(o) => o = permit

HandleInv ==
  /\ \A o \in Opens : Driving(o) => handle = o
  /\ handle # 0 => Driving(handle) \/ (job = "cleanup" /\ permit = handle)

\* The source belongs to the channel that lives or to the job that made it.
SourceInv ==
  /\ ~Quiet => source \in Opens /\ (Live(source) \/ (permit = source /\ job \in Sourced))
  /\ \A o \in Opens : Live(o) => source = o
  /\ job \in Sourced => source = permit
  /\ reader.pc \in Polling => registered
  /\ registered => ~Threaded
  /\ thread # "none" => Threaded
  /\ stop = "released" => ~registered
  /\ stop = "stopped" => Quiet

\* A call inside the driver has the gate, and its channel lives.
CallInv ==
  \A c \in Callers :
    call[c].pc \in {"ffi", "range"} => gate = {c} /\ Live(call[c].on)

PcanInv == ChannelShape /\ AskInv /\ SoleInv /\ HandleInv /\ SourceInv /\ CallInv /\ NoStrayCalls

LEMMA NoOpenIsZero == 0 \notin Opens /\ Opens \subseteq Nat
BY DriverAssumption DEF Opens

LEMMA PcanStarts == PcanInit => PcanInv
<1> SUFFICES ASSUME PcanInit PROVE PcanInv
  OBVIOUS
<1> USE DEF PcanInit, DriverInit, RxInit
<1>1. ChannelShape
  <2>1. NoCall \in Calls
    BY ChannelAssumption, DriverAssumption DEF NoCall, Calls, Opens
  <2> QED
    BY <2>1 DEF ChannelShape
<1>2. AskInv
  BY NoOpenIsZero DEF AskInv, AskerFits
<1>3. SoleInv /\ HandleInv /\ SourceInv
  BY NoOpenIsZero DEF SoleInv, HandleInv, SourceInv, Driving, Live, Quiet, Sourced, Initialized, Polling
<1>4. CallInv /\ NoStrayCalls
  BY DEF CallInv, NoStrayCalls, NoCall
<1> QED
  BY <1>1, <1>2, <1>3, <1>4 DEF PcanInv

-----------------------------------------------------------------------------
(* The calls of open(): the permit is given when nothing lives.             *)

LEMMA PermitIsAlone ==
  ASSUME PcanInv, NEW o \in Opens, asker[o] = "queued", permit = 0
  PROVE  /\ \A p \in Opens : ~Live(p)
         /\ handle = 0 /\ Quiet
<1>1. ASSUME NEW p \in Opens, Live(p) PROVE FALSE
  <2>1. asker[p] = "holds" /\ shut[p] # "closed"
    BY <1>1, NoOpenIsZero DEF PcanInv, SoleInv, Live
  <2>2. ~Over(p) /\ ~Over(o) /\ p # o
    BY <2>1 DEF Over
  <2>3. p < o \/ o < p
    BY <2>2, NoOpenIsZero
  <2> QED
    BY <2>1, <2>2, <2>3 DEF PcanInv, AskInv, AskerFits
<1>2. handle = 0
  BY <1>1, NoOpenIsZero DEF PcanInv, HandleInv, Driving, ChannelShape
<1>3. Quiet
  BY <1>1, NoOpenIsZero DEF PcanInv, SourceInv
<1> QED
  BY <1>1, <1>2, <1>3

LEMMA AskKeeps ==
  ASSUME PcanInv, NEW o \in Opens, Ask(o) \/ Acquire(o) \/ GiveUp(o)
  PROVE  PcanInv'
<1> USE DEF PcanInv
<1>1. UNCHANGED <<driverVars, rxVars, shut, call, gate>>
  BY DEF Ask, Acquire, GiveUp
<1>2. UNCHANGED <<setup, handle, stray, registered, thread, source, stop, reader>>
  BY <1>1 DEF driverVars, rxVars
<1>3. Quiet' = Quiet /\ Threaded' = Threaded /\ (\A p \in Opens : Live(p)' = Live(p))
  BY <1>1, <1>2 DEF Quiet, Threaded, Live
<1>4. CallInv' /\ NoStrayCalls'
  BY <1>1, <1>2 DEF CallInv, Live, NoStrayCalls
<1>5. \A p \in Opens : Over(p) => Over(p)'
  BY <1>1 DEF Ask, Acquire, GiveUp, Over, ChannelShape
<1>6. CASE Ask(o)
  <2>1. UNCHANGED <<permit, job>> /\ asker' = [asker EXCEPT ![o] = "queued"] /\ asker[o] = "none"
    BY <1>6 DEF Ask
  <2>2. ChannelShape' /\ SoleInv' /\ HandleInv' /\ SourceInv'
    BY <1>1, <1>2, <1>3, <2>1 DEF ChannelShape, SoleInv, HandleInv, SourceInv, Driving, AskInv, AskerFits
  <2>3. AskInv'
    <3>1. \A p \in Opens : p < o => Over(p)
      BY <1>6, NoOpenIsZero DEF Ask, Over, Opens
    <3> QED
      BY <1>1, <1>5, <2>1, <3>1 DEF AskInv, AskerFits, ChannelShape
  <2> QED
    BY <1>4, <2>2, <2>3
<1>7. CASE Acquire(o)
  <2>1. /\ asker[o] = "queued" /\ permit = 0 /\ permit' = o /\ job' = "open"
        /\ asker' = [asker EXCEPT ![o] = "awaiting"]
    BY <1>7 DEF Acquire
  <2>2. (\A p \in Opens : ~Live(p)) /\ handle = 0 /\ Quiet
    BY <2>1, PermitIsAlone
  <2>3. ChannelShape' /\ SoleInv' /\ HandleInv' /\ SourceInv'
    BY <1>1, <1>2, <1>3, <2>1, <2>2, NoOpenIsZero
    DEF ChannelShape, SoleInv, HandleInv, SourceInv, Driving, Initialized, Sourced
  <2>4. AskInv'
    BY <1>1, <1>5, <2>1, NoOpenIsZero DEF AskInv, AskerFits, ChannelShape
  <2> QED
    BY <1>4, <2>3, <2>4
<1>8. CASE GiveUp(o)
  <2>1. /\ asker[o] \in {"queued", "awaiting"} /\ UNCHANGED <<permit, job>>
        /\ asker' = [asker EXCEPT ![o] = "left"]
    BY <1>8 DEF GiveUp
  <2>2. ChannelShape' /\ HandleInv' /\ SourceInv'
    BY <1>1, <1>2, <1>3, <2>1 DEF ChannelShape, HandleInv, SourceInv, Driving
  <2>3. SoleInv' /\ AskInv'
    BY <1>1, <1>3, <1>5, <2>1 DEF SoleInv, AskInv, AskerFits, ChannelShape
  <2> QED
    BY <1>4, <2>2, <2>3
<1> QED
  BY <1>6, <1>7, <1>8

-----------------------------------------------------------------------------
(* The blocking job of an open, and close_sync.                             *)

\* RxSource::stop touches the source only, and ends with a quiet one.
LEMMA StopKeeps ==
  ASSUME SourceInv, ChannelShape, StopStep
  PROVE  /\ UNCHANGED <<driverVars, source, thread>>
         /\ registered' => registered
         /\ reader'.pc \in Polling => registered'
         /\ stop' = "released" => ~registered'
         /\ stop' = "stopped" => ~registered' /\ thread \in {"none", "gone"}
         /\ reader' = [pc |-> reader'.pc, fresh |-> reader'.fresh, seen |-> reader'.seen]
<1> USE DEF SourceInv, ChannelShape, Quiet, Polling
<1>1. CASE ClaimStop
  BY <1>1 DEF ClaimStop
<1>2. CASE Unblock
  BY <1>2 DEF Unblock
<1>3. CASE JoinThread
  BY <1>3 DEF JoinThread
<1>4. CASE Release
  BY <1>4 DEF Release
<1>5. CASE NotifyShutdown
  <2>1. /\ stop = "released" /\ stop' = "stopped" /\ UNCHANGED <<driverVars, source, registered, thread>>
        /\ ~Threaded /\ reader.pc \notin Polling
    BY <1>5 DEF NotifyShutdown
  <2>2. reader' = reader \/ reader' = [reader EXCEPT !.pc = Awake, !.seen = @ /\ Awake = "clear"]
    BY <1>5 DEF NotifyShutdown, Woken, At
  <2>3. Awake = "poll" \/ Awake = reader.pc
    BY DEF Awake
  <2> QED
    BY <2>1, <2>2, <2>3
<1> QED
  BY <1>1, <1>2, <1>3, <1>4, <1>5 DEF StopStep

\* The job's clean-up finds the handle its own or free, and nothing of the source left.
LEMMA JobIsAlone ==
  ASSUME PcanInv, job \notin {"idle", "built", "failed"}
  PROVE  /\ permit \in Opens /\ shut[permit] = "none" /\ \A o \in Opens : ~Live(o)
         /\ job \in {"open", "cleanup"} => handle \in {0, permit}
         /\ job = "open" => handle = 0
         /\ job \in {"open", "params", "rx", "cleanup"} => Quiet
         /\ job \in Initialized => handle = permit
<1>1. permit \in Opens /\ shut[permit] = "none"
  BY DEF PcanInv, ChannelShape, AskInv, AskerFits
<1>2. \A o \in Opens : ~Live(o)
  BY <1>1, NoOpenIsZero DEF PcanInv, SoleInv, Live
<1> QED
  BY <1>1, <1>2, NoOpenIsZero
  DEF PcanInv, HandleInv, SourceInv, Driving, Initialized, Sourced, ChannelShape

\* While no channel lives nobody is inside a call.
LEMMA NobodyCalls ==
  ASSUME PcanInv, \A o \in Opens : ~Live(o)
  PROVE  \A c \in Callers : call[c].pc \notin {"ffi", "range"}
BY DEF PcanInv, CallInv, ChannelShape, Calls

LEMMA JobKeepsInv ==
  ASSUME PcanInv, JobStep
  PROVE  PcanInv'
<1> USE DEF PcanInv
<1> SUFFICES /\ ChannelShape' /\ AskInv' /\ SoleInv' /\ HandleInv' /\ SourceInv' /\ CallInv'
             /\ NoStrayCalls'
  OBVIOUS
<1>1. CASE JobOpens \/ JobSetsParameters \/ JobCleansUp
  <2>1. /\ UNCHANGED <<rxVars, permit, asker, shut, call, gate, setup>>
        /\ \/ job = "open" /\ job' = "failed" /\ UNCHANGED <<handle, stray>>
           \/ job = "open" /\ job' = "params" /\ Initialize(permit, TRUE)
           \/ job = "open" /\ job' = "cleanup" /\ Initialize(permit, FALSE)
           \/ job = "params" /\ job' \in {"rx", "cleanup"} /\ UNCHANGED <<handle, stray>>
           \/ /\ job = "cleanup" /\ job' = "failed"
              /\ Uninitialize(permit, ~registered /\ thread \in {"none", "gone"})
    BY <1>1 DEF JobOpens, JobSetsParameters, JobCleansUp, JobGoes, JobKeeps, driverVars, Initialize,
       Uninitialize
  <2>2. /\ permit \in Opens /\ shut[permit] = "none" /\ \A o \in Opens : ~Live(o)
        /\ handle \in {0, permit} /\ (job = "open" => handle = 0) /\ Quiet
        /\ job = "params" => handle = permit
    BY <2>1, JobIsAlone DEF Initialized
  <2>3. UNCHANGED <<registered, thread, source, stop, reader>>
    BY <2>1 DEF rxVars
  <2>4. NoStrayCalls'
    BY <2>1, <2>2 DEF NoStrayCalls, Initialize, Uninitialize, Quiet
  <2>5. /\ handle' \in {0, permit}
        /\ job' \in {"params", "rx"} => handle' = permit
        /\ job' = "failed" => handle' = 0
    BY <2>1, <2>2 DEF Initialize, Uninitialize
  <2>6. /\ \A o \in Opens : ~Live(o)' /\ (Over(o)' = Over(o))
        /\ Quiet' = Quiet /\ Threaded' = Threaded
    BY <2>1, <2>2, <2>3 DEF Live, Over, Quiet, Threaded
  <2>7. ChannelShape' /\ AskInv'
    BY <2>1, <2>2, <2>3, <2>5, <2>6, NoOpenIsZero DEF ChannelShape, AskInv, AskerFits
  <2>8. SoleInv' /\ CallInv'
    BY <2>1, <2>2, <2>6, NobodyCalls DEF SoleInv, CallInv
  <2>9. HandleInv'
    BY <2>1, <2>2, <2>5, <2>6, NoOpenIsZero DEF HandleInv, Driving, Initialized
  <2>10. SourceInv'
    BY <2>1, <2>2, <2>3, <2>6 DEF SourceInv, Sourced
  <2> QED
    BY <2>4, <2>7, <2>8, <2>9, <2>10
<1>2. CASE JobCreatesSource
  <2>1. /\ job = "rx" /\ UNCHANGED <<permit, asker, shut, call, gate, setup, handle, stray, reader>>
        /\ \/ job' = "filter" /\ CreateSource(permit)
           \/ job' = "cleanup" /\ UNCHANGED rxVars
    BY <1>2 DEF JobCreatesSource, JobGoes, JobKeeps, driverVars, rxVars, CreateSource
  <2>2. /\ permit \in Opens /\ shut[permit] = "none" /\ (\A o \in Opens : ~Live(o))
        /\ handle = permit /\ Quiet
    BY <2>1, JobIsAlone DEF Initialized
  <2>3. (\A o \in Opens : ~Live(o)' /\ (Over(o)' = Over(o))) /\ Threaded' = Threaded
    BY <2>1, <2>2 DEF Live, Over, Threaded
  <2>4. ChannelShape' /\ AskInv'
    BY <2>1, <2>2, <2>3, NoOpenIsZero DEF ChannelShape, AskInv, AskerFits
  <2>5. SoleInv' /\ CallInv' /\ HandleInv' /\ NoStrayCalls'
    BY <2>1, <2>2, <2>3, NobodyCalls, NoOpenIsZero
    DEF SoleInv, CallInv, HandleInv, Driving, Initialized, NoStrayCalls
  <2>6. SourceInv'
    <3>1. CASE job' = "filter" /\ CreateSource(permit)
      BY <2>1, <2>2, <2>3, <3>1 DEF CreateSource, SourceInv, Quiet, Sourced, Rest
    <3>2. CASE job' = "cleanup" /\ UNCHANGED rxVars
      BY <2>1, <2>2, <2>3, <3>2 DEF rxVars, SourceInv, Quiet, Sourced
    <3> QED
      BY <2>1, <3>1, <3>2
  <2> QED
    BY <2>4, <2>5, <2>6
<1>3. CASE JobFilters
  <2>1. /\ UNCHANGED <<rxVars, permit, asker, call, gate, setup, handle, stray>>
        /\ job \in {"filter", "range"} /\ job' \in {"built", "range", "stop"}
        /\ shut' = IF job' = "built" THEN [shut EXCEPT ![permit] = "open"] ELSE shut
    BY <1>3 DEF JobFilters, JobGoes, driverVars
  <2>2. /\ permit \in Opens /\ shut[permit] = "none" /\ (\A o \in Opens : ~Live(o))
        /\ handle = permit
    BY <2>1, JobIsAlone DEF Initialized
  <2>3. UNCHANGED <<registered, thread, source, stop, reader>>
    BY <2>1 DEF rxVars
  <2>4. /\ \A o \in Opens : Live(o)' <=> (o = permit /\ job' = "built")
        /\ \A o \in Opens : Over(o) => Over(o)'
        /\ Quiet' = Quiet /\ Threaded' = Threaded
    BY <2>1, <2>2, <2>3 DEF Live, Over, Quiet, Threaded, ChannelShape
  <2>5. ChannelShape' /\ AskInv'
    BY <2>1, <2>2, <2>3, <2>4, NoOpenIsZero DEF ChannelShape, AskInv, AskerFits
  <2>6. SoleInv' /\ CallInv' /\ HandleInv' /\ NoStrayCalls'
    BY <2>1, <2>2, <2>4, NobodyCalls, NoOpenIsZero
    DEF SoleInv, CallInv, HandleInv, Driving, Initialized, NoStrayCalls
  <2>7. SourceInv'
    BY <2>1, <2>2, <2>3, <2>4 DEF SourceInv, Sourced
  <2> QED
    BY <2>5, <2>6, <2>7
<1>4. CASE JobStops
  <2>1. /\ job = "stop" /\ UNCHANGED <<permit, asker, shut, call, gate>>
        /\ \/ job' = "stop" /\ StopStep
           \/ job' = "cleanup" /\ stop = "stopped" /\ UNCHANGED <<driverVars, rxVars>>
    BY <1>4 DEF JobStops, JobKeeps
  <2>2. /\ permit \in Opens /\ shut[permit] = "none" /\ (\A o \in Opens : ~Live(o))
        /\ handle = permit
    BY <2>1, JobIsAlone DEF Initialized
  <2>3. /\ UNCHANGED <<setup, handle, stray, source, thread>>
        /\ reader' = [pc |-> reader'.pc, fresh |-> reader'.fresh, seen |-> reader'.seen]
        /\ registered' => registered
        /\ reader'.pc \in Polling => registered'
        /\ stop' = "released" => ~registered'
        /\ stop' = "stopped" => ~registered' /\ thread \in {"none", "gone"}
        /\ job' = "cleanup" => ~registered' /\ thread \in {"none", "gone"}
    BY <2>1, StopKeeps DEF driverVars, rxVars, SourceInv, ChannelShape, Quiet
  <2>4. /\ \A o \in Opens : ~Live(o)' /\ (Over(o)' = Over(o))
        /\ Threaded' = Threaded
    BY <2>1, <2>2, <2>3 DEF Live, Over, Threaded
  <2>5. ChannelShape' /\ AskInv'
    BY <2>1, <2>2, <2>3, <2>4, NoOpenIsZero DEF ChannelShape, AskInv, AskerFits
  <2>6. SoleInv' /\ CallInv' /\ HandleInv' /\ NoStrayCalls'
    BY <2>1, <2>2, <2>3, <2>4, NobodyCalls, NoOpenIsZero
    DEF SoleInv, CallInv, HandleInv, Driving, Initialized, NoStrayCalls
  <2>7. SourceInv'
    BY <2>1, <2>2, <2>3, <2>4 DEF SourceInv, Sourced, Quiet
  <2> QED
    BY <2>5, <2>6, <2>7
<1>5. CASE JobAnswers \/ JobIsDropped
  <2>1. /\ job \in {"failed", "built"} /\ permit' = 0 /\ job' = "idle"
        /\ UNCHANGED <<driverVars, rxVars, shut, call, gate>>
        /\ \/ /\ asker[permit] = "awaiting"
              /\ asker' = [asker EXCEPT ![permit] = IF job = "built" THEN "holds" ELSE "refused"]
           \/ asker[permit] = "left" /\ shut[permit] \in {"none", "closed"} /\ UNCHANGED asker
    BY <1>5 DEF JobAnswers, JobIsDropped, ReleasePermit, Discarded
  <2>2. permit \in Opens /\ (shut[permit] = "none" <=> job = "failed")
    BY <2>1 DEF ChannelShape, AskInv, AskerFits
  <2>3. UNCHANGED <<setup, handle, stray, registered, thread, source, stop, reader>>
    BY <2>1 DEF driverVars, rxVars
  <2>4. /\ \A o \in Opens : Live(o)' = Live(o) /\ (Over(o) => Over(o)')
        /\ Quiet' = Quiet /\ Threaded' = Threaded
    BY <2>1, <2>2, <2>3 DEF Live, Over, Quiet, Threaded, ChannelShape
  <2>5. ChannelShape' /\ AskInv'
    BY <2>1, <2>2, <2>3, <2>4, NoOpenIsZero DEF ChannelShape, AskInv, AskerFits
  <2>6. SoleInv'
    BY <2>1, <2>2, <2>4, NoOpenIsZero DEF SoleInv, Live, ChannelShape
  <2>7. CallInv' /\ HandleInv' /\ NoStrayCalls'
    BY <2>1, <2>2, <2>3, <2>4, NoOpenIsZero
    DEF CallInv, HandleInv, Driving, Initialized, NoStrayCalls, ChannelShape, Calls
  <2>8. SourceInv'
    BY <2>1, <2>2, <2>3, <2>4 DEF SourceInv, Sourced
  <2> QED
    BY <2>5, <2>6, <2>7, <2>8
<1> QED
  BY <1>1, <1>2, <1>3, <1>4, <1>5 DEF JobStep

\* close_sync: it lets go of the source, waits for the gate, and the handle is its own.
LEMMA CloseKeeps ==
  ASSUME PcanInv, NEW o \in Opens, BeginClose(o) \/ CloseStep(o)
  PROVE  PcanInv'
<1> USE DEF PcanInv
<1> SUFFICES /\ ChannelShape' /\ AskInv' /\ SoleInv' /\ HandleInv' /\ SourceInv' /\ CallInv'
             /\ NoStrayCalls'
  OBVIOUS
<1>1. CASE BeginClose(o)
  <2>1. /\ shut[o] = "open" /\ shut' = [shut EXCEPT ![o] = "closing"]
        /\ UNCHANGED <<driverVars, rxVars, permit, job, asker, call, gate>>
    BY <1>1 DEF BeginClose
  <2>2. UNCHANGED <<setup, handle, stray, registered, thread, source, stop, reader>>
    BY <2>1 DEF driverVars, rxVars
  <2>3. /\ \A p \in Opens : Live(p)' = Live(p) /\ (Over(p) => Over(p)')
        /\ Quiet' = Quiet /\ Threaded' = Threaded
    BY <2>1, <2>2 DEF Live, Over, Quiet, Threaded, ChannelShape
  <2>4. ChannelShape' /\ AskInv'
    BY <2>1, <2>2, <2>3 DEF ChannelShape, AskInv, AskerFits
  <2>5. SoleInv' /\ HandleInv' /\ CallInv' /\ NoStrayCalls'
    BY <2>1, <2>2, <2>3 DEF SoleInv, HandleInv, Driving, CallInv, NoStrayCalls, ChannelShape, Calls
  <2>6. SourceInv'
    BY <2>1, <2>2, <2>3 DEF SourceInv
  <2> QED
    BY <2>4, <2>5, <2>6
<1>2. CASE StopSource(o)
  <2>1. Live(o) /\ source = o /\ StopStep /\ UNCHANGED <<permit, job, asker, shut, call, gate>>
    BY <1>2 DEF StopSource, Live, chanVars
  <2>2. /\ UNCHANGED <<setup, handle, stray, source, thread>>
        /\ reader' = [pc |-> reader'.pc, fresh |-> reader'.fresh, seen |-> reader'.seen]
        /\ registered' => registered
        /\ reader'.pc \in Polling => registered'
        /\ stop' = "released" => ~registered'
        /\ stop' = "stopped" => ~registered' /\ thread \in {"none", "gone"}
    BY <2>1, StopKeeps DEF driverVars
  <2>3. (\A p \in Opens : Live(p)' = Live(p) /\ (Over(p)' = Over(p))) /\ Threaded' = Threaded
    BY <2>1, <2>2 DEF Live, Over, Threaded
  <2>4. ChannelShape' /\ AskInv'
    BY <2>1, <2>2, <2>3 DEF ChannelShape, AskInv, AskerFits
  <2>5. SoleInv' /\ HandleInv' /\ CallInv' /\ NoStrayCalls'
    BY <2>1, <2>2, <2>3 DEF SoleInv, HandleInv, Driving, CallInv, NoStrayCalls, ChannelShape, Calls
  <2>6. SourceInv'
    BY <2>1, <2>2, <2>3 DEF SourceInv, Quiet
  <2> QED
    BY <2>4, <2>5, <2>6
<1>3. CASE EndClose(o)
  <2>1. /\ shut[o] = "closing" /\ stop = "stopped" /\ gate = {}
        /\ Uninitialize(o, ~registered /\ thread \in {"none", "gone"})
        /\ shut' = [shut EXCEPT ![o] = "closed"]
        /\ UNCHANGED <<rxVars, permit, job, asker, call, gate>>
    BY <1>3 DEF EndClose, GateIsFree
  <2>2. Live(o) /\ handle = o /\ Quiet
    BY <2>1 DEF Live, HandleInv, Driving, SourceInv
  <2>3. /\ handle' = 0 /\ UNCHANGED <<setup, stray, registered, thread, source, stop, reader>>
    BY <2>1, <2>2 DEF Uninitialize, Quiet, rxVars
  <2>4. \A p \in Opens : ~Live(p)'
    BY <2>1, <2>2 DEF HandleInv, Driving, Live, ChannelShape
  <2>5. permit # 0 => permit = o /\ job = "built"
    BY <2>1, <2>2 DEF SoleInv, AskInv, AskerFits
  <2>6. Quiet' /\ Threaded' = Threaded /\ (\A p \in Opens : Over(p) => Over(p)')
    BY <2>1, <2>2, <2>3 DEF Over, Quiet, Threaded, ChannelShape
  <2>7. ChannelShape' /\ AskInv'
    BY <2>1, <2>2, <2>3, <2>6 DEF ChannelShape, AskInv, AskerFits
  <2>8. SoleInv' /\ HandleInv' /\ NoStrayCalls'
    BY <2>1, <2>3, <2>4, <2>5, NoOpenIsZero DEF SoleInv, HandleInv, Driving, Initialized, NoStrayCalls
  <2>9. CallInv'
    BY <2>1 DEF CallInv
  <2>10. SourceInv'
    BY <2>1, <2>2, <2>3, <2>4, <2>6 DEF SourceInv
  <2> QED
    BY <2>7, <2>8, <2>9, <2>10
<1> QED
  BY <1>1, <1>2, <1>3 DEF CloseStep

-----------------------------------------------------------------------------
(* The callers, the receiver and the bus.                                   *)

LEMMA CallsKeep ==
  ASSUME PcanInv, NEW c \in Callers,
         (\E op \in {"send", "status", "set_filter"} : BeginCall(c, op))
           \/ CallStep(c) \/ CancelCall(c)
  PROVE  PcanInv'
<1> USE DEF PcanInv
<1>1. /\ UNCHANGED <<setup, handle, rxVars, permit, job, asker, shut>>
      /\ stray' = stray \/ (call[c].pc \in {"ffi", "range"} /\ Reached(call[c].on, call[c].op))
  BY DEF BeginCall, CallStep, LockTx, EnterGate, Write, WriteIsBusy, SleepEnds, Filter, FilterRange,
     Calling, CancelCall, driverVars
<1>2. UNCHANGED <<registered, thread, source, stop, reader>>
  BY <1>1 DEF rxVars
<1>3. /\ \A o \in Opens : Live(o)' = Live(o) /\ Over(o)' = Over(o)
      /\ Quiet' = Quiet /\ Threaded' = Threaded
  BY <1>1, <1>2 DEF Live, Over, Quiet, Threaded
<1>4. call' \in [Callers -> Calls]
  <2>1. NoCall \in Calls
    BY ChannelAssumption, DriverAssumption DEF NoCall, Calls, Opens
  <2>2. call \in [Callers -> Calls] /\ \A o \in Held : o \in Opens
    BY DEF ChannelShape, Held
  <2>3. CASE \E op \in {"send", "status", "set_filter"} : BeginCall(c, op)
    BY <2>2, <2>3, ChannelAssumption DEF BeginCall, Calls
  <2>4. CASE LockTx(c) \/ EnterGate(c) \/ SleepEnds(c)
    BY <2>1, <2>2, <2>4 DEF LockTx, EnterGate, SleepEnds, Moves, Returns, Calls
  <2>5. CASE Write(c) \/ FilterRange(c) \/ CancelCall(c)
    BY <2>1, <2>2, <2>5 DEF Write, FilterRange, CancelCall, Returns
  <2>6. CASE Filter(c)
    BY <2>1, <2>2, <2>6 DEF Filter, Moves, Returns, Calls
  <2>7. CASE WriteIsBusy(c)
    BY <2>2, <2>7, ChannelAssumption DEF WriteIsBusy, Calls
  <2> QED
    BY <2>3, <2>4, <2>5, <2>6, <2>7 DEF CallStep
<1>5. ChannelShape' /\ AskInv'
  BY <1>1, <1>2, <1>3, <1>4 DEF ChannelShape, AskInv, AskerFits
<1>6. SoleInv' /\ HandleInv'
  <2>1. handle # 0 => handle \in Opens
    BY DEF ChannelShape
  <2> QED
    BY <1>1, <1>3, <2>1 DEF SoleInv, HandleInv, Driving
<1>7. SourceInv'
  BY <1>1, <1>2, <1>3 DEF SourceInv
<1>8. NoStrayCalls'
  <2>1. ASSUME call[c].pc \in {"ffi", "range"} PROVE handle = call[c].on
    <3>1. call[c].on \in Opens /\ Live(call[c].on)
      BY <2>1 DEF CallInv, ChannelShape, Calls
    <3> QED
      BY <3>1 DEF HandleInv, Driving
  <2> QED
    BY <1>1, <2>1 DEF NoStrayCalls, Reached
<1>9. CallInv'
  <2> USE DEF ChannelShape, CallInv, Moves, Returns, NoCall
  <2>0. \A d \in Callers : call[d].on \in Opens
    BY DEF Calls
  <2>1. CASE \E op \in {"send", "status", "set_filter"} : BeginCall(c, op)
    BY <1>3, <2>0, <2>1 DEF BeginCall
  <2>2. CASE LockTx(c) \/ SleepEnds(c) \/ CancelCall(c)
    <3>1. UNCHANGED gate /\ call'[c].pc \notin {"ffi", "range"}
      <4>1. CASE LockTx(c)
        BY <4>1 DEF LockTx
      <4>2. CASE SleepEnds(c)
        BY <4>2 DEF SleepEnds
      <4>3. CASE CancelCall(c)
        BY <4>3 DEF CancelCall
      <4> QED
        BY <2>2, <4>1, <4>2, <4>3
    <3>2. \A d \in Callers : d # c => call'[d] = call[d]
      BY <2>2 DEF LockTx, SleepEnds, CancelCall
    <3> QED
      BY <1>3, <2>0, <3>1, <3>2
  <2>3. CASE EnterGate(c)
    <3>1. CASE StillOpen(c)
      <4>1. gate = {} /\ gate' = {c} /\ call' = [call EXCEPT ![c].pc = "ffi"] /\ Live(call[c].on)
        BY <2>3, <3>1 DEF EnterGate, StillOpen, Live
      <4> QED
        BY <1>3, <2>0, <4>1
    <3>2. CASE ~StillOpen(c)
      BY <1>3, <2>0, <2>3, <3>2 DEF EnterGate
    <3> QED
      BY <3>1, <3>2
  <2>4. CASE Write(c) \/ WriteIsBusy(c) \/ Filter(c) \/ FilterRange(c)
    <3>1. call[c].pc \in {"ffi", "range"} /\ gate = {c}
      BY <2>4 DEF Write, WriteIsBusy, Filter, FilterRange, Calling
    <3>2. \A d \in Callers : d # c => call'[d] = call[d] /\ call[d].pc \notin {"ffi", "range"}
      BY <2>4, <3>1 DEF Write, WriteIsBusy, Filter, FilterRange
    <3>3. call'[c].pc \in {"ffi", "range"} => gate' = gate /\ call'[c].on = call[c].on
      <4>1. CASE Write(c) \/ FilterRange(c)
        BY <4>1 DEF Write, FilterRange
      <4>2. CASE WriteIsBusy(c)
        BY <4>2 DEF WriteIsBusy
      <4>3. CASE Filter(c)
        <5>1. \/ call' = [call EXCEPT ![c] = NoCall]
              \/ call' = [call EXCEPT ![c].pc = "range"] /\ UNCHANGED gate
          BY <4>3 DEF Filter
        <5>2. call[c] \in Calls
          OBVIOUS
        <5> QED
          BY <5>1, <5>2 DEF Calls
      <4> QED
        BY <2>4, <4>1, <4>2, <4>3
    <3> QED
      BY <1>3, <2>0, <3>1, <3>2, <3>3
  <2> QED
    BY <2>1, <2>2, <2>3, <2>4 DEF CallStep
<1> QED
  BY <1>5, <1>6, <1>7, <1>8, <1>9

\* Whoever reads has a source of the channel that holds the handle.
LEMMA ReadsKeep ==
  ASSUME PcanInv, UNCHANGED chanVars,
         Receives \/ ThreadStep \/ Reactor
           \/ \E kind \in {"event", "odd", "fail"} : BusDelivers(kind)
  PROVE  PcanInv'
<1> USE DEF PcanInv
<1>1. ~Quiet => handle = source
  BY DEF SourceInv, HandleInv, Driving, Sourced, Initialized
<1>2. /\ UNCHANGED <<setup, handle, registered, source, stop>>
      /\ stray' = stray \/ (~Quiet /\ Reached(source, "CAN_Read"))
      /\ reader'.pc \in Polling => registered
      /\ reader' = [pc |-> reader'.pc, fresh |-> reader'.fresh, seen |-> reader'.seen]
      /\ thread' = thread \/ (thread \notin {"none", "gone"} /\ thread' # "none")
  <2> USE DEF driverVars, Polling, ChannelShape, SourceInv, Quiet
  <2>1. CASE BeginRecv
    BY <2>1 DEF BeginRecv, At
  <2>2. CASE Settle
    BY <2>2 DEF Settle
  <2>3. CASE TakeFromThread
    BY <2>3 DEF TakeFromThread, At, Return
  <2>4. CASE PollEvent
    BY <2>4 DEF PollEvent, At
  <2>5. CASE ReadInPoll
    BY <2>5 DEF ReadInPoll, ReadOne, At, Return
  <2>6. CASE PollReady
    BY <2>6 DEF PollReady
  <2>7. CASE ClearReady
    BY <2>7 DEF ClearReady, At
  <2>8. CASE CancelRecv
    BY <2>8 DEF CancelRecv, At
  <2>9. CASE Reactor
    BY <2>9 DEF Reactor, Awake
  <2>10. CASE ThreadStep
    BY <2>10 DEF ThreadStep, ThreadLooks, ThreadWaits, ThreadReads, ThreadPushes, ReadOne,
                 ThreadGivesUp, Again, Rest
  <2>11. CASE \E kind \in {"event", "odd", "fail"} : BusDelivers(kind)
    BY <2>11 DEF BusDelivers, Arrive, rxVars
  <2> QED
    BY <2>1, <2>2, <2>3, <2>4, <2>5, <2>6, <2>7, <2>8, <2>9, <2>10, <2>11 DEF Receives, ReaderStep
<1>3. NoStrayCalls'
  BY <1>1, <1>2 DEF NoStrayCalls, Reached
<1>4. UNCHANGED <<permit, job, asker, shut, call, gate>>
  BY DEF chanVars
<1>5. ChannelShape' /\ AskInv' /\ SoleInv' /\ HandleInv' /\ CallInv'
  BY <1>2, <1>4
  DEF ChannelShape, AskInv, AskerFits, SoleInv, HandleInv, CallInv, Live, Over, Driving
<1>6. SourceInv'
  BY <1>2, <1>4 DEF SourceInv, Quiet, Live, Threaded
<1> QED
  BY <1>3, <1>5, <1>6

LEMMA PcanStep == PcanInv /\ [PcanNext]_pcanVars => PcanInv'
<1> SUFFICES ASSUME PcanInv, [PcanNext]_pcanVars PROVE PcanInv'
  OBVIOUS
<1>1. CASE UNCHANGED pcanVars
  BY <1>1 DEF pcanVars, driverVars, rxVars, chanVars, PcanInv, ChannelShape, AskInv, AskerFits, Over,
     SoleInv, HandleInv, SourceInv, CallInv, NoStrayCalls, Live, Driving, Quiet, Threaded
<1> QED
  BY <1>1, AskKeeps, JobKeepsInv, CloseKeeps, CallsKeep, ReadsKeep DEF PcanNext

LEMMA PcanInvariance == AnySpec => []PcanInv
<1>1. AnyInit => PcanInv
  BY PcanStarts DEF AnyInit
<1>2. PcanInv /\ [AnyNext]_anyVars => PcanInv'
  <2>1. [AnyNext]_anyVars => [PcanNext]_pcanVars
    BY DEF AnyNext, Basic, Socket, anyVars
  <2> QED
    BY <2>1, PcanStep
<1> QED
  BY <1>1, <1>2, PTL DEF AnySpec

\* channel.rs 195-217, 307-317: no call reaches the driver on a handle that is not initialized, or is
\* another open's, and the handle goes back with nothing registered: not from a caller that
\* passed the closed check, not from a job nobody waits for, not from the receiving thread.
THEOREM NoCallStrays == AnySpec => []NoStrayCalls
BY PcanInvariance, PTL DEF PcanInv

\* channel.rs 64-70, 608-626: once the permit is back and every channel that was handed out is
\* closed, the driver is free, whichever step of which open failed or was given up.
THEOREM NothingIsLeaked == AnySpec => []NothingLeaks
<1>1. PcanInv => NothingLeaks
  <2> SUFFICES ASSUME PcanInv, permit = 0, \A o \in Held : shut[o] = "closed"
               PROVE  handle = 0 /\ Quiet
    BY DEF NothingLeaks, Quiet
  <2>1. job = "idle" /\ \A o \in Opens : ~Live(o)
    BY NoOpenIsZero DEF PcanInv, ChannelShape, SoleInv, Live, Held
  <2> QED
    BY <2>1, NoOpenIsZero DEF PcanInv, ChannelShape, HandleInv, SourceInv, Driving, Sourced, Initialized
<1> QED
  BY <1>1, PcanInvariance, PTL

-----------------------------------------------------------------------------
(* No message waits behind a receiver that sleeps.                          *)

\* read_one makes something of every message: what EventSwallowed shows is left out.
PlainTraffic == \A b \in Setups : "odd" \notin b.kinds

Plain == [kind : {"event", "fail"}, number : Nat]

\* An edge not taken yet, or a readiness not asked for yet, for what lies in the queue.
SleepInv ==
  /\ setup \in Setups /\ arrived \in Nat /\ hw \in Seq(Plain)
  /\ thread = "wait" => setup.platform = "windows"
  /\ thread = "wait" /\ ~signal => hw = <<>>
  /\ registered /\ reader.pc = "parked" /\ ~signal => hw = <<>>
  /\ registered /\ reader.pc = "ready" /\ ~signal /\ ~ready => hw = <<>>

LEMMA SleepStarts == PcanInit => SleepInv
BY DEF PcanInit, DriverInit, RxInit, SleepInv

\* An empty queue is what recv() and the thread go to sleep on.
LEMMA ReadFindsNothing ==
  ASSUME SleepInv, NEW o, ReadOne(o)
  PROVE  hw' \in Seq(Plain) /\ (ReadOutcome = "Empty" => hw = <<>> /\ hw' = <<>>)
<1>1. hw' = IF hw = <<>> THEN hw ELSE Tail(hw)
  BY DEF ReadOne
<1>2. CASE hw = <<>>
  BY <1>1, <1>2 DEF SleepInv
<1>3. CASE hw # <<>>
  <2>1. Head(hw) \in Plain /\ Tail(hw) \in Seq(Plain)
    BY <1>3 DEF SleepInv
  <2>2. Head(hw).kind \in {"event", "fail"}
    BY <2>1 DEF Plain
  <2> QED
    BY <1>1, <1>3, <2>1, <2>2 DEF ReadOutcome
<1> QED
  BY <1>2, <1>3

LEMMA SleepArrival ==
  ASSUME PlainTraffic, SleepInv, NEW kind \in {"event", "odd", "fail"}, BusDelivers(kind)
  PROVE  SleepInv'
<1>1. /\ kind \in setup.kinds /\ arrived' = arrived + 1
      /\ hw' = Append(hw, [kind |-> kind, number |-> arrived + 1])
      /\ signal' = (signal \/ Listens) /\ UNCHANGED <<setup, rxVars>>
  BY DEF BusDelivers, Arrive
<1>2. kind # "odd"
  BY <1>1 DEF PlainTraffic, SleepInv
<1>3. [kind |-> kind, number |-> arrived + 1] \in Plain
  BY <1>2 DEF Plain, SleepInv
<1>4. hw' \in Seq(Plain) /\ arrived' \in Nat
  BY <1>1, <1>3 DEF SleepInv
<1>5. thread = "wait" \/ registered => signal'
  BY <1>1 DEF SleepInv, Listens
<1> QED
  BY <1>1, <1>4, <1>5 DEF SleepInv, rxVars

\* recv() looks at the queue before it asks for the readiness, and at that before it parks.
LEMMA SleepReader ==
  ASSUME PcanInv, SleepInv, Receives \/ Reactor
  PROVE  SleepInv'
<1> USE DEF SleepInv, PcanInv, ChannelShape, driverVars
<1>1. CASE BeginRecv
  BY <1>1 DEF BeginRecv, At
<1>2. CASE Settle
  BY <1>2 DEF Settle
<1>3. CASE TakeFromThread
  BY <1>3 DEF TakeFromThread, At, Return
<1>4. CASE PollEvent
  BY <1>4 DEF PollEvent, At
<1>5. CASE ReadInPoll
  <2>1. /\ ReadOne(source) /\ UNCHANGED <<setup, arrived, thread, signal, registered, ready>>
        /\ reader.pc \in {"read", "try"}
        /\ IF ReadOutcome = "Empty"
           THEN At(IF reader.pc = "read" THEN "ready" ELSE "clear") ELSE At("idle")
    BY <1>5 DEF ReadInPoll, Return
  <2>2. hw' \in Seq(Plain) /\ (ReadOutcome = "Empty" => hw = <<>> /\ hw' = <<>>)
        /\ (hw = <<>> => hw' = <<>>)
    BY <2>1, ReadFindsNothing DEF ReadOne
  <2>3. reader'.pc \in {"ready", "clear", "idle"} /\ (reader'.pc = "ready" => hw' = <<>>)
    BY <2>1, <2>2 DEF At
  <2> QED
    BY <2>1, <2>2, <2>3
<1>6. CASE PollReady
  BY <1>6 DEF PollReady
<1>7. CASE ClearReady
  BY <1>7 DEF ClearReady, At
<1>8. CASE CancelRecv
  BY <1>8 DEF CancelRecv, At
<1>9. CASE Reactor
  <2>1. thread = "none"
    BY <1>9 DEF Reactor, SourceInv
  <2> QED
    BY <1>9, <2>1 DEF Reactor, Awake
<1> QED
  BY <1>1, <1>2, <1>3, <1>4, <1>5, <1>6, <1>7, <1>8, <1>9 DEF Receives, ReaderStep

\* The Windows thread drains the queue before it waits for its event again.
LEMMA SleepThread ==
  ASSUME PcanInv, SleepInv, ThreadStep
  PROVE  SleepInv'
<1> USE DEF SleepInv, driverVars
<1>0. ~registered \/ thread = "none"
  BY DEF PcanInv, SourceInv
<1>1. CASE ThreadLooks
  BY <1>0, <1>1 DEF ThreadLooks
<1>2. CASE ThreadWaits
  BY <1>0, <1>2 DEF ThreadWaits
<1>3. CASE ThreadReads
  <2>1. /\ ReadOne(source) /\ UNCHANGED <<setup, arrived, registered, ready, signal, reader>>
        /\ thread = "read" /\ thread' = IF ReadOutcome = "Empty" THEN Rest ELSE "push"
    BY <1>3 DEF ThreadReads
  <2>2. hw' \in Seq(Plain) /\ (ReadOutcome = "Empty" => hw' = <<>>)
    BY <2>1, ReadFindsNothing
  <2>3. thread' = "wait" => setup.platform # "poll" /\ hw' = <<>>
    BY <2>1, <2>2 DEF Rest
  <2>4. setup.platform = "poll" \/ setup.platform = "windows"
    BY <2>1 DEF PcanInv, SourceInv, Threaded
  <2> QED
    BY <1>0, <2>1, <2>2, <2>3, <2>4
<1>4. CASE ThreadPushes
  BY <1>0, <1>4 DEF ThreadPushes, ThreadGivesUp, Again
<1> QED
  BY <1>1, <1>2, <1>3, <1>4 DEF ThreadStep

LEMMA SleepStop ==
  ASSUME PcanInv, SleepInv, StopStep
  PROVE  SleepInv'
<1> USE DEF SleepInv, PcanInv, ChannelShape, driverVars
<1>1. CASE ClaimStop \/ Unblock \/ JoinThread \/ Release
  BY <1>1 DEF ClaimStop, Unblock, JoinThread, Release
<1>2. CASE NotifyShutdown
  <2>1. ~registered /\ UNCHANGED <<driverVars, registered, thread>>
    BY <1>2 DEF NotifyShutdown, SourceInv
  <2> QED
    BY <2>1
<1> QED
  BY <1>1, <1>2 DEF StopStep

\* A job that creates the source raises the edge for what came before; one that initializes
\* or gives back the handle leaves an empty queue.
LEMMA SleepJob ==
  ASSUME PcanInv, SleepInv, JobStep
  PROVE  SleepInv'
<1> USE DEF SleepInv
<1>1. CASE JobOpens \/ JobCleansUp
  <2>1. UNCHANGED <<setup, registered, thread, reader, ready>>
    BY <1>1 DEF JobOpens, JobCleansUp, Initialize, Uninitialize, driverVars, rxVars
  <2>2. \/ UNCHANGED <<hw, signal, arrived>>
        \/ hw' = <<>> /\ signal' = FALSE /\ arrived' = 0
    BY <1>1 DEF JobOpens, JobCleansUp, Initialize, Uninitialize, driverVars
  <2>3. CASE UNCHANGED <<hw, signal, arrived>>
    BY <2>1, <2>3
  <2>4. CASE hw' = <<>> /\ signal' = FALSE /\ arrived' = 0
    <3>1. hw' \in Seq(Plain) /\ arrived' \in Nat
      BY <2>4
    <3> QED
      BY <2>1, <2>4, <3>1
  <2> QED
    BY <2>2, <2>3, <2>4
<1>2. CASE JobSetsParameters \/ JobFilters \/ JobAnswers \/ JobIsDropped
  BY <1>2 DEF JobSetsParameters, JobFilters, JobAnswers, JobIsDropped, driverVars, rxVars
<1>3. CASE JobCreatesSource
  <2>1. CASE UNCHANGED <<driverVars, rxVars>>
    BY <2>1 DEF driverVars, rxVars
  <2>2. CASE CreateSource(permit)
    <3>1. /\ UNCHANGED <<setup, arrived, hw, reader>>
          /\ signal' = (setup.platform # "poll" /\ hw # <<>>)
          /\ registered' = ~Threaded /\ thread' = IF Threaded THEN Rest ELSE "none"
      BY <2>2 DEF CreateSource
    <3>2. registered' \/ thread' = "wait" => setup.platform # "poll"
      BY <3>1 DEF Threaded, Rest
    <3>3. thread' = "wait" => setup.platform = "windows"
      BY <3>1 DEF Threaded, Rest
    <3> QED
      BY <3>1, <3>2, <3>3
  <2> QED
    BY <1>3, <2>1, <2>2 DEF JobCreatesSource
<1>4. CASE JobStops
  BY <1>4, SleepStop DEF JobStops, driverVars, rxVars
<1> QED
  BY <1>1, <1>2, <1>3, <1>4 DEF JobStep

LEMMA SleepStep == PlainTraffic /\ PcanInv /\ SleepInv /\ [PcanNext]_pcanVars => SleepInv'
<1> SUFFICES ASSUME PlainTraffic, PcanInv, SleepInv, [PcanNext]_pcanVars PROVE SleepInv'
  OBVIOUS
<1>1. ASSUME NEW o \in Opens, Ask(o) \/ Acquire(o) \/ GiveUp(o) \/ BeginClose(o)
      PROVE  SleepInv'
  BY <1>1 DEF Ask, Acquire, GiveUp, BeginClose, SleepInv, driverVars, rxVars
<1>2. ASSUME NEW o \in Opens, CloseStep(o) PROVE SleepInv'
  <2>1. CASE StopSource(o)
    BY <2>1, SleepStop DEF StopSource
  <2>2. CASE EndClose(o)
    BY <2>2 DEF EndClose, Uninitialize, SleepInv, rxVars
  <2> QED
    BY <1>2, <2>1, <2>2 DEF CloseStep
<1>3. ASSUME NEW c \in Callers,
             (\E op \in {"send", "status", "set_filter"} : BeginCall(c, op))
               \/ CallStep(c) \/ CancelCall(c)
      PROVE  SleepInv'
  <2>1. UNCHANGED <<setup, handle, hw, signal, arrived, rxVars>>
    BY <1>3 DEF BeginCall, CallStep, LockTx, EnterGate, Write, WriteIsBusy, SleepEnds, Filter,
       FilterRange, Calling, CancelCall, driverVars
  <2> QED
    BY <2>1 DEF SleepInv, rxVars
<1>4. CASE UNCHANGED pcanVars
  BY <1>4 DEF pcanVars, driverVars, rxVars, SleepInv
<1> QED
  BY <1>1, <1>2, <1>3, <1>4, SleepJob, SleepReader, SleepThread, SleepArrival DEF PcanNext

\* The socket: what can be had has an edge or a readiness, and a task that is about to
\* clear a readiness it saw has found nothing, or an edge has come since.
SocketInv ==
  /\ able \in [Directions -> Nat] /\ edge \in [Directions -> BOOLEAN]
  /\ sockReady \in [Directions -> BOOLEAN]
  /\ io \in [SocketTasks -> [pc : {"idle", "look", "call", "wait", "check", "retry", "clear"},
                             seen : BOOLEAN]]
  /\ \A d \in Directions : able[d] # 0 => sockReady[d] \/ edge[d]
  /\ \A t \in SocketTasks :
       io[t].pc = "clear" /\ io[t].seen /\ able[Direction[t]] # 0 => edge[Direction[t]]

LEMMA SocketStarts == SocketInit => SocketInv
<1> SUFFICES ASSUME SocketInit PROVE SocketInv
  OBVIOUS
<1>1. able \in [Directions -> Nat] /\ able["recv"] = 0
  BY SocketAssumption DEF SocketInit, Directions
<1>2. edge \in [Directions -> BOOLEAN] /\ edge["send"]
  <2>1. edge = [recv |-> FALSE, send |-> TRUE]
    BY DEF SocketInit
  <2>2. DOMAIN edge = {"recv", "send"} /\ edge["recv"] = FALSE /\ edge["send"] = TRUE
    BY <2>1
  <2>3. edge = [d \in {"recv", "send"} |-> edge[d]]
    BY <2>1
  <2> QED
    BY <2>2, <2>3 DEF Directions
<1> QED
  BY <1>1, <1>2, SocketAssumption DEF SocketInit, SocketInv, Directions

LEMMA SocketStep == SocketInv /\ [SocketNext]_socketVars => SocketInv'
<1> SUFFICES ASSUME SocketInv, [SocketNext]_socketVars PROVE SocketInv'
  OBVIOUS
<1> USE SocketAssumption DEF SocketInv, Directions
<1>1. ASSUME NEW t \in SocketTasks, BeginIo(t) \/ LookAtClosed(t) \/ KernelFails(t) \/ CancelIo(t)
      PROVE  SocketInv'
  <2>1. UNCHANGED <<able, edge, sockReady>>
    BY <1>1 DEF BeginIo, LookAtClosed, KernelFails, CancelIo, KernelStays
  <2>2. \E from, to \in {"idle", "look", "call", "wait", "check", "retry"} : Goes(t, from, to)
    BY <1>1 DEF BeginIo, LookAtClosed, KernelFails, CancelIo
  <2> QED
    BY <2>1, <2>2 DEF Goes
<1>2. ASSUME NEW t \in SocketTasks, CallKernel(t) PROVE SocketInv'
  <2> DEFINE d == Direction[t]
  <2>1. d \in {"recv", "send"} /\ able[d] \in Nat
    OBVIOUS
  <2>2. CASE able[d] > 0
    <3>1. /\ able' = [able EXCEPT ![d] = able[d] - 1] /\ UNCHANGED <<edge, sockReady>>
          /\ \E seen \in BOOLEAN : io' = [io EXCEPT ![t] = [pc |-> "idle", seen |-> seen]]
      <4>1. /\ able' = [able EXCEPT ![d] = able[d] - 1] /\ UNCHANGED <<edge, sockReady>>
            /\ Goes(t, "call", "idle") \/ Goes(t, "retry", "idle")
        BY <1>2, <2>1, <2>2 DEF CallKernel
      <4> QED
        BY <4>1 DEF Goes
    <3>2. able[d] - 1 \in Nat /\ able[d] # 0
      BY <2>1, <2>2
    <3> QED
      BY <2>1, <3>1, <3>2
  <2>3. CASE able[d] = 0
    <3>1. UNCHANGED <<able, edge, sockReady>> /\ (Goes(t, "call", "wait") \/ Goes(t, "retry", "clear"))
      BY <1>2, <2>1, <2>3 DEF CallKernel
    <3>2. \E pc \in {"wait", "clear"}, seen \in BOOLEAN :
            io' = [io EXCEPT ![t] = [pc |-> pc, seen |-> seen]]
      BY <3>1 DEF Goes
    <3> QED
      BY <2>1, <2>3, <3>1, <3>2
  <2> QED
    BY <2>1, <2>2, <2>3
<1>3. ASSUME NEW t \in SocketTasks, EndWait(t) PROVE SocketInv'
  <2>1. UNCHANGED <<able, edge, sockReady>>
    BY <1>3 DEF EndWait, KernelStays
  <2>2. \E pc \in {"idle", "check"}, seen \in BOOLEAN :
          io' = [io EXCEPT ![t] = [pc |-> pc, seen |-> seen]]
    BY <1>3 DEF EndWait, Goes
  <2> QED
    BY <2>1, <2>2
<1>4. ASSUME NEW t \in SocketTasks, ClearIo(t) PROVE SocketInv'
  <2>1. /\ io[t].pc = "clear" /\ UNCHANGED <<able, edge>>
        /\ sockReady' = [sockReady EXCEPT ![Direction[t]] = @ /\ ~io[t].seen]
        /\ io' = [io EXCEPT ![t] = [pc |-> "look", seen |-> FALSE]]
    BY <1>4 DEF ClearIo, Cleared, Goes
  <2>2. \A d \in Directions : able[d] # 0 => sockReady'[d] \/ edge[d]
    BY <2>1
  <2>3. sockReady' \in [Directions -> BOOLEAN]
    BY <2>1
  <2> QED
    BY <2>1, <2>2, <2>3
<1>5. ASSUME NEW d \in Directions, KernelMoves(d) PROVE SocketInv'
  BY <1>5 DEF KernelMoves
<1>6. ASSUME NEW d \in Directions, SocketReactor(d) PROVE SocketInv'
  BY <1>6 DEF SocketReactor
<1>7. CASE CloseSocket \/ SignalShutdown \/ UNCHANGED socketVars
  BY <1>7 DEF CloseSocket, SignalShutdown, socketVars
<1> QED
  BY <1>1, <1>2, <1>3, <1>4, <1>5, <1>6, <1>7 DEF SocketNext, IoStep

\* linux.rs 120-179, windows.rs 133-180, socket.rs 679-806: with either backend nobody sleeps
\* over a message, if read_one returns something for every message it takes.
THEOREM NothingEverSleeps == PlainTraffic => (AnySpec => []NothingSleeps)
<1>1. AnyInit => SleepInv /\ SocketInv
  BY SleepStarts, SocketStarts DEF AnyInit
<1>2. PlainTraffic /\ PcanInv /\ SleepInv /\ SocketInv /\ [AnyNext]_anyVars
        => SleepInv' /\ SocketInv'
  <2>1. [AnyNext]_anyVars => [PcanNext]_pcanVars /\ [SocketNext]_socketVars
    BY DEF AnyNext, Basic, Socket, anyVars
  <2> QED
    BY <2>1, SleepStep, SocketStep
<1>3. SleepInv /\ SocketInv => NothingSleeps
  BY SocketAssumption
  DEF SleepInv, SocketInv, NothingSleeps, SourceSleepsOverNothing, SocketSleepsOverNothing, Directions
<1>4. ASSUME PlainTraffic PROVE AnySpec => []NothingSleeps
  <2>1. PcanInv /\ SleepInv /\ SocketInv /\ [AnyNext]_anyVars => SleepInv' /\ SocketInv'
    BY <1>2, <1>4
  <2> QED
    BY <1>1, <1>3, <2>1, PcanInvariance, PTL DEF AnySpec
<1> QED
  BY <1>4
-----------------------------------------------------------------------------
(* A closed socket.                                                         *)

LEMMA ClosedStep ==
  ASSUME SocketInv, sockClosed, SocketNext
  PROVE  /\ sockClosed'
         /\ \/ passed' = passed /\ Decided' \subseteq Decided
            \/ \E t \in Decided : /\ Decided' = Decided \ {t}
                                 /\ passed' = [passed EXCEPT ![Direction[t]] = @ + 1]
<1> DEFINE Last(t) == /\ Decided' = Decided \ {t}
                      /\ passed' = [passed EXCEPT ![Direction[t]] = @ + 1]
<1>0. DOMAIN io = SocketTasks
  BY DEF SocketInv
<1>1. ASSUME NEW t \in SocketTasks, NEW from, NEW to, Goes(t, from, to)
      PROVE  /\ io[t].pc = from /\ io'[t].pc = to
             /\ \A u \in SocketTasks \ {t} : io'[u] = io[u]
  BY <1>0, <1>1 DEF Goes
<1>2. ASSUME NEW t \in SocketTasks, NEW from, NEW to, Goes(t, from, to),
             to \notin {"call", "retry"}
      PROVE  Decided' = Decided \ {t}
  <2>1. io[t].pc = from /\ io'[t].pc = to /\ \A u \in SocketTasks \ {t} : io'[u] = io[u]
    BY <1>1, <1>2
  <2> QED BY <1>2, <2>1 DEF Decided
<1>3. ASSUME NEW t \in SocketTasks, BeginIo(t) \/ LookAtClosed(t) \/ KernelFails(t) \/ CancelIo(t)
      PROVE  sockClosed' /\ passed' = passed /\ Decided' = Decided \ {t}
  <2>1. \E from, to : Goes(t, from, to) /\ to \notin {"call", "retry"}
    BY <1>3 DEF BeginIo, LookAtClosed, KernelFails, CancelIo
  <2>2. sockClosed' = sockClosed /\ passed' = passed
    BY <1>3 DEF BeginIo, LookAtClosed, KernelFails, CancelIo, KernelStays
  <2> QED BY <1>2, <2>1, <2>2
<1>4. ASSUME NEW t \in SocketTasks, CallKernel(t)
      PROVE  sockClosed' /\ ((passed' = passed /\ Decided' = Decided \ {t})
                             \/ (t \in Decided /\ Last(t)))
  <2>1. sockClosed' = sockClosed
    BY <1>4 DEF CallKernel
  <2>2. \E from \in {"call", "retry"} : \E to : Goes(t, from, to) /\ to \notin {"call", "retry"}
    BY <1>4 DEF CallKernel
  <2>3. Decided' = Decided \ {t}
    BY <1>2, <2>2
  <2>4. t \in Decided
    BY <1>1, <2>2 DEF Decided
  <2>5. passed' = passed \/ passed' = [passed EXCEPT ![Direction[t]] = @ + 1]
    BY <1>4 DEF CallKernel
  <2> QED BY <2>1, <2>3, <2>4, <2>5
<1>5. ASSUME NEW t \in SocketTasks, EndWait(t) \/ ClearIo(t)
      PROVE  sockClosed' /\ passed' = passed /\ Decided' = Decided \ {t}
  <2>1. sockClosed' = sockClosed /\ passed' = passed
    BY <1>5 DEF EndWait, ClearIo, KernelStays
  <2>2. CASE Goes(t, "wait", "idle") \/ Goes(t, "clear", "look")
    BY <1>2, <2>1, <2>2
  <2>3. CASE io' = [io EXCEPT ![t] = [pc |-> "check", seen |-> TRUE]]
    <3>1. io'[t].pc = "check" /\ \A u \in SocketTasks \ {t} : io'[u] = io[u]
      BY <1>0, <2>3
    <3> QED BY <2>1, <3>1 DEF Decided
  <2> QED BY <1>5, <2>2, <2>3 DEF EndWait, ClearIo
<1>6. ASSUME NEW d \in Directions, KernelMoves(d)
      PROVE  sockClosed' /\ passed' = passed /\ Decided' = Decided
  BY <1>6 DEF KernelMoves, Decided
<1>7. ASSUME NEW d \in Directions, SocketReactor(d)
      PROVE  sockClosed' /\ passed' = passed /\ Decided' = Decided
  <2>1. sockClosed' = sockClosed /\ passed' = passed
    BY <1>7 DEF SocketReactor
  <2>2. \A t \in SocketTasks : io'[t].pc = io[t].pc
    BY <1>7 DEF SocketReactor, SocketInv
  <2> QED BY <2>1, <2>2 DEF Decided
<1>8. CASE CloseSocket \/ SignalShutdown
  BY <1>8 DEF CloseSocket, SignalShutdown, Decided
<1> QED BY <1>3, <1>4, <1>5, <1>6, <1>7, <1>8 DEF SocketNext, IoStep

\* socket.rs 682-740: once closed is set no task of a socket decides to call the kernel any
\* more, and who had decided crosses with one frame at most, for any number of tasks.
THEOREM ClosedAlwaysFinal == AnySpec => ClosedIsFinal
<1>1. AnyInit => SocketInv
  BY SocketStarts DEF AnyInit
<1>2. SocketInv /\ [AnyNext]_anyVars => SocketInv'
  <2>1. [AnyNext]_anyVars => [SocketNext]_socketVars
    BY DEF AnyNext, Socket, Basic, anyVars, socketVars
  <2> QED BY <2>1, SocketStep
<1>3. SocketInv /\ [AnyNext]_anyVars =>
        [sockClosed =>
           /\ sockClosed'
           /\ \/ passed' = passed /\ Decided' \subseteq Decided
              \/ \E t \in Decided : /\ Decided' = Decided \ {t}
                                   /\ passed' = [passed EXCEPT ![Direction[t]] = @ + 1]]_socketVars
  <2>1. [AnyNext]_anyVars => SocketNext \/ UNCHANGED socketVars
    BY DEF AnyNext, Socket, Basic, anyVars, socketVars
  <2> QED BY <2>1, ClosedStep
<1> QED BY <1>1, <1>2, <1>3, PTL DEF AnySpec, ClosedIsFinal

-----------------------------------------------------------------------------
(* Types of both back ends.                                                 *)

\* A lock of the channel is free, or one caller has it.
Lone(holders) == holders = {} \/ \E c \in Callers : holders = {c}

JobStates == {"idle", "open", "params", "rx", "filter", "range", "stop", "cleanup", "failed",
              "built"}

DriverShape ==
  /\ setup \in Setups /\ hw \in Seq(Messages) /\ signal \in BOOLEAN
  /\ arrived \in 0..MaxMessages

LockShape ==
  /\ job \in JobStates /\ hwFilter \in {"open", "range", "shut"}
  /\ Lone(txLock) /\ Lone(gate)

WireInv == DriverShape /\ RxTypeOK /\ LockShape

LEMMA WireStarts == PcanInit => WireInv
<1> SUFFICES ASSUME PcanInit PROVE WireInv
  OBVIOUS
<1> USE DEF PcanInit, DriverInit, RxInit
<1>1. <<>> \in Seq(Messages) /\ Len(<<>>) = 0
  BY EmptySeq
<1>2. Room \in Nat /\ 0 \in 0..MaxMessages
  BY DriverAssumption DEF Room
<1>3. RxTypeOK
  <2>1. /\ source = 0 /\ registered = FALSE /\ ready = FALSE /\ notified = FALSE
        /\ thread = "none" /\ held = <<>> /\ chan = <<>> /\ chanClosed = FALSE /\ stop = "no"
        /\ reader.pc = "idle"
    OBVIOUS
  <2>2. held \in Seq(Messages) /\ Len(held) <= 1 /\ chan \in Seq(Messages) /\ Len(chan) <= Room
    BY <1>1, <1>2, <2>1
  <2> QED
    BY <2>1, <2>2 DEF RxTypeOK
<1>4. DriverShape
  BY <1>1, <1>2 DEF DriverShape
<1>5. LockShape
  BY DEF LockShape, JobStates, Lone
<1> QED
  BY <1>3, <1>4, <1>5 DEF WireInv

\* What read_one leaves of the queue, and what a bus that delivers makes of it.
LEMMA ReadTypes ==
  ASSUME DriverShape, NEW o, ReadOne(o)
  PROVE  hw' \in Seq(Messages) /\ (ReadOutcome # "Empty" => hw # <<>> /\ Head(hw) \in Messages)
<1>1. hw # <<>> => Head(hw) \in Messages /\ Tail(hw) \in Seq(Messages)
  BY HeadTailProperties DEF DriverShape
<1> QED
  BY <1>1 DEF ReadOne, ReadOutcome, DriverShape

LEMMA ArriveTypes ==
  ASSUME DriverShape, NEW kind \in {"event", "odd", "fail"}, NEW listens \in BOOLEAN,
         Arrive(kind, listens)
  PROVE  DriverShape'
<1>1. /\ arrived' = arrived + 1 /\ hw' = Append(hw, [kind |-> kind, number |-> arrived + 1])
      /\ signal' = (signal \/ listens) /\ setup' = setup /\ arrived < setup.messages
  BY DEF Arrive
<1>2. arrived + 1 \in 1..MaxMessages
  BY <1>1, DriverAssumption DEF DriverShape
<1>3. [kind |-> kind, number |-> arrived + 1] \in Messages
  BY <1>2 DEF Messages
<1>4. hw' \in Seq(Messages)
  BY <1>1, <1>3, AppendProperties DEF DriverShape
<1> QED
  BY <1>1, <1>2, <1>4 DEF DriverShape

\* The receiving thread.
LEMMA ThreadTypes ==
  ASSUME WireInv, ThreadStep
  PROVE  DriverShape' /\ RxTypeOK'
<1> USE DEF WireInv
<1>1. CASE ThreadLooks
  BY <1>1 DEF ThreadLooks, DriverShape, RxTypeOK, driverVars, Room
<1>2. CASE ThreadWaits
  BY <1>2 DEF ThreadWaits, DriverShape, RxTypeOK, Room
<1>3. CASE ThreadReads
  <2>1. /\ ReadOne(source) /\ thread = "read"
        /\ UNCHANGED <<setup, signal, arrived, source, registered, ready, notified, chan,
                       chanClosed, stop, reader>>
        /\ IF ReadOutcome = "Empty"
           THEN thread' = Rest /\ held' = held
           ELSE thread' = "push" /\ held' = <<Head(hw)>>
    BY <1>3 DEF ThreadReads
  <2>2. hw' \in Seq(Messages) /\ (ReadOutcome # "Empty" => Head(hw) \in Messages)
    BY <2>1, ReadTypes
  <2>3. DriverShape'
    BY <2>1, <2>2 DEF DriverShape
  <2>4. /\ held' \in Seq(Messages) /\ Len(held') <= 1 /\ (thread' = "push") = (held' # <<>>)
        /\ thread' \in {"look", "wait", "push"}
    <3>1. CASE ReadOutcome = "Empty"
      BY <2>1, <3>1 DEF RxTypeOK, Rest
    <3>2. CASE ReadOutcome # "Empty"
      <4>1. thread' = "push" /\ held' = <<Head(hw)>> /\ Head(hw) \in Messages
        BY <2>1, <2>2, <3>2
      <4>2. \A m \in Messages : <<m>> \in Seq(Messages) /\ Len(<<m>>) = 1 /\ <<m>> # <<>>
        OBVIOUS
      <4> QED
        BY <4>1, <4>2
    <3> QED
      BY <3>1, <3>2
  <2> QED
    BY <2>1, <2>3, <2>4 DEF RxTypeOK, Room
<1>4. CASE ThreadPushes
  <2>1. /\ thread = "push" /\ held # <<>> /\ Len(held) <= 1 /\ held \in Seq(Messages)
        /\ UNCHANGED <<driverVars, source, registered, ready, notified, chanClosed, stop, reader>>
        /\ thread' \in {"gone", "look", "read"} /\ held' = <<>>
        /\ chan' = chan \/ (Len(chan) < Room /\ chan' = Append(chan, held[1]))
    BY <1>4 DEF ThreadPushes, ThreadGivesUp, Again, RxTypeOK
  <2>2. held[1] \in Messages
    BY <2>1, EmptySeq, ElementOfSeq
  <2>3. Room \in Nat /\ chan \in Seq(Messages) /\ Len(chan) \in Nat /\ Len(chan) <= Room
    BY LenProperties, DriverAssumption DEF RxTypeOK, Room, DriverShape
  <2>4. chan' \in Seq(Messages) /\ Len(chan') <= Room
    BY <2>1, <2>2, <2>3, AppendProperties
  <2>5. DriverShape' /\ Room' = Room
    BY <2>1 DEF DriverShape, driverVars, Room
  <2>6. held' \in Seq(Messages) /\ Len(held') <= 1
    BY <2>1, EmptySeq
  <2> QED
    BY <2>1, <2>4, <2>5, <2>6 DEF RxTypeOK
<1> QED
  BY <1>1, <1>2, <1>3, <1>4 DEF ThreadStep

\* recv(), and the reactor.
LEMMA ReaderTypes ==
  ASSUME PcanInv, WireInv, Receives \/ Reactor
  PROVE  DriverShape' /\ RxTypeOK'
<1> USE DEF WireInv, PcanInv, ChannelShape
<1>1. CASE BeginRecv
  BY <1>1 DEF BeginRecv, At, DriverShape, RxTypeOK, driverVars, Room
<1>2. CASE Settle
  BY <1>2 DEF Settle, DriverShape, RxTypeOK, driverVars, Room
<1>3. CASE TakeFromThread
  <2>1. /\ UNCHANGED <<driverVars, source, registered, ready, notified, thread, held, chanClosed,
                       stop>>
        /\ reader'.pc = "idle" /\ (chan' = chan \/ (chan # <<>> /\ chan' = Tail(chan)))
    BY <1>3 DEF TakeFromThread, At, Return
  <2>2. Room \in Nat /\ chan \in Seq(Messages) /\ Len(chan) \in Nat /\ Len(chan) <= Room
    BY LenProperties, DriverAssumption DEF RxTypeOK, Room, DriverShape
  <2>3. chan' \in Seq(Messages) /\ Len(chan') <= Room
    BY <2>1, <2>2, HeadTailProperties
  <2>4. DriverShape' /\ Room' = Room
    BY <2>1 DEF DriverShape, driverVars, Room
  <2> QED
    BY <2>1, <2>3, <2>4 DEF RxTypeOK
<1>4. CASE PollEvent
  BY <1>4 DEF PollEvent, At, DriverShape, RxTypeOK, driverVars, Room, Polling
<1>5. CASE ReadInPoll
  <2>1. /\ ReadOne(source)
        /\ UNCHANGED <<setup, signal, arrived, source, registered, ready, notified, thread, held,
                       chan, chanClosed, stop>>
        /\ reader'.pc \in {"ready", "clear", "idle"}
    BY <1>5 DEF ReadInPoll, At, Return
  <2>2. hw' \in Seq(Messages)
    BY <2>1, ReadTypes
  <2> QED
    BY <2>1, <2>2 DEF DriverShape, RxTypeOK, Room, Polling
<1>6. CASE PollReady
  BY <1>6 DEF PollReady, DriverShape, RxTypeOK, driverVars, Room, Polling
<1>7. CASE ClearReady
  BY <1>7 DEF ClearReady, At, DriverShape, RxTypeOK, driverVars, Room, Polling
<1>8. CASE CancelRecv
  BY <1>8 DEF CancelRecv, At, DriverShape, RxTypeOK, driverVars, Room
<1>9. CASE Reactor
  BY <1>9 DEF Reactor, Awake, DriverShape, RxTypeOK, driverVars, Room
<1> QED
  BY <1>1, <1>2, <1>3, <1>4, <1>5, <1>6, <1>7, <1>8, <1>9 DEF Receives, ReaderStep

LEMMA StopTypes ==
  ASSUME PcanInv, WireInv, StopStep
  PROVE  DriverShape' /\ RxTypeOK'
<1> USE DEF WireInv, PcanInv, ChannelShape
<1>1. CASE ClaimStop \/ Unblock \/ JoinThread \/ Release
  BY <1>1 DEF ClaimStop, Unblock, JoinThread, Release, DriverShape, RxTypeOK, driverVars, Room
<1>2. CASE NotifyShutdown
  <2>1. /\ UNCHANGED <<driverVars, source, registered, ready, thread, held, chan, chanClosed>>
        /\ notified' = TRUE /\ stop' = "stopped" /\ reader'.pc \in {reader.pc, "poll"}
    BY <1>2 DEF NotifyShutdown, Woken, At, Awake
  <2> QED
    BY <2>1 DEF DriverShape, RxTypeOK, driverVars, Room
<1> QED
  BY <1>1, <1>2 DEF StopStep

\* The job of an open, and the end of a close.
LEMMA JobTypes ==
  ASSUME PcanInv, WireInv, JobStep
  PROVE  DriverShape' /\ RxTypeOK'
<1> USE DEF WireInv
<1>1. CASE JobOpens \/ JobCleansUp
  <2>1. /\ UNCHANGED <<setup, rxVars>>
        /\ UNCHANGED <<hw, signal, arrived>> \/ (hw' = <<>> /\ signal' = FALSE /\ arrived' = 0)
    BY <1>1 DEF JobOpens, JobCleansUp, Initialize, Uninitialize, driverVars
  <2>2. <<>> \in Seq(Messages) /\ 0 \in 0..MaxMessages
    BY EmptySeq, DriverAssumption
  <2>3. DriverShape'
    BY <2>1, <2>2 DEF DriverShape
  <2>4. RxTypeOK'
    BY <2>1 DEF RxTypeOK, rxVars, Room
  <2> QED
    BY <2>3, <2>4
<1>2. CASE UNCHANGED <<driverVars, rxVars>>
  BY <1>2 DEF driverVars, rxVars, DriverShape, RxTypeOK, Room
<1>3. CASE JobCreatesSource /\ CreateSource(permit)
  <2>1. permit \in Opens
    BY <1>3 DEF JobCreatesSource, JobGoes, PcanInv, ChannelShape
  <2>2. <<>> \in Seq(Messages) /\ Len(<<>>) = 0 /\ Room \in Nat
    BY EmptySeq, DriverAssumption DEF Room, DriverShape
  <2>3. /\ UNCHANGED <<setup, hw, arrived, reader>> /\ source' = permit
        /\ registered' \in BOOLEAN /\ ready' = FALSE /\ notified' = FALSE /\ signal' \in BOOLEAN
        /\ thread' \in {"none", "look", "wait"} /\ held' = <<>> /\ chan' = <<>>
        /\ chanClosed' = FALSE /\ stop' = "no"
    BY <1>3 DEF CreateSource, Rest
  <2>4. DriverShape'
    BY <2>3 DEF DriverShape
  <2>5. reader.pc \in {"idle", "checked", "poll", "parked", "waiting"} \cup Polling
    BY DEF RxTypeOK
  <2>6. /\ held' \in Seq(Messages) /\ Len(held') <= 1 /\ chan' \in Seq(Messages)
        /\ Len(chan') <= Room' /\ (thread' = "push") = (held' # <<>>)
    BY <2>2, <2>3 DEF Room
  <2> QED
    BY <2>1, <2>3, <2>4, <2>5, <2>6 DEF RxTypeOK
<1>4. CASE JobStops
  BY <1>2, <1>4, StopTypes DEF JobStops
<1> QED
  BY <1>1, <1>2, <1>3, <1>4
  DEF JobStep, JobSetsParameters, JobCreatesSource, JobFilters, JobAnswers, JobIsDropped

\* The locks: whoever enters finds them free, and leaves with his own.
LEMMA LockTypes ==
  ASSUME PcanInv, WireInv, PcanNext
  PROVE  LockShape'
<1> USE DEF WireInv, LockShape, Lone
<1>1. ASSUME NEW o \in Opens, Ask(o) \/ Acquire(o) \/ GiveUp(o) \/ BeginClose(o) \/ CloseStep(o)
      PROVE  LockShape'
  BY <1>1 DEF Ask, Acquire, GiveUp, BeginClose, CloseStep, StopSource, EndClose, JobStates, chanVars
<1>2. CASE JobStep
  BY <1>2 DEF JobStep, JobOpens, JobSetsParameters, JobCreatesSource, JobFilters, JobStops,
     JobCleansUp, JobAnswers, JobIsDropped, JobGoes, JobKeeps, ReleasePermit, JobStates
<1>3. ASSUME NEW c \in Callers,
             (\E op \in {"send", "status", "set_filter"} : BeginCall(c, op))
               \/ CallStep(c) \/ CancelCall(c)
      PROVE  LockShape'
  <2>1. UNCHANGED job /\ hwFilter' \in {"open", "range", "shut"}
    BY <1>3 DEF BeginCall, CallStep, LockTx, EnterGate, Write, WriteIsBusy, SleepEnds, Filter,
       FilterRange, Calling, CancelCall
  <2>2. txLock' \in {txLock, {c}, txLock \ {c}} /\ gate' \in {gate, {c}, {}}
    BY <1>3 DEF BeginCall, CallStep, LockTx, EnterGate, Write, WriteIsBusy, SleepEnds, Filter,
       FilterRange, Calling, CancelCall, Returns
  <2>3. Lone(txLock') /\ Lone(gate')
    BY <2>2
  <2> QED
    BY <2>1, <2>3
<1>4. CASE UNCHANGED chanVars
  BY <1>4 DEF chanVars
<1> QED
  BY <1>1, <1>2, <1>3, <1>4 DEF PcanNext

LEMMA WireStep == PcanInv /\ WireInv /\ [PcanNext]_pcanVars => WireInv'
<1> SUFFICES ASSUME PcanInv, WireInv, [PcanNext]_pcanVars PROVE WireInv'
  OBVIOUS
<1>1. CASE UNCHANGED pcanVars
  BY <1>1 DEF pcanVars, driverVars, rxVars, chanVars, WireInv, DriverShape, RxTypeOK, LockShape,
     Room, Lone
<1>2. CASE PcanNext
  <2>1. LockShape'
    BY <1>2, LockTypes
  <2>2. ASSUME UNCHANGED <<setup, hw, signal, arrived, rxVars>> PROVE DriverShape' /\ RxTypeOK'
    BY <2>2 DEF rxVars, WireInv, DriverShape, RxTypeOK, Room
  <2>3. ASSUME NEW o \in Opens, Ask(o) \/ Acquire(o) \/ GiveUp(o) \/ BeginClose(o)
        PROVE  UNCHANGED <<setup, hw, signal, arrived, rxVars>>
    BY <2>3 DEF Ask, Acquire, GiveUp, BeginClose, driverVars
  <2>4. ASSUME NEW o \in Opens, CloseStep(o) PROVE DriverShape' /\ RxTypeOK'
    <3>1. CASE StopSource(o)
      BY <3>1, StopTypes DEF StopSource
    <3>2. CASE EndClose(o)
      <4>1. /\ UNCHANGED <<setup, rxVars>> /\ hw' = <<>> /\ signal' = FALSE /\ arrived' = 0
        BY <3>2 DEF EndClose, Uninitialize
      <4>2. <<>> \in Seq(Messages) /\ 0 \in 0..MaxMessages
        BY EmptySeq, DriverAssumption
      <4>3. DriverShape'
        BY <4>1, <4>2 DEF WireInv, DriverShape
      <4>4. RxTypeOK'
        BY <4>1 DEF rxVars, WireInv, RxTypeOK, Room
      <4> QED
        BY <4>3, <4>4
    <3> QED
      BY <2>4, <3>1, <3>2 DEF CloseStep
  <2>5. ASSUME NEW c \in Callers,
               (\E op \in {"send", "status", "set_filter"} : BeginCall(c, op))
                 \/ CallStep(c) \/ CancelCall(c)
        PROVE  UNCHANGED <<setup, hw, signal, arrived, rxVars>>
    BY <2>5 DEF BeginCall, CallStep, LockTx, EnterGate, Write, WriteIsBusy, SleepEnds, Filter,
       FilterRange, Calling, CancelCall, driverVars
  <2>6. ASSUME NEW kind \in {"event", "odd", "fail"}, BusDelivers(kind)
        PROVE  DriverShape' /\ RxTypeOK'
    <3>1. Arrive(kind, Listens) /\ UNCHANGED rxVars /\ Listens \in BOOLEAN
      BY <2>6 DEF BusDelivers, Listens, WireInv, RxTypeOK
    <3>2. DriverShape'
      BY <3>1, ArriveTypes DEF WireInv
    <3>3. setup' = setup
      BY <3>1 DEF Arrive
    <3> QED
      BY <3>1, <3>2, <3>3 DEF rxVars, WireInv, RxTypeOK, Room
  <2> QED
    BY <1>2, <2>1, <2>2, <2>3, <2>4, <2>5, <2>6, JobTypes, ThreadTypes, ReaderTypes
    DEF PcanNext, WireInv
<1> QED
  BY <1>1, <1>2

LEMMA WireInvTypes == PcanInv /\ WireInv => PcanTypeOK
<1> SUFFICES ASSUME PcanInv, WireInv PROVE PcanTypeOK
  OBVIOUS
<1>1. ASSUME NEW holders, Lone(holders)
      PROVE  holders \subseteq Callers /\ Cardinality(holders) <= 1
  <2>1. Cardinality({}) = 0 /\ \A c \in Callers : Cardinality({c}) = 1
    BY FS_EmptySet, FS_Singleton
  <2> QED
    BY <1>1, <2>1 DEF Lone
<1>2. DriverTypeOK
  BY DEF DriverTypeOK, WireInv, DriverShape, PcanInv, ChannelShape, NoStrayCalls
<1>3. RxTypeOK /\ LockShape
  BY DEF WireInv
<1>4. /\ txLock \subseteq Callers /\ Cardinality(txLock) <= 1
      /\ gate \subseteq Callers /\ Cardinality(gate) <= 1
  BY <1>1, <1>3 DEF LockShape
<1> QED
  BY <1>2, <1>3, <1>4 DEF PcanTypeOK, LockShape, JobStates, PcanInv, ChannelShape

\* The socket's counters: the kernel hands over no more frames than have arrived, and
\* takes no more than there is room for.
SocketCounts ==
  /\ SocketTypeOK
  /\ passed["recv"] + able["recv"] <= SocketFrames

LEMMA SocketCountsStart == SocketInit => SocketCounts
<1> SUFFICES ASSUME SocketInit PROVE SocketCounts
  OBVIOUS
<1>1. able = [recv |-> 0, send |-> SendRoom] /\ SendRoom \in Nat /\ SocketFrames \in Nat
  BY SocketAssumption DEF SocketInit
<1>2. able \in [recv : 0..SocketFrames, send : 0..SendRoom] /\ able["recv"] = 0
  BY <1>1
<1>3. edge = [recv |-> FALSE, send |-> TRUE]
  BY DEF SocketInit
<1>4. edge \in [Directions -> BOOLEAN]
  <2>1. DOMAIN edge = {"recv", "send"} /\ edge["recv"] = FALSE /\ edge["send"] = TRUE
    BY <1>3
  <2>2. edge = [d \in {"recv", "send"} |-> edge[d]]
    BY <1>3
  <2> QED
    BY <2>1, <2>2 DEF Directions
<1>5. passed \in [Directions -> Nat] /\ passed["recv"] = 0
  BY DEF SocketInit, Directions
<1>6. /\ sockReady \in [Directions -> BOOLEAN]
      /\ io \in [SocketTasks -> [pc : {"idle", "look", "call", "wait", "check", "retry", "clear"},
                                 seen : BOOLEAN]]
  BY DEF SocketInit
<1>7. sockClosed = FALSE /\ shutdown = FALSE /\ closeCall = "no"
  BY DEF SocketInit
<1>8. SocketTypeOK
  BY <1>2, <1>4, <1>5, <1>6, <1>7 DEF SocketTypeOK
<1> QED
  BY <1>1, <1>2, <1>5, <1>8 DEF SocketCounts

LEMMA SocketCountsStep == SocketCounts /\ [SocketNext]_socketVars => SocketCounts'
<1> SUFFICES ASSUME SocketCounts, [SocketNext]_socketVars PROVE SocketCounts'
  OBVIOUS
<1> USE SocketAssumption DEF SocketCounts, SocketTypeOK, Directions
<1>1. ASSUME NEW t \in SocketTasks, BeginIo(t) \/ LookAtClosed(t) \/ KernelFails(t) \/ CancelIo(t)
      PROVE  SocketCounts'
  <2>1. UNCHANGED <<sockClosed, shutdown, closeCall, able, passed, edge, sockReady>>
    BY <1>1 DEF BeginIo, LookAtClosed, KernelFails, CancelIo, KernelStays
  <2>2. \E from, to \in {"idle", "look", "call", "wait", "check", "retry"} : Goes(t, from, to)
    BY <1>1 DEF BeginIo, LookAtClosed, KernelFails, CancelIo
  <2> QED
    BY <2>1, <2>2 DEF Goes
<1>2. ASSUME NEW t \in SocketTasks, CallKernel(t) PROVE SocketCounts'
  <2> DEFINE d == Direction[t]
  <2>1. d \in {"recv", "send"} /\ able[d] \in Nat /\ passed[d] \in Nat
    OBVIOUS
  <2>2. /\ UNCHANGED <<sockClosed, shutdown, closeCall, edge, sockReady>>
        /\ \E to \in {"idle", "wait", "clear"}, seen \in BOOLEAN :
             io' = [io EXCEPT ![t] = [pc |-> to, seen |-> seen]]
    BY <1>2 DEF CallKernel, Goes
  <2>3. \/ UNCHANGED <<able, passed>>
        \/ /\ able[d] > 0 /\ able' = [able EXCEPT ![d] = able[d] - 1]
           /\ passed' = [passed EXCEPT ![d] = passed[d] + 1]
    BY <1>2 DEF CallKernel
  <2> HIDE DEF d
  <2>4. /\ able' \in [recv : 0..SocketFrames, send : 0..SendRoom]
        /\ passed' \in [Directions -> Nat]
        /\ passed'["recv"] + able'["recv"] <= SocketFrames
    BY <2>1, <2>3
  <2>5. io' \in [SocketTasks -> [pc : {"idle", "look", "call", "wait", "check", "retry", "clear"},
                                 seen : BOOLEAN]]
    BY <2>2
  <2> QED
    BY <2>2, <2>4, <2>5
<1>3. ASSUME NEW t \in SocketTasks, EndWait(t) \/ ClearIo(t) PROVE SocketCounts'
  <2>1. UNCHANGED <<sockClosed, shutdown, closeCall, able, passed, edge>>
    BY <1>3 DEF EndWait, ClearIo, KernelStays
  <2>2. \E pc \in {"idle", "check", "look"}, seen \in BOOLEAN :
          io' = [io EXCEPT ![t] = [pc |-> pc, seen |-> seen]]
    BY <1>3 DEF EndWait, ClearIo, Goes
  <2>3. sockReady' \in [Directions -> BOOLEAN]
    <3>1. CASE EndWait(t)
      BY <3>1 DEF EndWait, KernelStays
    <3>2. CASE ClearIo(t)
      <4>1. Direction[t] \in Directions /\ io[t].seen \in BOOLEAN
        OBVIOUS
      <4>2. sockReady' = [sockReady EXCEPT ![Direction[t]] = @ /\ ~io[t].seen]
        BY <3>2 DEF ClearIo, Cleared
      <4> QED
        BY <4>1, <4>2
    <3> QED
      BY <1>3, <3>1, <3>2
  <2> QED
    BY <2>1, <2>2, <2>3
<1>4. ASSUME NEW d \in Directions, KernelMoves(d) PROVE SocketCounts'
  <2>1. /\ d \in {"recv", "send"} /\ able' = [able EXCEPT ![d] = able[d] + 1]
        /\ IF d = "recv" THEN passed[d] + able[d] < SocketFrames ELSE able[d] < SendRoom
        /\ edge' = [edge EXCEPT ![d] = TRUE]
        /\ UNCHANGED <<sockClosed, shutdown, closeCall, passed, sockReady, io>>
    BY <1>4 DEF KernelMoves
  <2>2. /\ able' \in [recv : 0..SocketFrames, send : 0..SendRoom]
        /\ passed'["recv"] + able'["recv"] <= SocketFrames
    BY <2>1
  <2> QED
    BY <2>1, <2>2
<1>5. ASSUME NEW d \in Directions, SocketReactor(d) PROVE SocketCounts'
  BY <1>5 DEF SocketReactor
<1>6. CASE CloseSocket \/ SignalShutdown \/ UNCHANGED socketVars
  BY <1>6 DEF CloseSocket, SignalShutdown, socketVars
<1> QED
  BY <1>1, <1>2, <1>3, <1>4, <1>5, <1>6 DEF SocketNext, IoStep

\* Every variable of both back ends keeps its range, the thread's channel its capacity, each
\* lock one holder, and a receiving thread hands over what it holds or ends with nothing
\* (rx/mod.rs, channel.rs 195-317, socket.rs 679-806).
THEOREM AnyTypesAlways == AnySpec => []AnyTypeOK
<1>1. AnyInit => WireInv /\ SocketCounts
  BY WireStarts, SocketCountsStart DEF AnyInit
<1>2. PcanInv /\ WireInv /\ SocketCounts /\ [AnyNext]_anyVars => WireInv' /\ SocketCounts'
  <2>1. [AnyNext]_anyVars => [PcanNext]_pcanVars /\ [SocketNext]_socketVars
    BY DEF AnyNext, Basic, Socket, anyVars
  <2> QED
    BY <2>1, WireStep, SocketCountsStep
<1>3. PcanInv /\ WireInv /\ SocketCounts => AnyTypeOK
  BY WireInvTypes DEF SocketCounts, AnyTypeOK
<1> QED
  BY <1>1, <1>2, <1>3, PcanInvariance, PTL DEF AnySpec
-----------------------------------------------------------------------------
(* Every message is kept: lemmas about sequences of numbers.                *)

\* A sequence that rises strictly and never above a bound.
Rises(s, bound) ==
  /\ \A i \in 1..Len(s) : s[i] <= bound
  /\ \A i, j \in 1..Len(s) : i < j => s[i] < s[j]

\* The next number above the bound goes on at the end.
LEMMA RiseOn ==
  ASSUME NEW s \in Seq(Nat), NEW n \in Nat, Rises(s, n)
  PROVE  /\ Append(s, n + 1) \in Seq(Nat) /\ Len(Append(s, n + 1)) = Len(s) + 1
         /\ Rises(Append(s, n + 1), n + 1)
<1> DEFINE t == Append(s, n + 1)
<1>1. Len(s) \in Nat /\ \A i \in 1..Len(s) : s[i] \in Nat
  BY LenProperties, ElementOfSeq
<1>2. /\ t \in Seq(Nat) /\ Len(t) = Len(s) + 1 /\ t[Len(s) + 1] = n + 1
      /\ \A i \in 1..Len(s) : t[i] = s[i]
  BY AppendProperties
<1> HIDE DEF t
<1>3. ASSUME NEW i \in 1..Len(t) PROVE t[i] <= n + 1
  <2>1. CASE i = Len(s) + 1
    BY <1>2, <2>1
  <2>2. CASE i # Len(s) + 1
    <3>1. i \in 1..Len(s)
      BY <1>1, <1>2, <2>2
    <3>2. t[i] = s[i] /\ s[i] <= n /\ s[i] \in Nat
      BY <1>1, <1>2, <3>1 DEF Rises
    <3> QED
      BY <3>2
  <2> QED
    BY <2>1, <2>2
<1>4. ASSUME NEW i \in 1..Len(t), NEW j \in 1..Len(t), i < j PROVE t[i] < t[j]
  <2>1. i \in 1..Len(s) /\ t[i] = s[i] /\ s[i] <= n /\ s[i] \in Nat
    BY <1>1, <1>2, <1>4 DEF Rises
  <2>2. CASE j = Len(s) + 1
    BY <1>2, <2>1, <2>2
  <2>3. CASE j # Len(s) + 1
    <3>1. j \in 1..Len(s)
      BY <1>1, <1>2, <2>3
    <3> QED
      BY <1>2, <1>4, <2>1, <3>1 DEF Rises
  <2> QED
    BY <2>2, <2>3
<1> QED
  BY <1>2, <1>3, <1>4 DEF Rises, t

\* A number taken out of the middle leaves the rest rising, one shorter.
LEMMA RiseWithout ==
  ASSUME NEW a \in Seq(Nat), NEW b \in Seq(Nat), NEW x \in Nat, NEW n \in Nat,
         Rises(a \o (<<x>> \o b), n)
  PROVE  /\ a \o b \in Seq(Nat) /\ Len(a \o (<<x>> \o b)) = Len(a \o b) + 1
         /\ Rises(a \o b, n)
<1> DEFINE c == <<x>> \o b
           s == a \o c
           t == a \o b
           At2(i) == IF i <= Len(a) THEN i ELSE i + 1
<1>1. /\ Len(a) \in Nat /\ Len(b) \in Nat
      /\ (\A i \in 1..Len(a) : a[i] \in Nat) /\ (\A i \in 1..Len(b) : b[i] \in Nat)
  BY LenProperties, ElementOfSeq
<1>2. <<x>> \in Seq(Nat) /\ Len(<<x>>) = 1
  OBVIOUS
<1>3. /\ c \in Seq(Nat) /\ Len(c) = 1 + Len(b)
      /\ \A i \in 1..(1 + Len(b)) : c[i] = IF i <= 1 THEN <<x>>[i] ELSE b[i - 1]
  BY <1>2, ConcatProperties
<1> HIDE DEF c
<1>4. /\ s \in Seq(Nat) /\ Len(s) = Len(a) + Len(c)
      /\ \A i \in 1..(Len(a) + Len(c)) : s[i] = IF i <= Len(a) THEN a[i] ELSE c[i - Len(a)]
  BY <1>3, ConcatProperties
<1>5. /\ t \in Seq(Nat) /\ Len(t) = Len(a) + Len(b)
      /\ \A i \in 1..(Len(a) + Len(b)) : t[i] = IF i <= Len(a) THEN a[i] ELSE b[i - Len(a)]
  BY ConcatProperties
<1> HIDE DEF s, t
<1>6. /\ Len(s) = Len(t) + 1 /\ Len(t) \in Nat /\ Len(a) \in Nat /\ Len(b) \in Nat
      /\ Len(c) = 1 + Len(b) /\ Len(t) = Len(a) + Len(b)
  BY <1>1, <1>3, <1>4, <1>5
<1>7. ASSUME NEW i \in 1..Len(t) PROVE At2(i) \in 1..Len(s) /\ t[i] = s[At2(i)]
  <2>1. At2(i) \in 1..Len(s)
    BY <1>6
  <2>2. CASE i <= Len(a)
    <3>1. At2(i) = i /\ i \in 1..(Len(a) + Len(c)) /\ i \in 1..(Len(a) + Len(b))
      BY <1>6, <2>2
    <3> QED
      BY <1>4, <1>5, <2>1, <2>2, <3>1
  <2>3. CASE ~(i <= Len(a))
    <3>1. /\ At2(i) = i + 1 /\ i + 1 \in 1..(Len(a) + Len(c)) /\ i \in 1..(Len(a) + Len(b))
          /\ ~(i + 1 <= Len(a))
      BY <1>6, <2>3
    <3>2. t[i] = b[i - Len(a)]
      BY <1>5, <2>3, <3>1
    <3>5. s[i + 1] = c[i + 1 - Len(a)]
      BY <1>4, <3>1
    <3>3. LET k == i + 1 - Len(a) IN k \in 1..(1 + Len(b)) /\ ~(k <= 1) /\ k - 1 = i - Len(a)
      BY <1>6, <2>3
    <3>4. c[i + 1 - Len(a)] = b[i - Len(a)]
      BY <1>3, <3>3
    <3> QED
      BY <2>1, <3>1, <3>2, <3>4, <3>5
  <2> QED
    BY <2>2, <2>3
<1>8. Rises(s, n)
  BY DEF s, c
<1>9. \A i \in 1..Len(t) : t[i] <= n
  BY <1>7, <1>8 DEF Rises
<1>10. ASSUME NEW i \in 1..Len(t), NEW j \in 1..Len(t), i < j PROVE t[i] < t[j]
  <2>1. At2(i) < At2(j)
    BY <1>6, <1>10
  <2>2. At2(i) \in 1..Len(s) /\ At2(j) \in 1..Len(s) /\ t[i] = s[At2(i)] /\ t[j] = s[At2(j)]
    BY <1>7
  <2> HIDE DEF At2
  <2> QED
    BY <1>8, <2>1, <2>2 DEF Rises
<1>11. Rises(t, n)
  BY <1>9, <1>10 DEF Rises
<1> QED
  BY <1>5, <1>6, <1>11 DEF s, t, c

\* Sequences of numbers join in any order, and a number is a sequence of one.
LEMMA JoinNumbers ==
  /\ \A s, t, u \in Seq(Nat) : (s \o t) \o u = s \o (t \o u)
  /\ \A n \in Nat : <<n>> \in Seq(Nat)
  /\ \A s \in Seq(Nat), n \in Nat : Append(s, n) = s \o <<n>> /\ Append(s, n) \in Seq(Nat)
<1>1. ASSUME NEW s \in Seq(Nat), NEW t \in Seq(Nat), NEW u \in Seq(Nat)
      PROVE  (s \o t) \o u = s \o (t \o u)
  BY ConcatAssociative
<1>2. ASSUME NEW n \in Nat PROVE <<n>> \in Seq(Nat)
  OBVIOUS
<1>3. ASSUME NEW s \in Seq(Nat), NEW n \in Nat
      PROVE  Append(s, n) = s \o <<n>> /\ Append(s, n) \in Seq(Nat)
  BY AppendIsConcat, AppendProperties
<1> QED
  BY <1>1, <1>2, <1>3

\* The numbers of a queue of messages.
LEMMA NumbersOf ==
  ASSUME NEW q \in Seq(Messages)
  PROVE  /\ Numbers(q) \in Seq(Nat) /\ Len(Numbers(q)) = Len(q)
         /\ \A i \in 1..Len(q) : q[i].number \in Nat /\ Numbers(q)[i] = q[i].number
<1>1. Len(q) \in Nat /\ DOMAIN q = 1..Len(q) /\ \A i \in 1..Len(q) : q[i] \in Messages
  BY LenProperties, ElementOfSeq
<1>2. \A m \in Messages : m.number \in Nat
  BY DriverAssumption DEF Messages
<1>3. Numbers(q) = [i \in 1..Len(q) |-> q[i].number]
  BY <1>1 DEF Numbers
<1>4. \A i \in 1..Len(q) : q[i].number \in Nat
  BY <1>1, <1>2
<1> HIDE DEF Numbers
<1> QED
  BY <1>1, <1>3, <1>4

LEMMA NumbersFew ==
  /\ Numbers(<<>>) = <<>>
  /\ \A m \in Messages : Numbers(<<m>>) = <<m.number>> /\ m.number \in Nat
<1>1. Numbers(<<>>) = <<>>
  <2>1. <<>> \in Seq(Messages) /\ Len(<<>>) = 0
    BY EmptySeq
  <2>2. Numbers(<<>>) \in Seq(Nat) /\ Len(Numbers(<<>>)) = 0
    BY <2>1, NumbersOf
  <2> QED
    BY <2>2, EmptySeq
<1>2. ASSUME NEW m \in Messages PROVE Numbers(<<m>>) = <<m.number>> /\ m.number \in Nat
  <2>1. <<m>> \in Seq(Messages) /\ Len(<<m>>) = 1 /\ <<m>>[1] = m
    OBVIOUS
  <2>2. /\ Numbers(<<m>>) \in Seq(Nat) /\ Len(Numbers(<<m>>)) = 1
        /\ \A i \in 1..1 : Numbers(<<m>>)[i] = <<m>>[i].number /\ <<m>>[i].number \in Nat
    BY <2>1, NumbersOf
  <2>5. Numbers(<<m>>)[1] = m.number /\ m.number \in Nat
    BY <2>1, <2>2
  <2>3. <<m.number>> \in Seq(Nat) /\ Len(<<m.number>>) = 1 /\ <<m.number>>[1] = m.number
    BY <2>5
  <2>4. \A i \in 1..1 : Numbers(<<m>>)[i] = <<m.number>>[i]
    BY <2>3, <2>5
  <2>6. Numbers(<<m>>) = <<m.number>>
    BY <2>2, <2>3, <2>4, SeqEqual
  <2> QED
    BY <2>5, <2>6
<1> QED
  BY <1>1, <1>2

LEMMA NumbersAppend ==
  ASSUME NEW q \in Seq(Messages), NEW m \in Messages
  PROVE  Numbers(Append(q, m)) = Numbers(q) \o <<m.number>>
<1> DEFINE r == Append(q, m)
           s == Numbers(q)
           t == Numbers(r)
<1>1. /\ r \in Seq(Messages) /\ Len(r) = Len(q) + 1 /\ r[Len(q) + 1] = m
      /\ \A i \in 1..Len(q) : r[i] = q[i]
  BY AppendProperties
<1>2. Len(q) \in Nat
  BY LenProperties
<1>3. /\ s \in Seq(Nat) /\ Len(s) = Len(q) /\ \A i \in 1..Len(q) : s[i] = q[i].number
  BY NumbersOf
<1> HIDE DEF r
<1>4. /\ t \in Seq(Nat) /\ Len(t) = Len(r) /\ \A i \in 1..Len(r) : t[i] = r[i].number
  BY <1>1, NumbersOf
<1> HIDE DEF s, t
<1>5. m.number \in Nat
  BY NumbersFew
<1>6. /\ Append(s, m.number) \in Seq(Nat) /\ Len(Append(s, m.number)) = Len(s) + 1
      /\ Append(s, m.number)[Len(s) + 1] = m.number
      /\ \A i \in 1..Len(s) : Append(s, m.number)[i] = s[i]
  BY <1>3, <1>5, AppendProperties
<1>7. ASSUME NEW i \in 1..Len(t) PROVE t[i] = Append(s, m.number)[i]
  <2>1. CASE i \in 1..Len(q)
    <3>1. t[i] = r[i].number /\ r[i] = q[i]
      BY <1>1, <1>4, <2>1
    <3>2. Append(s, m.number)[i] = s[i] /\ s[i] = q[i].number
      BY <1>3, <1>6, <2>1
    <3> QED
      BY <3>1, <3>2
  <2>2. CASE i = Len(q) + 1
    BY <1>1, <1>3, <1>4, <1>6, <2>2
  <2>3. i \in 1..Len(q) \/ i = Len(q) + 1
    BY <1>1, <1>2, <1>4
  <2> QED
    BY <2>1, <2>2, <2>3
<1>8. t = Append(s, m.number)
  BY <1>1, <1>3, <1>4, <1>6, <1>7, SeqEqual
<1>9. Append(s, m.number) = s \o <<m.number>>
  BY <1>3, <1>5, AppendIsConcat
<1> QED
  BY <1>8, <1>9 DEF r, s, t

LEMMA NumbersHead ==
  ASSUME NEW q \in Seq(Messages), q # <<>>
  PROVE  /\ Head(q) \in Messages /\ Tail(q) \in Seq(Messages) /\ Head(q).number \in Nat
         /\ Numbers(q) = <<Head(q).number>> \o Numbers(Tail(q))
<1> DEFINE x == Head(q).number
           r == Tail(q)
           u == Numbers(r)
           s == Numbers(q)
           t == <<x>> \o u
<1>1. /\ Head(q) \in Messages /\ r \in Seq(Messages) /\ Len(r) = Len(q) - 1
      /\ \A i \in 1..Len(r) : r[i] = q[i + 1]
  BY HeadTailProperties
<1>2. Len(q) \in Nat /\ Len(q) # 0 /\ Len(r) \in Nat /\ Head(q) = q[1]
  BY <1>1, EmptySeq, LenProperties
<1>3. x \in Nat
  BY <1>1, NumbersFew
<1>4. s \in Seq(Nat) /\ Len(s) = Len(q) /\ \A i \in 1..Len(q) : s[i] = q[i].number
  BY NumbersOf
<1>5. u \in Seq(Nat) /\ Len(u) = Len(r) /\ \A i \in 1..Len(r) : u[i] = r[i].number
  BY <1>1, NumbersOf
<1>6. <<x>> \in Seq(Nat) /\ Len(<<x>>) = 1 /\ <<x>>[1] = x
  BY <1>3
<1> HIDE DEF r, u, s
<1>7. /\ t \in Seq(Nat) /\ Len(t) = 1 + Len(u)
      /\ \A i \in 1..(1 + Len(u)) : t[i] = IF i <= 1 THEN <<x>>[i] ELSE u[i - 1]
  BY <1>5, <1>6, ConcatProperties
<1> HIDE DEF t
<1>8. ASSUME NEW i \in 1..Len(s) PROVE s[i] = t[i]
  <2>1. CASE i = 1
    <3>1. t[1] = x
      BY <1>2, <1>5, <1>6, <1>7
    <3>2. s[1] = q[1].number
      BY <1>2, <1>4
    <3> QED
      BY <1>2, <2>1, <3>1, <3>2
  <2>2. CASE i # 1
    <3>1. i - 1 \in 1..Len(r) /\ i \in 1..(1 + Len(u)) /\ ~(i <= 1) /\ i - 1 + 1 = i /\ i \in 1..Len(q)
      BY <1>1, <1>2, <1>4, <1>5, <2>2
    <3>2. t[i] = u[i - 1] /\ u[i - 1] = r[i - 1].number /\ r[i - 1] = q[i]
      BY <1>1, <1>5, <1>7, <3>1
    <3> QED
      BY <1>4, <3>1, <3>2
  <2> QED
    BY <2>1, <2>2
<1>9. s = t
  <2>1. Len(s) = Len(t)
    BY <1>1, <1>2, <1>4, <1>5, <1>7
  <2> QED
    BY <1>4, <1>7, <1>8, <2>1, SeqEqual
<1> QED
  BY <1>1, <1>3, <1>9 DEF r, u, s, t

-----------------------------------------------------------------------------
(* The way of the messages: delivered, in the channel, in hand, in the driver. *)

Pipe(d, c, h, w) == d \o Numbers(c) \o Numbers(h) \o Numbers(w)

LEMMA PipeTyped ==
  ASSUME NEW d \in Seq(Nat), NEW c \in Seq(Messages), NEW h \in Seq(Messages),
         NEW w \in Seq(Messages)
  PROVE  Pipe(d, c, h, w) \in Seq(Nat)
<1>1. Numbers(c) \in Seq(Nat) /\ Numbers(h) \in Seq(Nat) /\ Numbers(w) \in Seq(Nat)
  BY NumbersOf
<1>2. d \o Numbers(c) \in Seq(Nat)
  BY <1>1, ConcatProperties
<1>3. d \o Numbers(c) \o Numbers(h) \in Seq(Nat)
  BY <1>1, <1>2, ConcatProperties
<1> QED
  BY <1>1, <1>3, ConcatProperties DEF Pipe

LEMMA JoinOne ==
  ASSUME NEW s \in Seq(Nat), NEW t \in Seq(Nat), NEW n \in Nat
  PROVE  Append(s \o t, n) = s \o (t \o <<n>>)
<1>1. s \o t \in Seq(Nat) /\ <<n>> \in Seq(Nat)
  BY ConcatProperties
<1>2. Append(s \o t, n) = (s \o t) \o <<n>>
  BY <1>1, JoinNumbers
<1>3. (s \o t) \o <<n>> = s \o (t \o <<n>>)
  BY <1>1, JoinNumbers
<1> QED
  BY <1>2, <1>3

\* A message arrives at the end.
LEMMA PipeArrives ==
  ASSUME NEW d \in Seq(Nat), NEW c \in Seq(Messages), NEW h \in Seq(Messages),
         NEW w \in Seq(Messages), NEW m \in Messages
  PROVE  Pipe(d, c, h, Append(w, m)) = Append(Pipe(d, c, h, w), m.number)
<1> DEFINE x == d \o Numbers(c) \o Numbers(h)
<1>1. Numbers(c) \in Seq(Nat) /\ Numbers(h) \in Seq(Nat) /\ Numbers(w) \in Seq(Nat)
  BY NumbersOf
<1>2. d \o Numbers(c) \in Seq(Nat)
  BY <1>1, ConcatProperties
<1>3. x \in Seq(Nat)
  BY <1>1, <1>2, ConcatProperties
<1>4. m.number \in Nat /\ Numbers(Append(w, m)) = Numbers(w) \o <<m.number>>
  BY NumbersFew, NumbersAppend
<1>5. /\ Pipe(d, c, h, Append(w, m)) = x \o (Numbers(w) \o <<m.number>>)
      /\ Pipe(d, c, h, w) = x \o Numbers(w)
  BY <1>4 DEF Pipe
<1> HIDE DEF x
<1>6. Append(x \o Numbers(w), m.number) = x \o (Numbers(w) \o <<m.number>>)
  BY <1>1, <1>3, <1>4, JoinOne
<1> QED
  BY <1>5, <1>6

\* A message moves from one place to the next: out of the driver into the hand, ...
LEMMA PipeReads ==
  ASSUME NEW d \in Seq(Nat), NEW c \in Seq(Messages), NEW w \in Seq(Messages), w # <<>>
  PROVE  Pipe(d, c, <<>>, w) = Pipe(d, c, <<Head(w)>>, Tail(w))
<1> DEFINE x == d \o Numbers(c)
           n == Head(w).number
           T == Numbers(Tail(w))
<1>1. Numbers(c) \in Seq(Nat)
  BY NumbersOf
<1>2. x \in Seq(Nat)
  BY <1>1, ConcatProperties
<1>3. /\ Numbers(w) = <<n>> \o T /\ T \in Seq(Nat) /\ n \in Nat /\ Numbers(<<>>) = <<>>
      /\ Numbers(<<Head(w)>>) = <<n>>
  BY NumbersHead, NumbersOf, NumbersFew
<1>4. Pipe(d, c, <<>>, w) = (x \o <<>>) \o (<<n>> \o T)
  BY <1>3 DEF Pipe
<1>5. Pipe(d, c, <<Head(w)>>, Tail(w)) = (x \o <<n>>) \o T
  BY <1>3 DEF Pipe
<1> HIDE DEF x, T, n
<1>6. <<n>> \in Seq(Nat)
  BY <1>3
<1>7. x \o <<>> = x /\ (x \o <<n>>) \o T = x \o (<<n>> \o T)
  BY <1>2, <1>3, <1>6, ConcatEmptySeq, ConcatAssociative
<1> QED
  BY <1>4, <1>5, <1>7

\* ... from the hand into the channel, ...
LEMMA PipePushes ==
  ASSUME NEW d \in Seq(Nat), NEW c \in Seq(Messages), NEW w \in Seq(Messages), NEW m \in Messages
  PROVE  Pipe(d, c, <<m>>, w) = Pipe(d, Append(c, m), <<>>, w)
<1> DEFINE C == Numbers(c)
           W == Numbers(w)
<1>1. C \in Seq(Nat) /\ W \in Seq(Nat) /\ m.number \in Nat /\ Numbers(<<>>) = <<>>
  BY NumbersOf, NumbersFew
<1>2. Numbers(<<m>>) = <<m.number>> /\ <<m.number>> \in Seq(Nat)
  BY NumbersFew, JoinNumbers
<1>3. Numbers(Append(c, m)) = C \o <<m.number>>
  BY NumbersAppend
<1>4. /\ Pipe(d, c, <<m>>, w) = ((d \o C) \o <<m.number>>) \o W
      /\ Pipe(d, Append(c, m), <<>>, w) = ((d \o (C \o <<m.number>>)) \o <<>>) \o W
  BY <1>1, <1>2, <1>3 DEF Pipe
<1> HIDE DEF C, W
<1>5. (d \o C) \o <<m.number>> = d \o (C \o <<m.number>>)
  BY <1>1, <1>2, JoinNumbers
<1>6. C \o <<m.number>> \in Seq(Nat)
  BY <1>1, <1>2, ConcatProperties
<1>7. d \o (C \o <<m.number>>) \in Seq(Nat)
  BY <1>6, ConcatProperties
<1>8. (d \o (C \o <<m.number>>)) \o <<>> = d \o (C \o <<m.number>>)
  BY <1>7, ConcatEmptySeq
<1> QED
  BY <1>4, <1>5, <1>8

\* ... out of the channel to the receiver, ...
LEMMA PipeTakes ==
  ASSUME NEW d \in Seq(Nat), NEW c \in Seq(Messages), NEW h, NEW w, c # <<>>
  PROVE  Pipe(d, c, h, w) = Pipe(Append(d, Head(c).number), Tail(c), h, w)
<1> DEFINE n == Head(c).number
           T == Numbers(Tail(c))
<1>1. Numbers(c) = <<n>> \o T /\ T \in Seq(Nat) /\ n \in Nat
  BY NumbersHead, NumbersOf
<1>2. /\ Pipe(d, c, h, w) = (d \o (<<n>> \o T)) \o Numbers(h) \o Numbers(w)
      /\ Pipe(Append(d, n), Tail(c), h, w) = (Append(d, n) \o T) \o Numbers(h) \o Numbers(w)
  BY <1>1 DEF Pipe
<1> HIDE DEF n, T
<1>3. Append(d, n) = d \o <<n>> /\ <<n>> \in Seq(Nat)
  BY <1>1, JoinNumbers
<1>4. d \o (<<n>> \o T) = (d \o <<n>>) \o T
  BY <1>1, <1>3, JoinNumbers
<1>5. Pipe(d, c, h, w) = Pipe(Append(d, n), Tail(c), h, w)
  BY <1>2, <1>3, <1>4
<1> QED
  BY <1>5 DEF n

\* ... or straight out of the driver to the receiver, where there is no thread.
LEMMA PipePolls ==
  ASSUME NEW d \in Seq(Nat), NEW w \in Seq(Messages), w # <<>>
  PROVE  Pipe(d, <<>>, <<>>, w) = Pipe(Append(d, Head(w).number), <<>>, <<>>, Tail(w))
<1> DEFINE n == Head(w).number
           T == Numbers(Tail(w))
<1>1. Numbers(w) = <<n>> \o T /\ T \in Seq(Nat) /\ n \in Nat /\ Numbers(<<>>) = <<>>
  BY NumbersHead, NumbersOf, NumbersFew
<1>3. /\ Pipe(d, <<>>, <<>>, w) = ((d \o <<>>) \o <<>>) \o (<<n>> \o T)
      /\ Pipe(Append(d, n), <<>>, <<>>, Tail(w)) = ((Append(d, n) \o <<>>) \o <<>>) \o T
  BY <1>1 DEF Pipe
<1> HIDE DEF n, T
<1>2. Append(d, n) = d \o <<n>> /\ <<n>> \in Seq(Nat) /\ Append(d, n) \in Seq(Nat)
  BY <1>1, JoinNumbers
<1>4. d \o <<>> = d /\ Append(d, n) \o <<>> = Append(d, n)
  BY <1>2, ConcatEmptySeq
<1>5. d \o (<<n>> \o T) = (d \o <<n>>) \o T
  BY <1>1, <1>2, JoinNumbers
<1>6. Pipe(d, <<>>, <<>>, w) = Pipe(Append(d, n), <<>>, <<>>, Tail(w))
  BY <1>2, <1>3, <1>4, <1>5
<1> QED
  BY <1>6 DEF n

\* A message that is dropped from the hand leaves the others as they are.
LEMMA PipeDrops ==
  ASSUME NEW d \in Seq(Nat), NEW c \in Seq(Messages), NEW w \in Seq(Messages), NEW m \in Messages,
         NEW n \in Nat, Rises(Pipe(d, c, <<m>>, w), n)
  PROVE  /\ Rises(Pipe(d, c, <<>>, w), n)
         /\ Len(Pipe(d, c, <<m>>, w)) = Len(Pipe(d, c, <<>>, w)) + 1
<1> DEFINE x == d \o Numbers(c)
           k == m.number
           W == Numbers(w)
<1>1. Numbers(c) \in Seq(Nat) /\ W \in Seq(Nat) /\ Numbers(<<>>) = <<>>
  BY NumbersOf, NumbersFew
<1>2. x \in Seq(Nat)
  BY <1>1, ConcatProperties
<1>3. Numbers(<<m>>) = <<k>> /\ <<k>> \in Seq(Nat) /\ k \in Nat
  BY NumbersFew
<1>4. Pipe(d, c, <<m>>, w) = (x \o <<k>>) \o W /\ Pipe(d, c, <<>>, w) = (x \o <<>>) \o W
  BY <1>1, <1>3 DEF Pipe
<1> HIDE DEF x, k, W
<1>5. (x \o <<k>>) \o W = x \o (<<k>> \o W) /\ x \o <<>> = x
  BY <1>1, <1>2, <1>3, ConcatAssociative, ConcatEmptySeq
<1>6. Rises(x \o (<<k>> \o W), n)
  BY <1>4, <1>5
<1>7. Rises(x \o W, n) /\ Len(x \o (<<k>> \o W)) = Len(x \o W) + 1
  BY <1>1, <1>2, <1>3, <1>6, RiseWithout
<1> QED
  BY <1>4, <1>5, <1>7

\* Nor does one that read_one makes nothing of.
LEMMA PipeSwallows ==
  ASSUME NEW d \in Seq(Nat), NEW c \in Seq(Messages), NEW h \in Seq(Messages),
         NEW w \in Seq(Messages), w # <<>>, NEW n \in Nat, Rises(Pipe(d, c, h, w), n)
  PROVE  Rises(Pipe(d, c, h, Tail(w)), n)
<1> DEFINE x == d \o Numbers(c) \o Numbers(h)
           k == Head(w).number
           T == Numbers(Tail(w))
<1>1. Numbers(c) \in Seq(Nat) /\ Numbers(h) \in Seq(Nat)
  BY NumbersOf
<1>2. d \o Numbers(c) \in Seq(Nat)
  BY <1>1, ConcatProperties
<1>3. x \in Seq(Nat)
  BY <1>1, <1>2, ConcatProperties
<1>4. Numbers(w) = <<k>> \o T /\ T \in Seq(Nat) /\ k \in Nat
  BY NumbersHead, NumbersOf
<1>5. Pipe(d, c, h, w) = x \o (<<k>> \o T) /\ Pipe(d, c, h, Tail(w)) = x \o T
  BY <1>4 DEF Pipe
<1> HIDE DEF x, k, T
<1>6. Rises(x \o T, n)
  BY <1>3, <1>4, <1>5, RiseWithout
<1> QED
  BY <1>5, <1>6

-----------------------------------------------------------------------------
(* Every message is kept.                                                   *)

\* While the source of the open that has the driver runs.
Keeping == source = handle /\ handle # 0 /\ stop = "no" /\ thread # "gone"

\* What is kept of so many messages, with what was dropped, under a configuration.
Kept(s, lost, total, config) ==
  /\ Rises(s, total)
  /\ "odd" \notin config.kinds => Len(s) + lost = total
  /\ config.policy = "Backpressure" => lost = 0

\* The source is that of an open which is past the creation of it.
SourceAge ==
  source # 0 => /\ asker[source] \notin {"none", "queued"}
                /\ permit = source => job \notin {"open", "params", "rx"}

\* Before there is a source, nobody has read from the driver's queue.
KeptInv ==
  /\ delivered \in Seq(Nat) /\ dropped \in Nat
  /\ \A i \in 1..Len(hw) : hw[i].kind \in setup.kinds
  /\ ~Threaded => chan = <<>> /\ held = <<>>
  /\ SourceAge
  /\ job \in {"params", "rx"} => Kept(Pipe(<<>>, <<>>, <<>>, hw), 0, arrived, setup)
  /\ Keeping => Kept(Pipe(delivered, chan, held, hw), dropped, arrived, setup)

LEMMA KeptNothing ==
  \A config : /\ Pipe(<<>>, <<>>, <<>>, <<>>) = <<>>
              /\ Kept(Pipe(<<>>, <<>>, <<>>, <<>>), 0, 0, config)
<1>1. <<>> \in Seq(Nat) /\ Len(<<>>) = 0 /\ Numbers(<<>>) = <<>>
  BY EmptySeq, NumbersFew
<1>2. <<>> \o <<>> = <<>>
  BY <1>1, ConcatEmptySeq
<1> QED
  BY <1>1, <1>2 DEF Pipe, Kept, Rises

LEMMA KeptStarts == PcanInit => KeptInv
<1> SUFFICES ASSUME PcanInit PROVE KeptInv
  OBVIOUS
<1> USE DEF PcanInit, DriverInit, RxInit
<1>1. <<>> \in Seq(Nat) /\ Len(<<>>) = 0
  BY EmptySeq
<1> QED
  BY <1>1 DEF KeptInv, SourceAge, Keeping

\* The next message of the bus, at the end.
LEMMA KeptOn ==
  ASSUME NEW d \in Seq(Nat), NEW c \in Seq(Messages), NEW h \in Seq(Messages),
         NEW w \in Seq(Messages), NEW lost \in Nat, NEW total \in Nat, NEW config,
         Kept(Pipe(d, c, h, w), lost, total, config),
         NEW m \in Messages, m.number = total + 1
  PROVE  Kept(Pipe(d, c, h, Append(w, m)), lost, total + 1, config)
<1> DEFINE s == Pipe(d, c, h, w)
<1>1. s \in Seq(Nat) /\ Len(s) \in Nat
  BY PipeTyped, LenProperties
<1>2. Pipe(d, c, h, Append(w, m)) = Append(s, m.number)
  BY PipeArrives
<1>3. Rises(s, total) /\ ("odd" \notin config.kinds => Len(s) + lost = total)
      /\ (config.policy = "Backpressure" => lost = 0)
  BY DEF Kept
<1> HIDE DEF s
<1>4. Len(Append(s, total + 1)) = Len(s) + 1 /\ Rises(Append(s, total + 1), total + 1)
  BY <1>1, <1>3, RiseOn
<1> QED
  BY <1>1, <1>2, <1>3, <1>4 DEF Kept

\* The age of the source.
LEMMA AgeStep ==
  ASSUME PcanInv, WireInv, SourceAge, PcanNext
  PROVE  SourceAge'
<1> USE DEF SourceAge, PcanInv, ChannelShape
<1>1. source \in Opens \cup {0}
  BY DEF WireInv, RxTypeOK
<1>2. ASSUME NEW o \in Opens, Ask(o) \/ Acquire(o) \/ GiveUp(o) PROVE SourceAge'
  <2>1. UNCHANGED source
    BY <1>2 DEF Ask, Acquire, GiveUp, rxVars
  <2>2. CASE Ask(o)
    BY <1>1, <2>1, <2>2 DEF Ask
  <2>3. CASE Acquire(o)
    BY <1>1, <2>1, <2>3 DEF Acquire
  <2>4. CASE GiveUp(o)
    BY <1>1, <2>1, <2>4 DEF GiveUp
  <2> QED
    BY <1>2, <2>2, <2>3, <2>4
<1>3. CASE JobStep
  <2>1. CASE JobCreatesSource
    <3>1. /\ job = "rx" /\ job' \in {"filter", "cleanup"} /\ UNCHANGED <<permit, asker>>
          /\ source' \in {source, permit}
      BY <2>1 DEF JobCreatesSource, JobGoes, JobKeeps, CreateSource, rxVars
    <3>2. permit \in Opens /\ asker[permit] \notin {"none", "queued"}
      BY <3>1 DEF AskInv, AskerFits
    <3> QED
      BY <3>1, <3>2
  <2>2. CASE JobOpens \/ JobSetsParameters \/ JobFilters \/ JobStops \/ JobCleansUp
    <3>1. UNCHANGED <<permit, asker>>
      BY <2>2 DEF JobOpens, JobSetsParameters, JobFilters, JobStops, JobCleansUp, JobKeeps
    <3>2. job' \in {"params", "rx"} => job \in {"open", "params"}
      BY <2>2 DEF JobOpens, JobSetsParameters, JobFilters, JobStops, JobCleansUp, JobGoes
    <3>3. job' # "open"
      BY <2>2 DEF JobOpens, JobSetsParameters, JobFilters, JobStops, JobCleansUp, JobGoes
    <3>4. UNCHANGED source
      BY <2>2, StopKeeps DEF JobOpens, JobSetsParameters, JobFilters, JobStops, JobCleansUp, rxVars
    <3> QED
      BY <3>1, <3>2, <3>3, <3>4
  <2>3. CASE JobAnswers \/ JobIsDropped
    <3>1. \/ asker' = asker
          \/ \E answer \in {"holds", "refused"} : asker' = [asker EXCEPT ![permit] = answer]
      BY <2>3 DEF JobAnswers, JobIsDropped, ReleasePermit, rxVars
    <3>2. UNCHANGED source /\ permit' = 0
      BY <2>3 DEF JobAnswers, JobIsDropped, ReleasePermit, rxVars
    <3> QED
      BY <1>1, <3>1, <3>2
  <2> QED
    BY <1>3, <2>1, <2>2, <2>3 DEF JobStep
<1>4. ASSUME UNCHANGED <<source, asker, permit, job>> PROVE SourceAge'
  BY <1>4
<1>5. ASSUME NEW o \in Opens, BeginClose(o) \/ CloseStep(o)
      PROVE  UNCHANGED <<source, asker, permit, job>>
  BY <1>5, StopKeeps DEF BeginClose, CloseStep, StopSource, EndClose, rxVars, chanVars
<1>6. ASSUME NEW c \in Callers,
             (\E op \in {"send", "status", "set_filter"} : BeginCall(c, op))
               \/ CallStep(c) \/ CancelCall(c)
      PROVE  UNCHANGED <<source, asker, permit, job>>
  BY <1>6 DEF BeginCall, CallStep, LockTx, EnterGate, Write, WriteIsBusy, SleepEnds, Filter,
     FilterRange, Calling, CancelCall, rxVars
<1>7. ASSUME Receives \/ ThreadStep \/ Reactor \/ \E k \in {"event", "odd", "fail"} : BusDelivers(k)
      PROVE  UNCHANGED source
  <2>1. CASE Receives \/ Reactor
    BY <2>1 DEF Receives, ReaderStep, CancelRecv, BeginRecv, Settle, TakeFromThread, PollEvent,
       ReadInPoll, PollReady, ClearReady, Reactor
  <2>2. CASE ThreadStep
    BY <2>2 DEF ThreadStep, ThreadLooks, ThreadWaits, ThreadReads, ThreadPushes
  <2>3. CASE \E k \in {"event", "odd", "fail"} : BusDelivers(k)
    BY <2>3 DEF BusDelivers, rxVars
  <2> QED
    BY <1>7, <2>1, <2>2, <2>3
<1> QED
  BY <1>2, <1>3, <1>4, <1>5, <1>6, <1>7 DEF PcanNext, chanVars

-----------------------------------------------------------------------------
(* Every message is kept: the steps.                                        *)

LEMMA KeptSwallows ==
  ASSUME NEW d \in Seq(Nat), NEW c \in Seq(Messages), NEW h \in Seq(Messages),
         NEW w \in Seq(Messages), w # <<>>, NEW lost, NEW total \in Nat, NEW config,
         Kept(Pipe(d, c, h, w), lost, total, config), "odd" \in config.kinds
  PROVE  Kept(Pipe(d, c, h, Tail(w)), lost, total, config)
<1>1. Rises(Pipe(d, c, h, w), total)
  BY DEF Kept
<1>2. Rises(Pipe(d, c, h, Tail(w)), total)
  BY <1>1, PipeSwallows
<1> QED
  BY <1>2 DEF Kept

LEMMA KeptDrops ==
  ASSUME NEW d \in Seq(Nat), NEW c \in Seq(Messages), NEW w \in Seq(Messages), NEW m \in Messages,
         NEW lost \in Nat, NEW total \in Nat, NEW config,
         Kept(Pipe(d, c, <<m>>, w), lost, total, config), config.policy # "Backpressure"
  PROVE  Kept(Pipe(d, c, <<>>, w), lost + 1, total, config)
<1> DEFINE s == Pipe(d, c, <<m>>, w)
           t == Pipe(d, c, <<>>, w)
<1>1. Rises(s, total) /\ ("odd" \notin config.kinds => Len(s) + lost = total)
  BY DEF Kept
<1>2. Rises(t, total) /\ Len(s) = Len(t) + 1
  BY <1>1, PipeDrops
<1>3. Len(t) \in Nat
  <2>1. <<>> \in Seq(Messages)
    BY EmptySeq
  <2>2. t \in Seq(Nat)
    BY <2>1, PipeTyped
  <2> QED
    BY <2>2, LenProperties
<1> HIDE DEF s, t
<1>4. "odd" \notin config.kinds => Len(t) + (lost + 1) = total
  BY <1>1, <1>2, <1>3
<1> QED
  BY <1>2, <1>4 DEF Kept, t

\* What the thread holds is one message or none.
LEMMA OneIsHeld ==
  ASSUME NEW q \in Seq(Messages), q # <<>>, Len(q) <= 1
  PROVE  q[1] \in Messages /\ q = <<q[1]>>
<1>1. Len(q) \in Nat /\ Len(q) # 0
  BY LenProperties, EmptySeq
<1>2. q[1] \in Messages
  BY <1>1, ElementOfSeq
<1>3. \A m \in Messages : <<m>> \in Seq(Messages) /\ Len(<<m>>) = 1 /\ <<m>>[1] = m
  OBVIOUS
<1>4. Len(q) = 1
  BY <1>1
<1>5. \A i \in 1..1 : q[i] = <<q[1]>>[i]
  BY <1>2, <1>3
<1>6. q = <<q[1]>>
  BY <1>2, <1>3, <1>4, <1>5, SeqEqual
<1> QED
  BY <1>2, <1>6

\* A step that touches no message, starts no source and opens nothing.
LEMMA QuietKeeps ==
  ASSUME KeptInv, SourceAge',
         UNCHANGED <<setup, hw, arrived, chan, held, delivered, dropped>>,
         Keeping' => Keeping,
         job' \in {"params", "rx"} => job \in {"params", "rx"}
  PROVE  KeptInv'
<1>1. Threaded' = Threaded
  BY DEF Threaded
<1>2. job' \in {"params", "rx"} => Kept(Pipe(<<>>, <<>>, <<>>, hw'), 0, arrived', setup')
  BY DEF KeptInv
<1>3. Keeping' => Kept(Pipe(delivered', chan', held', hw'), dropped', arrived', setup')
  BY DEF KeptInv
<1> QED
  BY <1>1, <1>2, <1>3 DEF KeptInv

LEMMA ArrivalKeeps ==
  ASSUME WireInv, KeptInv, SourceAge', NEW kind \in {"event", "odd", "fail"}, BusDelivers(kind),
         UNCHANGED chanVars
  PROVE  KeptInv'
<1> DEFINE m == [kind |-> kind, number |-> arrived + 1]
<1>1. /\ UNCHANGED <<setup, handle, rxVars, job>> /\ arrived' = arrived + 1 /\ hw' = Append(hw, m)
      /\ arrived < setup.messages /\ kind \in setup.kinds
  BY DEF BusDelivers, Arrive, chanVars
<1>2. UNCHANGED <<source, thread, held, chan, stop, delivered, dropped>>
  BY <1>1 DEF rxVars
<1>3. /\ hw \in Seq(Messages) /\ held \in Seq(Messages) /\ chan \in Seq(Messages)
      /\ delivered \in Seq(Nat) /\ dropped \in Nat /\ arrived \in Nat
  BY DriverAssumption DEF WireInv, DriverShape, RxTypeOK, KeptInv
<1>4. m \in Messages /\ m.kind = kind /\ m.number = arrived + 1
  BY <1>1, <1>3, DriverAssumption DEF Messages, WireInv, DriverShape
<1>5. <<>> \in Seq(Nat) /\ <<>> \in Seq(Messages)
  BY EmptySeq
<1> HIDE DEF m
<1>6. \A i \in 1..Len(hw') : hw'[i].kind \in setup'.kinds
  <2>1. /\ Len(hw') = Len(hw) + 1 /\ hw'[Len(hw) + 1] = m /\ Len(hw) \in Nat
        /\ \A i \in 1..Len(hw) : hw'[i] = hw[i]
    BY <1>1, <1>3, <1>4, AppendProperties, LenProperties
  <2>2. \A i \in 1..Len(hw) : hw'[i].kind \in setup.kinds
    BY <2>1 DEF KeptInv
  <2>3. hw'[Len(hw) + 1].kind \in setup.kinds
    BY <1>1, <1>4, <2>1
  <2>4. \A i \in 1..Len(hw') : i \in 1..Len(hw) \/ i = Len(hw) + 1
    BY <2>1
  <2> QED
    BY <1>1, <2>2, <2>3, <2>4
<1>7. job' \in {"params", "rx"} => Kept(Pipe(<<>>, <<>>, <<>>, hw'), 0, arrived', setup')
  <2>1. ASSUME job \in {"params", "rx"}
        PROVE  Kept(Pipe(<<>>, <<>>, <<>>, Append(hw, m)), 0, arrived + 1, setup)
    <3>1. Kept(Pipe(<<>>, <<>>, <<>>, hw), 0, arrived, setup)
      BY <2>1 DEF KeptInv
    <3> QED
      BY <1>3, <1>4, <1>5, <3>1, KeptOn
  <2> QED
    BY <1>1, <2>1
<1>8. Keeping' => Kept(Pipe(delivered', chan', held', hw'), dropped', arrived', setup')
  <2>1. ASSUME Keeping
        PROVE  Kept(Pipe(delivered, chan, held, Append(hw, m)), dropped, arrived + 1, setup)
    <3>1. Kept(Pipe(delivered, chan, held, hw), dropped, arrived, setup)
      BY <2>1 DEF KeptInv
    <3> QED
      BY <1>3, <1>4, <3>1, KeptOn
  <2>2. Keeping' => Keeping
    BY <1>1, <1>2 DEF Keeping
  <2> QED
    BY <1>1, <1>2, <2>1, <2>2
<1>9. delivered' \in Seq(Nat) /\ dropped' \in Nat
  BY <1>2, <1>3
<1>10. ~Threaded' => chan' = <<>> /\ held' = <<>>
  BY <1>1, <1>2 DEF KeptInv, Threaded
<1> QED
  BY <1>6, <1>7, <1>8, <1>9, <1>10 DEF KeptInv

\* What a read leaves in the queue, and what an empty answer to a queue that is not says.
LEMMA ReadLeaves ==
  ASSUME WireInv, KeptInv, NEW o, ReadOne(o)
  PROVE  /\ \A i \in 1..Len(hw') : hw'[i].kind \in setup.kinds
         /\ hw # <<>> /\ ReadOutcome = "Empty" => "odd" \in setup.kinds
<1>1. hw' = (IF hw = <<>> THEN hw ELSE Tail(hw)) /\ hw \in Seq(Messages)
  BY DEF ReadOne, WireInv, DriverShape
<1>2. \A i \in 1..Len(hw) : hw[i].kind \in setup.kinds
  BY DEF KeptInv
<1>3. CASE hw = <<>>
  BY <1>1, <1>2, <1>3
<1>4. CASE hw # <<>>
  <2>1. /\ Len(hw) \in Nat /\ Len(hw) # 0 /\ Len(Tail(hw)) = Len(hw) - 1
        /\ Head(hw) = hw[1] /\ Head(hw) \in Messages
        /\ \A i \in 1..Len(Tail(hw)) : Tail(hw)[i] = hw[i + 1]
    BY <1>1, <1>4, LenProperties, EmptySeq, HeadTailProperties
  <2>2. 1 \in 1..Len(hw) /\ \A i \in 1..Len(Tail(hw)) : i + 1 \in 1..Len(hw)
    BY <2>1
  <2>3. \A i \in 1..Len(hw') : hw'[i].kind \in setup.kinds
    BY <1>1, <1>2, <1>4, <2>1, <2>2
  <2>4. hw[1].kind \in {"event", "odd", "fail"} /\ hw[1].kind \in setup.kinds
    BY <1>2, <2>1, <2>2 DEF Messages
  <2> QED
    BY <1>4, <2>1, <2>3, <2>4 DEF ReadOutcome
<1> QED
  BY <1>3, <1>4

\* The receiving thread reads a message into its hand, or nothing at all, ...
LEMMA ThreadReadKeeps ==
  ASSUME PcanInv, WireInv, KeptInv, SourceAge', ThreadReads, UNCHANGED chanVars
  PROVE  KeptInv'
<1>1. /\ thread = "read" /\ hw' = (IF hw = <<>> THEN hw ELSE Tail(hw))
      /\ UNCHANGED <<setup, handle, source, arrived, chan, stop, delivered, dropped, job>>
      /\ IF ReadOutcome = "Empty"
         THEN thread' = Rest /\ held' = held
         ELSE thread' = "push" /\ held' = <<Head(hw)>>
  BY DEF ThreadReads, ReadOne, chanVars
<1>2. /\ hw \in Seq(Messages) /\ held = <<>> /\ chan \in Seq(Messages)
      /\ delivered \in Seq(Nat) /\ dropped \in Nat /\ arrived \in Nat
  BY <1>1, DriverAssumption DEF WireInv, DriverShape, RxTypeOK, KeptInv
<1>3. <<>> \in Seq(Messages)
  BY EmptySeq
<1>4. job \notin {"params", "rx"} /\ Threaded
  BY <1>1, JobIsAlone DEF PcanInv, SourceInv, Quiet
<1>5. /\ \A i \in 1..Len(hw') : hw'[i].kind \in setup.kinds
      /\ hw # <<>> /\ ReadOutcome = "Empty" => "odd" \in setup.kinds
  BY ReadLeaves DEF ThreadReads
<1>6. Keeping' => Kept(Pipe(delivered', chan', held', hw'), dropped', arrived', setup')
  <2>1. ASSUME Keeping PROVE Kept(Pipe(delivered, chan, held', hw'), dropped, arrived, setup)
    <3>1. Kept(Pipe(delivered, chan, <<>>, hw), dropped, arrived, setup)
      BY <1>2, <2>1 DEF KeptInv
    <3>2. CASE hw = <<>>
      <4>1. hw' = hw /\ held' = <<>>
        BY <1>1, <1>2, <3>2 DEF ReadOutcome
      <4> QED
        BY <3>1, <4>1
    <3>3. CASE hw # <<>> /\ ReadOutcome = "Empty"
      <4>1. hw' = Tail(hw) /\ held' = <<>> /\ "odd" \in setup.kinds
        BY <1>1, <1>2, <1>5, <3>3
      <4>2. Kept(Pipe(delivered, chan, <<>>, Tail(hw)), dropped, arrived, setup)
        BY <1>2, <1>3, <3>1, <3>3, <4>1, KeptSwallows
      <4> QED
        BY <4>1, <4>2
    <3>4. CASE ReadOutcome # "Empty"
      <4>1. hw # <<>> /\ hw' = Tail(hw) /\ held' = <<Head(hw)>>
        BY <1>1, <3>4 DEF ReadOutcome
      <4>2. Pipe(delivered, chan, <<>>, hw) = Pipe(delivered, chan, <<Head(hw)>>, Tail(hw))
        BY <1>2, <4>1, PipeReads
      <4> QED
        BY <3>1, <4>1, <4>2
    <3> QED
      BY <3>2, <3>3, <3>4
  <2>2. Keeping' => Keeping
    BY <1>1 DEF Keeping
  <2> QED
    BY <1>1, <2>1, <2>2
<1>7. Threaded' /\ job' \notin {"params", "rx"} /\ delivered' \in Seq(Nat) /\ dropped' \in Nat
  BY <1>1, <1>2, <1>4 DEF Threaded
<1> QED
  BY <1>1, <1>5, <1>6, <1>7 DEF KeptInv

\* ... and puts it into the channel, drops it when it may, or ends.
LEMMA ThreadPushKeeps ==
  ASSUME PcanInv, WireInv, KeptInv, SourceAge', ThreadPushes, UNCHANGED chanVars
  PROVE  KeptInv'
<1>1. /\ thread = "push" /\ held # <<>> /\ held' = <<>>
      /\ UNCHANGED <<setup, handle, source, hw, arrived, stop, delivered, job>>
      /\ \/ thread' = "gone" /\ UNCHANGED <<chan, dropped>>
         \/ chan' = Append(chan, held[1]) /\ UNCHANGED dropped
         \/ dropped' = dropped + 1 /\ UNCHANGED chan /\ setup.policy # "Backpressure"
  BY DEF ThreadPushes, ThreadGivesUp, Patient, driverVars, chanVars, WireInv, RxTypeOK
<1>2. /\ hw \in Seq(Messages) /\ held \in Seq(Messages) /\ Len(held) <= 1 /\ chan \in Seq(Messages)
      /\ delivered \in Seq(Nat) /\ dropped \in Nat /\ arrived \in Nat
  BY <1>1, DriverAssumption DEF WireInv, DriverShape, RxTypeOK, KeptInv
<1>3. held[1] \in Messages /\ held = <<held[1]>>
  BY <1>1, <1>2, OneIsHeld
<1>4. job \notin {"params", "rx"} /\ Threaded
  BY <1>1, JobIsAlone DEF PcanInv, SourceInv, Quiet
<1>5. Keeping' => Kept(Pipe(delivered', chan', held', hw'), dropped', arrived', setup')
  <2>1. ASSUME Keeping'
        PROVE  Kept(Pipe(delivered, chan', <<>>, hw), dropped', arrived, setup)
    <3>1. Keeping
      BY <1>1, <2>1 DEF Keeping
    <3>2. Kept(Pipe(delivered, chan, <<held[1]>>, hw), dropped, arrived, setup)
      BY <1>3, <3>1 DEF KeptInv
    <3>3. CASE chan' = Append(chan, held[1]) /\ UNCHANGED dropped
      <4>1. Pipe(delivered, chan, <<held[1]>>, hw)
              = Pipe(delivered, Append(chan, held[1]), <<>>, hw)
        BY <1>2, <1>3, PipePushes
      <4> QED
        BY <3>2, <3>3, <4>1
    <3>4. CASE dropped' = dropped + 1 /\ UNCHANGED chan /\ setup.policy # "Backpressure"
      <4>1. Kept(Pipe(delivered, chan, <<>>, hw), dropped + 1, arrived, setup)
        BY <1>2, <1>3, <3>2, <3>4, KeptDrops
      <4> QED
        BY <3>4, <4>1
    <3>5. thread' # "gone"
      BY <2>1 DEF Keeping
    <3> QED
      BY <1>1, <3>3, <3>4, <3>5
  <2> QED
    BY <1>1, <2>1
<1>6. Threaded' /\ job' \notin {"params", "rx"} /\ delivered' \in Seq(Nat) /\ dropped' \in Nat
  BY <1>1, <1>2, <1>4 DEF Threaded
<1>7. \A i \in 1..Len(hw') : hw'[i].kind \in setup'.kinds
  BY <1>1 DEF KeptInv
<1> QED
  BY <1>5, <1>6, <1>7 DEF KeptInv

\* recv() takes the oldest message of the channel, ...
LEMMA TakeKeeps ==
  ASSUME WireInv, KeptInv, SourceAge', chan # <<>>, chan' = Tail(chan),
         delivered' = Append(delivered, Head(chan).number),
         UNCHANGED <<setup, handle, source, hw, arrived, stop, thread, held, dropped, job>>
  PROVE  KeptInv'
<1>1. /\ hw \in Seq(Messages) /\ chan \in Seq(Messages) /\ delivered \in Seq(Nat)
      /\ dropped \in Nat
  BY DEF WireInv, DriverShape, RxTypeOK, KeptInv
<1>2. Head(chan).number \in Nat
  BY <1>1, NumbersHead
<1>3. delivered' \in Seq(Nat)
  BY <1>1, <1>2, JoinNumbers
<1>4. Pipe(delivered, chan, held, hw) = Pipe(delivered', chan', held, hw)
  BY <1>1, PipeTakes
<1>5. Keeping' => Kept(Pipe(delivered', chan', held', hw'), dropped', arrived', setup')
  BY <1>4 DEF KeptInv, Keeping
<1>6. job' \in {"params", "rx"} => Kept(Pipe(<<>>, <<>>, <<>>, hw'), 0, arrived', setup')
  BY DEF KeptInv
<1>7. Threaded'
  BY DEF KeptInv, Threaded
<1> QED
  BY <1>1, <1>3, <1>5, <1>6, <1>7 DEF KeptInv

\* ... or reads the driver itself.
LEMMA PollKeeps ==
  ASSUME PcanInv, WireInv, KeptInv, SourceAge', ReadInPoll, UNCHANGED chanVars
  PROVE  KeptInv'
<1>1. /\ reader.pc \in Polling /\ hw' = (IF hw = <<>> THEN hw ELSE Tail(hw))
      /\ UNCHANGED <<setup, handle, source, arrived, chan, held, stop, thread, dropped, job>>
      /\ IF ReadOutcome = "Empty" THEN UNCHANGED delivered
         ELSE delivered' = Append(delivered, Head(hw).number)
  BY DEF ReadInPoll, ReadOne, Return, Polling, chanVars
<1>2. job \notin {"params", "rx"} /\ ~Threaded
  BY <1>1, JobIsAlone DEF PcanInv, SourceInv, Quiet
<1>3. /\ hw \in Seq(Messages) /\ held = <<>> /\ chan = <<>>
      /\ delivered \in Seq(Nat) /\ dropped \in Nat /\ arrived \in Nat
  BY <1>2, DriverAssumption DEF WireInv, DriverShape, RxTypeOK, KeptInv
<1>4. <<>> \in Seq(Messages)
  BY EmptySeq
<1>5. /\ \A i \in 1..Len(hw') : hw'[i].kind \in setup.kinds
      /\ hw # <<>> /\ ReadOutcome = "Empty" => "odd" \in setup.kinds
  BY ReadLeaves DEF ReadInPoll
<1>6. delivered' \in Seq(Nat)
  <2>1. hw # <<>> => Head(hw).number \in Nat
    BY <1>3, NumbersHead
  <2>2. ReadOutcome # "Empty" => hw # <<>>
    BY DEF ReadOutcome
  <2> QED
    BY <1>1, <1>3, <2>1, <2>2, JoinNumbers
<1>7. Keeping' => Kept(Pipe(delivered', chan', held', hw'), dropped', arrived', setup')
  <2>1. ASSUME Keeping PROVE Kept(Pipe(delivered', <<>>, <<>>, hw'), dropped, arrived, setup)
    <3>1. Kept(Pipe(delivered, <<>>, <<>>, hw), dropped, arrived, setup)
      BY <1>3, <2>1 DEF KeptInv
    <3>2. CASE hw = <<>>
      <4>1. hw' = hw /\ delivered' = delivered
        BY <1>1, <3>2 DEF ReadOutcome
      <4> QED
        BY <3>1, <4>1
    <3>3. CASE hw # <<>> /\ ReadOutcome = "Empty"
      <4>1. hw' = Tail(hw) /\ delivered' = delivered /\ "odd" \in setup.kinds
        BY <1>1, <1>5, <3>3
      <4>2. Kept(Pipe(delivered, <<>>, <<>>, Tail(hw)), dropped, arrived, setup)
        BY <1>3, <1>4, <3>1, <3>3, <4>1, KeptSwallows
      <4> QED
        BY <4>1, <4>2
    <3>4. CASE ReadOutcome # "Empty"
      <4>1. hw # <<>> /\ hw' = Tail(hw) /\ delivered' = Append(delivered, Head(hw).number)
        BY <1>1, <3>4 DEF ReadOutcome
      <4>2. Pipe(delivered, <<>>, <<>>, hw)
              = Pipe(Append(delivered, Head(hw).number), <<>>, <<>>, Tail(hw))
        BY <1>3, <4>1, PipePolls
      <4> QED
        BY <3>1, <4>1, <4>2
    <3> QED
      BY <3>2, <3>3, <3>4
  <2>2. (Keeping' => Keeping) /\ chan' = <<>> /\ held' = <<>>
    BY <1>1, <1>3 DEF Keeping
  <2> QED
    BY <1>1, <2>1, <2>2
<1>8. job' \notin {"params", "rx"} /\ chan' = <<>> /\ held' = <<>> /\ dropped' \in Nat
  BY <1>1, <1>2, <1>3
<1> QED
  BY <1>1, <1>5, <1>6, <1>7, <1>8 DEF KeptInv

\* A stop that has begun is not undone by its steps.
LEMMA StopIsQuiet ==
  ASSUME KeptInv, SourceAge', StopStep, job' \in {"params", "rx"} => job \in {"params", "rx"}
  PROVE  KeptInv'
<1>1. /\ UNCHANGED <<setup, hw, arrived, chan, held, delivered, dropped>> /\ stop' # "no"
  BY DEF StopStep, ClaimStop, Unblock, JoinThread, Release, NotifyShutdown, driverVars
<1> QED
  BY <1>1, QuietKeeps DEF Keeping

\* An open starts from an empty queue and leaves one, ...
LEMMA FreshKeeps ==
  ASSUME KeptInv, SourceAge', hw' = <<>>, arrived' = 0, ~Keeping',
         UNCHANGED <<setup, rxVars>>
  PROVE  KeptInv'
<1>1. Len(hw') = 0
  BY EmptySeq
<1>2. Kept(Pipe(<<>>, <<>>, <<>>, hw'), 0, arrived', setup')
  BY KeptNothing
<1>3. UNCHANGED <<chan, held, delivered, dropped>> /\ Threaded' = Threaded
  BY DEF rxVars, Threaded
<1> QED
  BY <1>1, <1>2, <1>3 DEF KeptInv

\* ... and the source from an empty channel.
LEMMA JobKeepsMessages ==
  ASSUME PcanInv, WireInv, KeptInv, SourceAge', JobStep
  PROVE  KeptInv'
<1>1. CASE JobOpens
  <2>1. /\ job = "open" /\ UNCHANGED <<setup, permit, asker, rxVars, source>>
        /\ \/ job' = "failed" /\ UNCHANGED driverVars
           \/ job' = "params" /\ hw' = <<>> /\ arrived' = 0 /\ handle' = permit
           \/ job' = "cleanup" /\ hw' = <<>> /\ arrived' = 0 /\ handle' = handle
    BY <1>1 DEF JobOpens, JobGoes, JobKeeps, Initialize, driverVars, rxVars
  <2>2. permit \in Opens /\ permit # 0 /\ handle = 0
    BY <2>1, JobIsAlone, NoOpenIsZero
  <2>3. CASE job' = "failed" /\ UNCHANGED driverVars
    BY <2>1, <2>3, QuietKeeps DEF Keeping, driverVars, rxVars
  <2>4. CASE job' = "params" /\ hw' = <<>> /\ arrived' = 0 /\ handle' = permit
    <3>1. source # permit
      BY <2>1, <2>2 DEF KeptInv, SourceAge
    <3>2. ~Keeping'
      BY <2>1, <2>4, <3>1 DEF Keeping
    <3> QED
      BY <2>1, <2>4, <3>2, FreshKeeps
  <2>5. CASE job' = "cleanup" /\ hw' = <<>> /\ arrived' = 0 /\ handle' = handle
    <3>1. ~Keeping'
      BY <2>2, <2>5 DEF Keeping
    <3> QED
      BY <2>1, <2>5, <3>1, FreshKeeps
  <2> QED
    BY <2>1, <2>3, <2>4, <2>5
<1>2. CASE JobCleansUp
  <2>1. UNCHANGED <<setup, rxVars>> /\ hw' = <<>> /\ arrived' = 0 /\ handle' = 0
    BY <1>2 DEF JobCleansUp, Uninitialize
  <2>2. ~Keeping'
    BY <2>1 DEF Keeping
  <2> QED
    BY <2>1, <2>2, FreshKeeps
<1>3. CASE JobCreatesSource
  <2>1. CASE UNCHANGED <<driverVars, rxVars>> /\ job' = "cleanup"
    BY <2>1, QuietKeeps DEF Keeping, driverVars, rxVars
  <2>2. CASE job = "rx" /\ job' = "filter" /\ CreateSource(permit)
    <3>1. /\ UNCHANGED <<setup, hw, arrived>> /\ held' = <<>> /\ chan' = <<>>
          /\ delivered' = <<>> /\ dropped' = 0
      BY <2>2 DEF CreateSource
    <3>2. Kept(Pipe(<<>>, <<>>, <<>>, hw), 0, arrived, setup)
      BY <2>2 DEF KeptInv
    <3>3. Kept(Pipe(delivered', chan', held', hw'), dropped', arrived', setup')
      BY <3>1, <3>2
    <3>4. delivered' \in Seq(Nat) /\ dropped' \in Nat
      BY <3>1, EmptySeq
    <3>5. \A i \in 1..Len(hw') : hw'[i].kind \in setup'.kinds
      BY <3>1 DEF KeptInv
    <3> QED
      BY <2>2, <3>1, <3>3, <3>4, <3>5 DEF KeptInv
  <2> QED
    BY <1>3, <2>1, <2>2 DEF JobCreatesSource, JobGoes
<1>4. CASE JobSetsParameters \/ JobFilters \/ JobAnswers \/ JobIsDropped
  <2>1. /\ UNCHANGED <<driverVars, rxVars>>
        /\ job' \in {"params", "rx"} => job \in {"params", "rx"}
    BY <1>4 DEF JobSetsParameters, JobFilters, JobAnswers, JobIsDropped, JobGoes, ReleasePermit
  <2> QED
    BY <2>1, QuietKeeps DEF Keeping, driverVars, rxVars
<1>5. CASE JobStops
  <2>1. job' \notin {"params", "rx"}
    BY <1>5 DEF JobStops
  <2>2. CASE UNCHANGED <<driverVars, rxVars>>
    BY <2>1, <2>2, QuietKeeps DEF Keeping, driverVars, rxVars
  <2>3. CASE StopStep
    BY <2>1, <2>3, StopIsQuiet
  <2> QED
    BY <1>5, <2>2, <2>3 DEF JobStops
<1> QED
  BY <1>1, <1>2, <1>3, <1>4, <1>5 DEF JobStep

LEMMA CloseKeepsMessages ==
  ASSUME PcanInv, WireInv, KeptInv, SourceAge', NEW o \in Opens, BeginClose(o) \/ CloseStep(o)
  PROVE  KeptInv'
<1>1. CASE BeginClose(o)
  BY <1>1, QuietKeeps DEF BeginClose, Keeping, driverVars, rxVars
<1>2. CASE StopSource(o)
  BY <1>2, StopIsQuiet DEF StopSource, chanVars
<1>3. CASE EndClose(o)
  <2>1. UNCHANGED <<setup, rxVars>> /\ hw' = <<>> /\ arrived' = 0 /\ handle' = 0
    BY <1>3 DEF EndClose, Uninitialize
  <2>2. ~Keeping'
    BY <2>1 DEF Keeping
  <2> QED
    BY <2>1, <2>2, FreshKeeps
<1> QED
  BY <1>1, <1>2, <1>3 DEF CloseStep

\* The receiver, the threads, the reactor and the bus.
LEMMA ReadsKeepMessages ==
  ASSUME PcanInv, WireInv, KeptInv, SourceAge', UNCHANGED chanVars,
         Receives \/ ThreadStep \/ Reactor
           \/ \E kind \in {"event", "odd", "fail"} : BusDelivers(kind)
  PROVE  KeptInv'
<1>0. UNCHANGED job
  BY DEF chanVars
<1>1. ASSUME UNCHANGED <<setup, handle, hw, arrived, source, held, chan, stop, delivered, dropped>>,
             thread' # "gone" => thread # "gone"
      PROVE  KeptInv'
  BY <1>0, <1>1, QuietKeeps DEF Keeping
<1>2. CASE BeginRecv \/ Settle \/ PollEvent \/ PollReady \/ ClearReady \/ CancelRecv
  BY <1>1, <1>2 DEF BeginRecv, Settle, PollEvent, PollReady, ClearReady, CancelRecv, driverVars
<1>3. CASE TakeFromThread
  <2>1. /\ UNCHANGED <<setup, handle, hw, arrived, source, held, stop, thread, dropped>>
        /\ \/ /\ chan # <<>> /\ chan' = Tail(chan)
              /\ delivered' = Append(delivered, Head(chan).number)
           \/ UNCHANGED <<chan, delivered>>
    BY <1>3 DEF TakeFromThread, Return, driverVars
  <2> QED
    BY <1>0, <1>1, <2>1, TakeKeeps
<1>4. CASE ReadInPoll
  BY <1>4, PollKeeps
<1>5. CASE Reactor
  BY <1>1, <1>5 DEF Reactor
<1>6. CASE ThreadLooks \/ ThreadWaits
  BY <1>1, <1>6 DEF ThreadLooks, ThreadWaits, driverVars
<1>7. CASE ThreadReads \/ ThreadPushes
  BY <1>7, ThreadReadKeeps, ThreadPushKeeps
<1>8. CASE \E kind \in {"event", "odd", "fail"} : BusDelivers(kind)
  BY <1>8, ArrivalKeeps
<1> QED
  BY <1>2, <1>3, <1>4, <1>5, <1>6, <1>7, <1>8 DEF Receives, ReaderStep, ThreadStep

LEMMA KeptStep == PcanInv /\ WireInv /\ KeptInv /\ [PcanNext]_pcanVars => KeptInv'
<1> SUFFICES ASSUME PcanInv, WireInv, KeptInv, [PcanNext]_pcanVars PROVE KeptInv'
  OBVIOUS
<1>1. SourceAge
  BY DEF KeptInv
<1>2. CASE UNCHANGED pcanVars
  <2>1. SourceAge'
    BY <1>1, <1>2 DEF SourceAge, pcanVars, rxVars, chanVars
  <2> QED
    BY <1>2, <2>1, QuietKeeps DEF Keeping, pcanVars, driverVars, rxVars, chanVars
<1>3. CASE PcanNext
  <2>1. SourceAge'
    BY <1>1, <1>3, AgeStep
  <2>2. ASSUME UNCHANGED <<setup, handle, hw, arrived, rxVars>>,
               job' \in {"params", "rx"} => job \in {"params", "rx"}
        PROVE  KeptInv'
    BY <2>1, <2>2, QuietKeeps DEF Keeping, rxVars
  <2>3. ASSUME NEW o \in Opens, Ask(o) \/ Acquire(o) \/ GiveUp(o) PROVE KeptInv'
    BY <2>2, <2>3 DEF Ask, Acquire, GiveUp, driverVars
  <2>4. ASSUME NEW c \in Callers,
               (\E op \in {"send", "status", "set_filter"} : BeginCall(c, op))
                 \/ CallStep(c) \/ CancelCall(c)
        PROVE  KeptInv'
    <3>1. UNCHANGED <<setup, handle, hw, arrived, rxVars, job>>
      BY <2>4 DEF BeginCall, CallStep, LockTx, EnterGate, Write, WriteIsBusy, SleepEnds, Filter,
         FilterRange, Calling, CancelCall, driverVars
    <3> QED
      BY <2>2, <3>1
  <2> QED
    BY <1>3, <2>1, <2>3, <2>4, JobKeepsMessages, CloseKeepsMessages, ReadsKeepMessages DEF PcanNext
<1> QED
  BY <1>2, <1>3

\* rx/mod.rs 164-279, rx/linux.rs 108-180, channel.rs 443-602: until the source of an open is
\* stopped, every message the driver queued since CAN_Initialize is delivered, or in the
\* channel, in the thread's hand or in the driver's queue, once and in the order of the driver;
\* what is missing is counted as dropped, and Backpressure drops nothing.
THEOREM MessagesAlwaysKept == AnySpec => []EveryMessageIsKept
<1>1. AnyInit => WireInv /\ KeptInv
  BY WireStarts, KeptStarts DEF AnyInit
<1>2. PcanInv /\ WireInv /\ KeptInv /\ [AnyNext]_anyVars => WireInv' /\ KeptInv'
  <2>1. [AnyNext]_anyVars => [PcanNext]_pcanVars
    BY DEF AnyNext, Basic, Socket, anyVars
  <2> QED
    BY <2>1, WireStep, KeptStep
<1>3. PcanInv /\ WireInv /\ KeptInv => EveryMessageIsKept
  <2> SUFFICES ASSUME WireInv, KeptInv, Keeping
               PROVE  /\ \A i, j \in DOMAIN Pipeline : i < j => Pipeline[i] < Pipeline[j]
                      /\ "odd" \notin setup.kinds => Len(Pipeline) + dropped = arrived
                      /\ setup.policy = "Backpressure" => dropped = 0
    BY DEF EveryMessageIsKept, Keeping
  <2>1. Pipeline = Pipe(delivered, chan, held, hw)
    BY DEF Pipeline, Pipe
  <2>2. Pipeline \in Seq(Nat)
    BY <2>1, PipeTyped DEF WireInv, DriverShape, RxTypeOK, KeptInv
  <2>3. DOMAIN Pipeline = 1..Len(Pipeline)
    BY <2>2, LenProperties
  <2>4. Kept(Pipeline, dropped, arrived, setup)
    BY <2>1 DEF KeptInv
  <2> QED
    BY <2>3, <2>4 DEF Kept, Rises
<1> QED
  BY <1>1, <1>2, <1>3, PcanInvariance, PTL DEF AnySpec
=============================================================================
