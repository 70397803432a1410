--------------------------- MODULE CyclicScheduler ---------------------------
(***************************************************************************)
(* Cyclic transmission: the handles an application holds, the slot in      *)
(* which they merge what they want of an entry, the command channel, and   *)
(* the one task that keeps a heap of due times for all entries.            *)
(* The priority of an entry only orders entries due at one instant; here   *)
(* any of them may come first. The lengths of payloads are left out.       *)
(***************************************************************************)
EXTENDS Integers, Sequences, FiniteSets, FiniteSetsExt

CONSTANTS
  Callers,       \* threads of the application that use the handles
  MaxItems,      \* cyclic entries ever scheduled (bound of the model)
  Capacity,      \* LinkBuilder::control_capacity
  AddSlots,      \* MAX_PENDING_CYCLIC_ADDS
  Periods,       \* periods a caller may ask for
  Configs,       \* CyclicConfig of the entries an application may schedule
  MaxBurst,      \* CyclicConfig::max_burst
  CompactFactor, \* 4 in compact_heap
  CompactSlack,  \* 64 in compact_heap
  CountMax,      \* u32::MAX
  LastInstant,   \* the last Instant there is
  MaxTime,       \* the clock stops here (bound of the model)
  MaxCalls       \* calls on handles (bound of the model)

ASSUME CyclicAssumption ==
  /\ MaxItems \in Nat /\ Capacity \in Nat \ {0} /\ AddSlots \in Nat \ {0}
  /\ Periods \subseteq Nat \ {0} /\ MaxBurst \in Nat \ {0}
  /\ \A config \in Configs :
       /\ config = [period |-> config.period, delay |-> config.delay,
                   repeat |-> config.repeat, overrun |-> config.overrun]
       /\ config.period \in Periods /\ config.delay \in Nat
       /\ config.repeat \in Nat  \* Repeat::Count, or Forever
       /\ config.overrun \in {"Skip", "Burst"}
  /\ CompactFactor \in Nat \ {0} /\ CompactSlack \in Nat
  /\ CountMax \in Nat \ {0} /\ LastInstant \in Nat
  /\ MaxTime \in 0..LastInstant /\ MaxCalls \in Nat

VARIABLES
  now,       \* Instant::now()
  slot,      \* PendingUpdate of each item
  handle,    \* what became of each CyclicHandle
  caller,    \* where each thread is in a call on a handle
  commands,  \* the unbounded control channel
  entries,   \* the live entries of the scheduler, by item
  heap,      \* due times: [at, item, generation]
  sched,     \* where the scheduler is, and the locals it holds there
  calls,     \* calls begun
  phase,     \* ghost: the due time an entry was phased with last
  uncounted, \* ghost: ticks that came due and triggers called for, less the
             \* sum of CyclicStats::sent and CyclicStats::skipped
  stalled    \* ghost: an entry has been left behind by more than CountMax ticks

cyclicVars == <<now, slot, handle, caller, commands, entries, heap, sched, calls,
                phase, uncounted, stalled>>
ghostVars == <<phase, uncounted, stalled>>

Items == 1..MaxItems
Forever == 0
Unset == 0
Slots == [frame : Nat, period : {Unset} \cup Periods, paused : {"unset", "yes", "no"},
          triggers : 0..MaxBurst, queued : BOOLEAN]
EmptySlot == [frame |-> 0, period |-> Unset, paused |-> "unset",
              triggers |-> 0, queued |-> FALSE]
Add(i, config) == [kind |-> "Add", item |-> i, config |-> config]
ApplyUpdate(i) == [kind |-> "ApplyUpdate", item |-> i]
Stop(i, reply) == [kind |-> "Stop", item |-> i, reply |-> reply]
Close == [kind |-> "Close"]

Idle == [at |-> "idle"]
Selecting == [at |-> "select"]
Ended == sched.at = "ended"
Using(i) == {c \in Callers : caller[c].at # "idle" /\ caller[c].item = i}

CyclicInit ==
  /\ now = 0 /\ calls = 0
  /\ slot = [i \in Items |-> EmptySlot]
  /\ handle = [i \in Items |-> "none"]
  /\ caller = [c \in Callers |-> Idle]
  /\ commands = <<>> /\ entries = << >> /\ heap = {}
  /\ sched = Selecting
  /\ phase = [i \in Items |-> 0] /\ uncounted = [i \in Items |-> 0] /\ stalled = FALSE

------------------------------------------------------------------------------
(* Admission: the lease of an item is shared by its handle, its entry and  *)
(* its commands, also the one being handled; the admission of an Add is    *)
(* given back once it is handled.                                          *)

Queued(kinds) == {k \in 1..Len(commands) : commands[k].kind \in kinds}
ItemKinds == {"Add", "ApplyUpdate", "Stop"}

Leased(i) ==
  \/ handle[i] \in {"held", "waiting"}
  \/ i \in DOMAIN entries
  \/ \E k \in Queued(ItemKinds) : commands[k].item = i
  \/ sched.at \in {"received", "cleared", "taken"} /\ sched.item = i

Admitted ==
  /\ Cardinality({i \in Items : Leased(i)}) < Capacity
  /\ Cardinality(Queued({"Add"})) < AddSlots

Send(command) == commands' = IF Ended THEN commands ELSE Append(commands, command)

\* Link::schedule_cyclic; an error leaves nothing behind.
Schedule(i, config) ==
  /\ handle[i] = "none" /\ \A j \in 1..(i - 1) : handle[j] # "none"
  /\ ~Ended /\ Admitted
  /\ handle' = [handle EXCEPT ![i] = "held"]
  /\ Send(Add(i, config))
  /\ UNCHANGED <<now, slot, caller, entries, heap, sched, calls, ghostVars>>

------------------------------------------------------------------------------
(* A call on a handle: it writes a value, then it wakes the scheduler.     *)

\* Begins a call that writes a value into the slot.
Writes(c, i, value) ==
  /\ handle[i] = "held" /\ caller[c].at = "idle" /\ calls < MaxCalls
  /\ slot' = [slot EXCEPT ![i] = value]
  /\ caller' = [caller EXCEPT ![c] = [at |-> "wake", item |-> i]]
  /\ calls' = calls + 1
  /\ UNCHANGED <<now, handle, commands, entries, heap, sched, phase, stalled>>

\* set_frame and set_payload; a payload of another length is refused.
SetFrame(c, i) ==
  Writes(c, i, [slot[i] EXCEPT !.frame = @ + 1]) /\ UNCHANGED uncounted

SetPeriod(c, i, period) ==
  Writes(c, i, [slot[i] EXCEPT !.period = period]) /\ UNCHANGED uncounted

\* pause and resume.
SetPaused(c, i, paused) ==
  Writes(c, i, [slot[i] EXCEPT !.paused = paused]) /\ UNCHANGED uncounted

\* trigger_once, below the cap.
PushTrigger(c, i) ==
  /\ slot[i].triggers < MaxBurst
  /\ Writes(c, i, [slot[i] EXCEPT !.triggers = @ + 1])
  /\ uncounted' = [uncounted EXCEPT ![i] = @ + 1]

\* trigger_once, at the cap: skipped, and nobody is woken.
TriggerSkipped(c, i) ==
  /\ handle[i] = "held" /\ caller[c].at = "idle" /\ calls < MaxCalls
  /\ slot[i].triggers = MaxBurst
  /\ calls' = calls + 1
  /\ UNCHANGED <<now, slot, handle, caller, commands, entries, heap, sched, ghostVars>>

\* wake: the swap of the flag; whoever finds it clear sends the command.
Wake(c) ==
  /\ caller[c].at = "wake"
  /\ LET i == caller[c].item IN
     /\ caller' = [caller EXCEPT ![c] = IF slot[i].queued THEN Idle ELSE [@ EXCEPT !.at = "send"]]
     /\ slot' = [slot EXCEPT ![i].queued = TRUE]
  /\ UNCHANGED <<now, handle, commands, entries, heap, sched, calls, ghostVars>>

\* wake: the send; the flag is put back if the scheduler has ended.
SendWake(c) ==
  /\ caller[c].at = "send"
  /\ Send(ApplyUpdate(caller[c].item))
  /\ slot' = IF Ended THEN [slot EXCEPT ![caller[c].item].queued = FALSE] ELSE slot
  /\ caller' = [caller EXCEPT ![c] = Idle]
  /\ UNCHANGED <<now, handle, entries, heap, sched, calls, ghostVars>>

------------------------------------------------------------------------------
(* The end of a handle. Nobody else can be using it.                       *)

Leaves(i, how) ==
  /\ handle[i] = "held" /\ Using(i) = {}
  /\ handle' = [handle EXCEPT ![i] = how]
  /\ UNCHANGED <<now, slot, caller, entries, heap, sched, calls, ghostVars>>

StopCall(i) ==
  /\ Leaves(i, IF Ended THEN "gone" ELSE "waiting")
  /\ Send(Stop(i, TRUE))

Dropped(i) == Leaves(i, "gone") /\ Send(Stop(i, FALSE))

Detached(i) == Leaves(i, "gone") /\ UNCHANGED commands

\* The future of stop() is dropped: its command stays.
StopCancelled(i) ==
  /\ handle[i] = "waiting"
  /\ handle' = [handle EXCEPT ![i] = "gone"]
  /\ UNCHANGED <<now, slot, caller, commands, entries, heap, sched, calls, ghostVars>>
\* The supervisor or a guard ends the scheduler.
CloseLink ==
  /\ Queued({"Close"}) = {} /\ ~Ended
  /\ Send(Close)
  /\ UNCHANGED <<now, slot, handle, caller, entries, heap, sched, calls, ghostVars>>

Running == {i \in DOMAIN entries : ~entries[i].paused}

\* How many of the instants from, from + period, ... have come by then.
TicksBy(instant, from, period) ==
  IF instant < from THEN 0 ELSE (instant - from) \div period + 1

\* The entry was meant to send at this instant, from where it was phased.
IsTick(i, instant) ==
  phase[i] <= instant /\ (instant - phase[i]) % entries[i].period = 0

\* Time passes, and with it the ticks of the entries that run.
Elapse ==
  /\ now < MaxTime /\ ~Ended
  /\ now' = now + 1
  /\ uncounted' = [i \in Items |->
       IF i \in Running /\ IsTick(i, now + 1) THEN uncounted[i] + 1 ELSE uncounted[i]]
  /\ stalled' = (stalled \/ \E i \in Running :
       TicksBy(now + 1, entries[i].next, entries[i].period) > CountMax)
  /\ UNCHANGED <<slot, handle, caller, commands, entries, heap, sched, calls, phase>>

------------------------------------------------------------------------------
(* The scheduler, one command.                                             *)

Node(i, entry) == [at |-> entry.next, item |-> i, generation |-> entry.generation]
Without(i) == [j \in DOMAIN entries \ {i} |-> entries[j]]
With(i, entry) == [j \in DOMAIN entries \cup {i} |-> IF j = i THEN entry ELSE entries[j]]

\* compact_heap: too many stale nodes, and it is built anew.
Compact(nodes, live) ==
  IF Cardinality(nodes) <= Cardinality(DOMAIN live) * CompactFactor + CompactSlack
  THEN nodes
  ELSE {Node(i, live[i]) : i \in {j \in DOMAIN live : ~live[j].paused}}

\* Back at the top of the loop with these nodes and entries.
Loop(nodes, live) ==
  /\ sched' = Selecting
  /\ entries' = live
  /\ heap' = Compact(nodes, live)

Takes(kind) ==
  /\ sched.at = "select" /\ commands # <<>> /\ Head(commands).kind = kind
  /\ UNCHANGED <<now, slot, caller, calls>>

\* The ghosts of an entry that has ended.
Forget(i) ==
  /\ phase' = [phase EXCEPT ![i] = 0]
  /\ uncounted' = [uncounted EXCEPT ![i] = 0]
  /\ UNCHANGED stalled

\* The ghosts of an entry that is due at `next` from now on, after `counted` ticks
\* and triggers have been sent or skipped.
Phased(i, next, period, counted) ==
  /\ phase' = [phase EXCEPT ![i] = next]
  /\ uncounted' = [uncounted EXCEPT ![i] = @ - counted + TicksBy(now, next, period)]
  /\ UNCHANGED stalled

\* The task ends, and its receiver is dropped with what is queued; stop() fails if
\* it waits.
SchedulerEnds ==
  /\ sched' = [at |-> "ended"]
  /\ entries' = << >> /\ heap' = {} /\ commands' = <<>>
  /\ handle' = [i \in Items |-> IF handle[i] = "waiting" THEN "gone" ELSE handle[i]]
  /\ UNCHANGED ghostVars

NewEntry(config) ==
  [frame |-> 0, period |-> config.period, next |-> now + config.delay, paused |-> FALSE,
   remaining |-> config.repeat, generation |-> 0, overrun |-> config.overrun]

TakeAdd ==
  /\ Takes("Add")
  /\ LET i == Head(commands).item
         entry == NewEntry(Head(commands).config)
     IN  /\ entry.next <= LastInstant
         /\ Loop(heap \cup {Node(i, entry)}, With(i, entry))
         /\ Phased(i, entry.next, entry.period, 0)
  /\ commands' = Tail(commands)
  /\ UNCHANGED handle

\* Instant::now() + delay overflows: the task panics.
AddPanics ==
  /\ Takes("Add")
  /\ NewEntry(Head(commands).config).next > LastInstant
  /\ SchedulerEnds

\* An update of an item that has completed or stopped finds no entry.
TakeUpdate ==
  /\ Takes("ApplyUpdate")
  /\ LET i == Head(commands).item IN
     IF i \in DOMAIN entries
     THEN sched' = [at |-> "received", item |-> i] /\ UNCHANGED <<entries, heap>>
     ELSE Loop(heap, entries)
  /\ commands' = Tail(commands)
  /\ UNCHANGED <<handle, ghostVars>>

\* Mutant of TakeStop: no answer if the entry has completed.
StopUnanswered ==
  /\ Takes("Stop")
  /\ LET i == Head(commands).item IN
     /\ Loop(heap, Without(i)) /\ Forget(i)
     /\ handle' = IF Head(commands).reply /\ handle[i] = "waiting" /\ i \in DOMAIN entries
                   THEN [handle EXCEPT ![i] = "stopped"] ELSE handle
  /\ commands' = Tail(commands)

TakeStop ==
  /\ Takes("Stop")
  /\ LET i == Head(commands).item IN
     /\ Loop(heap, Without(i)) /\ Forget(i)
     /\ handle' = IF Head(commands).reply /\ handle[i] = "waiting"
                   THEN [handle EXCEPT ![i] = "stopped"] ELSE handle
  /\ commands' = Tail(commands)

TakeClose == Takes("Close") /\ SchedulerEnds

------------------------------------------------------------------------------
(* The scheduler, a merged update: first the flag, then the values under   *)
(* the lock, then the counter of triggers.                                 *)

\* Mutant of ClearFlag: the flag stays set.
FlagKept ==
  /\ sched.at = "received"
  /\ sched' = [sched EXCEPT !.at = "cleared"]
  /\ UNCHANGED <<now, slot, handle, caller, commands, entries, heap, calls, ghostVars>>

ClearFlag ==
  /\ sched.at = "received"
  /\ slot' = [slot EXCEPT ![sched.item].queued = FALSE]
  /\ sched' = [sched EXCEPT !.at = "cleared"]
  /\ UNCHANGED <<now, handle, caller, commands, entries, heap, calls, ghostVars>>

TakeState ==
  /\ sched.at = "cleared"
  /\ LET i == sched.item IN
     /\ sched' = [at |-> "taken", item |-> i, frame |-> slot[i].frame,
                   period |-> slot[i].period, paused |-> slot[i].paused]
     /\ slot' = [slot EXCEPT ![i].period = Unset, ![i].paused = "unset"]
  /\ UNCHANGED <<now, handle, caller, commands, entries, heap, calls, ghostVars>>

\* A pause wins over a new period; a resume phases anew.
Rephases(update) ==
  \/ update.paused = "no"
  \/ update.paused = "unset" /\ update.period # Unset

InvalidatesAll(update) == TRUE  \* mutant of Invalidates

\* The node of the entry is no longer its own.
Invalidates(update) == Rephases(update) \/ update.paused = "yes"

Updated(entry, update) ==
  LET period == IF update.period = Unset THEN entry.period ELSE update.period
  IN  [entry EXCEPT
        !.frame = update.frame,
        !.period = period,
        !.paused = IF update.paused = "unset" THEN @ ELSE update.paused = "yes",
        !.next = IF Rephases(update) THEN now + period ELSE @,
        !.generation = IF Invalidates(update) THEN @ + 1 ELSE @]

\* The ticks that have come and are neither sent nor skipped yet.
Outstanding(i) ==
  IF entries[i].paused THEN 0 ELSE TicksBy(now, entries[i].next, entries[i].period)

\* The triggers are taken, the entry is updated, the triggers are sent. With its node
\* an entry loses the ticks that are outstanding: nothing counts them.
TakeTriggers ==
  /\ sched.at = "taken"
  /\ LET i == sched.item
         entry == Updated(entries[i], sched)
         lost == IF Invalidates(sched) THEN Outstanding(i) ELSE 0
     IN  /\ Rephases(sched) => entry.next <= LastInstant
         /\ Loop(IF Rephases(sched) THEN heap \cup {Node(i, entry)} ELSE heap, With(i, entry))
         /\ IF Rephases(sched)
            THEN Phased(i, entry.next, entry.period, slot[i].triggers + lost)
            ELSE /\ uncounted' = [uncounted EXCEPT ![i] = @ - slot[i].triggers - lost]
                 /\ UNCHANGED <<phase, stalled>>
         /\ slot' = [slot EXCEPT ![i].triggers = 0]
  /\ UNCHANGED <<now, handle, caller, commands, calls>>

\* Instant::now() + period overflows: the task panics, with the triggers taken.
UpdatePanics ==
  /\ sched.at = "taken"
  /\ Rephases(sched) /\ Updated(entries[sched.item], sched).next > LastInstant
  /\ slot' = [slot EXCEPT ![sched.item].triggers = 0]
  /\ SchedulerEnds
  /\ UNCHANGED <<now, caller, calls>>

------------------------------------------------------------------------------
(* The scheduler, one tick: every node due at the instant it woke.         *)

Earliest == {n \in heap : \A m \in heap : n.at <= m.at}
DueAt(instant) == {n \in Earliest : n.at <= instant}
IsCurrent(n) ==
  /\ n.item \in DOMAIN entries
  /\ ~entries[n.item].paused /\ entries[n.item].generation = n.generation

TickStarts ==
  /\ sched.at = "select" /\ DueAt(now) # {}
  /\ sched' = [at |-> "ticking", now |-> now]
  /\ UNCHANGED <<now, slot, handle, caller, commands, entries, heap, calls, ghostVars>>

PopStale(n) ==
  /\ sched.at = "ticking" /\ n \in DueAt(sched.now) /\ ~IsCurrent(n)
  /\ heap' = heap \ {n}
  /\ UNCHANGED <<now, slot, handle, caller, commands, entries, sched, calls, ghostVars>>

LateTicks(entry) == (sched.now - entry.next) \div entry.period
Wanted(entry) == IF entry.overrun = "Burst" THEN LateTicks(entry) + 1 ELSE 1
Sends(entry) == Min({Wanted(entry), MaxBurst})

\* Mutant of Omitted: what lies beyond the burst is not counted.
OmittedBySkip(entry) == IF entry.overrun = "Burst" THEN 0 ELSE LateTicks(entry)

\* Skipped without an attempt: beyond the burst, or late under Skip.
Omitted(entry) ==
  IF entry.overrun = "Burst" THEN Wanted(entry) - Sends(entry) ELSE LateTicks(entry)

\* The queue takes `accepted` of the sends, the link being connected.
SentToTheEnd(entry, accepted) == [entry EXCEPT !.remaining = @ - accepted]  \* mutant of Sent
Sent(entry, accepted) ==
  IF entry.remaining = Forever THEN entry ELSE [entry EXCEPT !.remaining = @ - accepted]
AdvancedFromNow(entry) == [entry EXCEPT !.next = sched.now + entry.period]  \* mutant of Advanced

\* Over the late ticks, by u32::MAX periods at the most.
Ahead(entry) == entry.next + Min({LateTicks(entry) + 1, CountMax}) * entry.period
Overflows(entry) == Ahead(entry) > LastInstant

\* Past the last instant an entry is phased anew, if need be with what is now.
Advanced(entry) ==
  [entry EXCEPT !.next =
    IF ~Overflows(entry) THEN Ahead(entry)
    ELSE IF now + entry.period <= LastInstant THEN now + entry.period ELSE now]

PopDue(n) ==
  /\ sched.at = "ticking" /\ n \in DueAt(sched.now) /\ IsCurrent(n)
  /\ LET i == n.item
         entry == entries[i]
     IN  \/ \E accepted \in 0..Sends(entry) :
              /\ entry.remaining # Forever => accepted < entry.remaining
              /\ entries' = With(i, Advanced(Sent(entry, accepted)))
              /\ heap' = (heap \ {n}) \cup {Node(i, Advanced(entry))}
              /\ IF Overflows(entry)
                 THEN Phased(i, Advanced(entry).next, entry.period,
                             Omitted(entry) + Sends(entry))
                 ELSE /\ uncounted' = [uncounted EXCEPT
                                        ![i] = @ - Omitted(entry) - Sends(entry)]
                      /\ UNCHANGED <<phase, stalled>>
         \/ /\ entry.remaining # Forever /\ entry.remaining <= Sends(entry)
            /\ entries' = Without(i)
            /\ heap' = heap \ {n}
            /\ Forget(i)
  /\ UNCHANGED <<now, slot, handle, caller, commands, sched, calls>>

TickEnds ==
  /\ sched.at = "ticking" /\ DueAt(sched.now) = {}
  /\ Loop(heap, entries)
  /\ UNCHANGED <<now, slot, handle, caller, commands, calls, ghostVars>>

------------------------------------------------------------------------------
CallNext ==
  \E c \in Callers, i \in Items :
    \/ SetFrame(c, i) \/ PushTrigger(c, i) \/ TriggerSkipped(c, i)
    \/ \E period \in Periods : SetPeriod(c, i, period)
    \/ \E paused \in {"yes", "no"} : SetPaused(c, i, paused)

HandleNext ==
  \E i \in Items :
    \/ \E config \in Configs : Schedule(i, config)
    \/ StopCall(i) \/ Dropped(i) \/ Detached(i) \/ StopCancelled(i)

CommandNext ==
  TakeAdd \/ AddPanics \/ TakeUpdate \/ TakeStop \/ TakeClose
  \/ ClearFlag \/ TakeState \/ TakeTriggers \/ UpdatePanics
TickNext == TickStarts \/ TickEnds \/ \E n \in heap : PopStale(n) \/ PopDue(n)
WakeNext(c) == Wake(c) \/ SendWake(c)

CyclicNext ==
  \/ CallNext \/ HandleNext \/ CloseLink \/ Elapse
  \/ \E c \in Callers : WakeNext(c)
  \/ CommandNext \/ TickNext

CyclicSpec == CyclicInit /\ [][CyclicNext]_cyclicVars

\* A call goes on to its end; the scheduler's task is polled whenever one
\* of the branches of its select is ready.
FairCyclicSpec ==
  /\ CyclicSpec
  /\ \A c \in Callers : WF_cyclicVars(WakeNext(c))
  /\ WF_cyclicVars(CommandNext) /\ WF_cyclicVars(TickNext)

------------------------------------------------------------------------------
(* What must hold.                                                         *)

\* The table of bounds (concepts.md:96-112): the channel is unbounded, and
\* yet holds at most three commands of each item of the budget, among them
\* AddSlots of Add.
CommandsAreBounded ==
  /\ Cardinality(Queued(ItemKinds)) <= 3 * Capacity
  /\ Cardinality(Queued({"Add"})) <= AddSlots
  /\ \A i \in Items : Cardinality({k \in Queued({"ApplyUpdate"}) : commands[k].item = i}) <= 1

\* Every variable keeps its range, and the command channel its bound.
CyclicTypeOK ==
  /\ CommandsAreBounded
  /\ now \in 0..MaxTime /\ calls \in 0..MaxCalls
  /\ slot \in [Items -> Slots]
  /\ handle \in [Items -> {"none", "held", "waiting", "stopped", "gone"}]
  /\ caller \in [Callers -> {Idle} \cup [at : {"wake", "send"}, item : Items]]
  /\ \A k \in 1..Len(commands) :
       commands[k] \in {Close} \cup {ApplyUpdate(i) : i \in Items}
                      \cup {Stop(i, reply) : i \in Items, reply \in BOOLEAN}
                      \cup {Add(i, config) : i \in Items, config \in Configs}
  /\ DOMAIN entries \subseteq Items
  /\ \A i \in DOMAIN entries :
       entries[i] \in [frame : Nat, period : Periods, next : Nat, paused : BOOLEAN,
                       remaining : Nat, generation : Nat, overrun : {"Skip", "Burst"}]
  /\ heap \subseteq [at : Nat, item : Items, generation : Nat]
  /\ sched \in {Selecting, [at |-> "ended"]}
              \cup [at : {"received", "cleared"}, item : Items]
              \cup [at : {"taken"}, item : Items, frame : Nat,
                    period : {Unset} \cup Periods, paused : {"unset", "yes", "no"}]
              \cup [at : {"ticking"}, now : 0..MaxTime]
  /\ phase \in [Items -> Nat] /\ uncounted \in [Items -> Int] /\ stalled \in BOOLEAN

Held(i) == sched.at \in {"received", "cleared", "taken"} /\ sched.item = i

\* A value of the slot the entry has not got, as long as there is an entry
\* or one is on its way.
StatePending(i) ==
  \/ slot[i].period # Unset \/ slot[i].paused # "unset"
  \/ i \in DOMAIN entries /\ slot[i].frame # entries[i].frame
        /\ ~(Held(i) /\ sched.at = "taken" /\ sched.frame = slot[i].frame)
Pending(i) == StatePending(i) \/ slot[i].triggers > 0

\* Something is under way that will make the scheduler read the slot.
Escorted(i) ==
  \/ \E k \in Queued({"ApplyUpdate"}) : commands[k].item = i
  \/ Using(i) # {}
  \/ sched.at \in {"received", "cleared"} /\ sched.item = i

\* wake and take (cyclic.rs:314-319): no value is ever left in the slot
\* without a command, a caller or the scheduler that will see it. While the
\* scheduler holds a taken state, the triggers it has still to take are
\* escorted by it.
UpdateIsEscorted ==
  \A i \in Items :
    ~Ended /\ i \in DOMAIN entries =>
      /\ StatePending(i) => Escorted(i)
      /\ slot[i].triggers > 0 => Escorted(i) \/ Held(i)

\* The phase of an entry survives stalls, bursts and triggers: its due time
\* stays a whole number of periods after the one it was phased with.
PhaseIsKept == \A i \in Running : IsTick(i, entries[i].next)

\* compact_heap (cyclic.rs:584-585): an entry that runs has one node that is its own,
\* its next due time, whatever was paused, resumed, phased anew or swept away.
EntriesStayDue ==
  \A i \in DOMAIN entries : ~entries[i].paused =>
    {n \in heap : n.item = i /\ IsCurrent(n)} = {Node(i, entries[i])}

\* An entry that runs is due again, on its phase, however it was updated and however
\* late the scheduler was.
DeadlinesAreKept == PhaseIsKept /\ EntriesStayDue

\* CyclicStats (cyclic.rs:700-744): as long as an entry lives, each instant of its phase
\* that the clock has reached while it ran and each trigger called for is sent or
\* skipped, or is still to be: late, beyond the burst or refused by the queue, none is
\* passed over. None is counted twice either, unless an entry was once left behind by more
\* than u32::MAX ticks: it advances by no more, and counts the others again (cyclic.rs:746).
\* The ticks that are outstanding when an update takes the node of the entry away
\* (cyclic.rs:655-676) are counted by nobody and leave the sum.
EverythingIsCounted ==
  \A i \in DOMAIN entries :
    LET remain == slot[i].triggers + Outstanding(i)
    IN  uncounted[i] <= remain /\ (~stalled => uncounted[i] = remain)

\* A value written is read, or its entry ends.
UpdatesAreApplied ==
  \A i \in Items : (i \in DOMAIN entries /\ Pending(i)) ~> (i \notin DOMAIN entries \/ ~Pending(i))

\* stop() returns.
StopReturns == \A i \in Items : handle[i] = "waiting" ~> handle[i] # "waiting"

\* cyclic.rs 302-425: what is asked of a handle is done in the end, however often it
\* is asked meanwhile, and whether the entry runs, completes, is paused or is told to stop.
CallsTakeEffect == UpdatesAreApplied /\ StopReturns
==============================================================================
