---------------------------- MODULE CyclicProofs ----------------------------
(***************************************************************************)
(* Proofs about cyclic transmission, for every number of callers, items    *)
(* and calls, every budget of commands, every configuration of an entry    *)
(* and every stretch of time.                                              *)
(***************************************************************************)
EXTENDS CyclicScheduler, SequenceTheorems, FunctionTheorems, FiniteSetTheorems, TLAPS

(* The inductive invariant, part by part.                                  *)

\* An Add of the item is in the channel: its entry is on its way.
Coming(i) == \E k \in Queued({"Add"}) : commands[k].item = i

Orders == [kind : {"Add"}, item : Items, config : Configs]
          \cup [kind : {"ApplyUpdate"}, item : Items]
          \cup [kind : {"Stop"}, item : Items, reply : BOOLEAN]
Commands == Orders \cup [kind : {"Close"}]

Entries == [frame : Nat, period : Periods, next : Nat, paused : BOOLEAN,
            remaining : Nat, generation : Nat, overrun : {"Skip", "Burst"}]
Callings == [at : {"wake", "send"}, item : Items]
TakenStates == [at : {"taken"}, item : Items, frame : Nat,
                period : {Unset} \cup Periods, paused : {"unset", "yes", "no"}]
Nodes == [at : Nat, item : Items, generation : Nat]

\* The types of the variables, but for the bound of the channel.
HandleShape ==
  /\ now \in 0..MaxTime /\ calls \in 0..MaxCalls
  /\ slot \in [Items -> Slots]
  /\ handle \in [Items -> {"none", "held", "waiting", "stopped", "gone"}]
  /\ caller \in [Callers -> {Idle} \cup Callings]
  /\ commands \in Seq(Commands)

SchedShape ==
  /\ DOMAIN entries \subseteq Items
  /\ \A i \in DOMAIN entries : entries[i] \in Entries
  /\ heap \subseteq Nodes
  /\ sched \in {Selecting, [at |-> "ended"]} \cup [at : {"received", "cleared"}, item : Items]
               \cup TakenStates \cup [at : {"ticking"}, now : 0..MaxTime]

GhostShape ==
  phase \in [Items -> Nat] /\ uncounted \in [Items -> Int] /\ stalled \in BOOLEAN

\* What the scheduler holds an update of is an entry; nothing outlives its end.
LiveInv ==
  /\ \A i \in Items : Held(i) => i \in DOMAIN entries
  /\ Ended => commands = <<>> /\ DOMAIN entries = {} /\ heap = {}

\* The life of an item: nothing of it before its Add, and no entry before the Add
\* is taken; nobody calls on a handle that has been given up.
LifeInv ==
  \A i \in Items :
    /\ handle[i] = "none" => /\ \A k \in Queued(ItemKinds) : commands[k].item # i
                             /\ slot[i] = EmptySlot /\ uncounted[i] = 0
    /\ handle[i] = "none" \/ Coming(i) => /\ i \notin DOMAIN entries
                                          /\ \A n \in heap : n.item # i
    /\ handle[i] # "held" => Using(i) = {}

\* The channel is in order: the Add of an item comes first and once, its Stop comes
\* once, after the handle was given up.
OrderInv ==
  /\ \A j \in Queued({"Add"}), k \in Queued(ItemKinds) :
       commands[k].item = commands[j].item => j <= k
  /\ \A j, k \in Queued({"Stop"}) : commands[k].item = commands[j].item => j = k
  /\ \A k \in Queued({"Stop"}) : handle[commands[k].item] \in {"waiting", "gone"}

\* A wake-up of an item: a caller about to send it, the command in the channel, or the
\* scheduler that has received it.
Sender(c, i) == caller[c].at = "send" /\ caller[c].item = i
InChannel(i) == \E k \in Queued({"ApplyUpdate"}) : commands[k].item = i
Received(i)  == sched.at = "received" /\ sched.item = i
Carried(i)   == InChannel(i) \/ (\E c \in Callers : Sender(c, i)) \/ Received(i)

OnceInChannel(i) ==
  \A j, k \in Queued({"ApplyUpdate"}) :
    commands[j].item = i /\ commands[k].item = i => j = k

OneWakeUp(i) ==
  /\ OnceInChannel(i)
  /\ \A c, d \in Callers : Sender(c, i) /\ Sender(d, i) => c = d
  /\ InChannel(i) => \A c \in Callers : ~Sender(c, i)
  /\ Received(i) => ~InChannel(i) /\ \A c \in Callers : ~Sender(c, i)

\* The flag of a slot stands for one wake-up and no more.
FlagHolds(i) == OneWakeUp(i) /\ (Carried(i) => slot[i].queued)
FlagInv == ~Ended => \A i \in Items : FlagHolds(i)

\* The frame the entry has, or will have when its Add is taken.
FrameOf(i) == IF i \in DOMAIN entries THEN entries[i].frame ELSE 0
FrameTaken(i) == IF Held(i) /\ sched.at = "taken" THEN sched.frame ELSE FrameOf(i)

\* What the flag promises is under way, and so is what a value in the slot needs, also
\* before the entry is there.
Alive(i) == i \in DOMAIN entries \/ Coming(i)

WellEscorted(i) ==
  /\ slot[i].queued => Carried(i)
  /\ slot[i].period # Unset \/ slot[i].paused # "unset" => Escorted(i)
  /\ slot[i].frame # FrameTaken(i) => Escorted(i)
  /\ slot[i].triggers > 0 => Escorted(i) \/ Held(i)

EscortInv == ~Ended => \A i \in Items : Alive(i) => WellEscorted(i)

\* A node of the heap is out of date, or it is the entry's next due time.
NodeInv ==
  \A n \in heap : n.item \in DOMAIN entries =>
    /\ n.generation <= entries[n.item].generation
    /\ n.generation = entries[n.item].generation => n.at = entries[n.item].next

\* A tick is over no later than now.
TickInv == sched.at = "ticking" => sched.now <= now

\* An entry that runs is on its phase, and no more than one tick ahead of the clock,
\* unless it has not been due yet.
OnPhase(i) ==
  /\ IsTick(i, entries[i].next)
  /\ entries[i].next = phase[i] \/ entries[i].next - entries[i].period <= now
PhaseInv == \A i \in Running : OnPhase(i)

StallInv == ~stalled => \A i \in Running : Outstanding(i) <= CountMax

\* What is yet to be counted of an item, before and while it has an entry.
Ticks(i) == IF i \in DOMAIN entries THEN Outstanding(i) ELSE 0
Counted(i) ==
  /\ uncounted[i] <= slot[i].triggers + Ticks(i)
  /\ ~stalled => uncounted[i] = slot[i].triggers + Ticks(i)
CountInv == \A i \in Items : Alive(i) => Counted(i)

\* The budget: the items that hold a lease, and the commands of Add.
BudgetInv ==
  /\ Cardinality({i \in Items : Leased(i)}) <= Capacity
  /\ Cardinality(Queued({"Add"})) <= AddSlots

CyclicInv ==
  /\ HandleShape /\ SchedShape /\ GhostShape
  /\ LiveInv /\ LifeInv /\ OrderInv /\ FlagInv /\ EscortInv
  /\ NodeInv /\ TickInv /\ PhaseInv /\ StallInv /\ CountInv /\ BudgetInv

(* Lemmas about periods. A due time is a whole number of periods after     *)
(* another one, so both leave the same remainder.                          *)

\* A period divides an instant with one remainder and one quotient.
LEMMA Division ==
  ASSUME NEW a \in Nat, NEW p \in Nat \ {0}
  PROVE  a % p \in 0..(p - 1) /\ a \div p \in Nat /\ a = p * (a \div p) + (a % p)
  OBVIOUS

LEMMA OneRemainder ==
  ASSUME NEW p \in Nat \ {0}, NEW q \in Int, NEW r \in 0..(p - 1),
         NEW u \in Int, NEW s \in 0..(p - 1), p * q + r = p * u + s
  PROVE  r = s
  OBVIOUS

LEMMA OneQuotient ==
  ASSUME NEW p \in Nat \ {0}, NEW q \in Int, NEW u \in Int, p * q = p * u
  PROVE  q = u
  OBVIOUS

LEMMA Divided ==
  ASSUME NEW a \in Nat, NEW p \in Nat \ {0}, NEW q \in Int, NEW r \in 0..(p - 1), a = p * q + r
  PROVE  a \div p = q /\ a % p = r
<1> DEFINE u == a \div p
           s == a % p
<1>1. u \in Int /\ s \in 0..(p - 1) /\ a = p * u + s
  BY Division
<1> HIDE DEF u, s
<1>2. s = r
  BY <1>1, OneRemainder
<1>3. p * u = p * q
  <2>1. p * u \in Int /\ p * q \in Int
    BY <1>1
  <2> QED
    BY <1>1, <1>2, <2>1
<1>4. u = q
  BY <1>1, <1>3, OneQuotient
<1> QED
  BY <1>2, <1>4 DEF u, s

\* Whole periods later the quotient has grown by them and the remainder is what it was.
LEMMA PeriodsLater ==
  ASSUME NEW a \in Nat, NEW k \in Nat, NEW p \in Nat \ {0}
  PROVE  /\ k * p \in Nat /\ (a + k * p) \in Nat
         /\ (a + k * p) % p = a % p /\ (a + k * p) \div p = (a \div p) + k
<1> DEFINE q == a \div p
           r == a % p
<1>1. q \in Nat /\ r \in 0..(p - 1) /\ a = p * q + r
  BY Division
<1> HIDE DEF q, r
<1>2. k * p \in Nat /\ (a + k * p) \in Nat
  OBVIOUS
<1>3. a + k * p = p * (q + k) + r
  <2>1. p * (q + k) = p * q + k * p
    BY <1>1
  <2>2. p * q \in Int
    BY <1>1
  <2> QED
    BY <1>1, <1>2, <2>1, <2>2
<1>4. q + k \in Int
  BY <1>1
<1>5. (a + k * p) \div p = q + k /\ (a + k * p) % p = r
  <2> DEFINE b == a + k * p
             g == q + k
  <2>1. b \in Nat /\ g \in Int /\ b = p * g + r
    BY <1>2, <1>3, <1>4
  <2> HIDE DEF b, g
  <2>2. b \div p = g /\ b % p = r
    BY <1>1, <2>1, Divided
  <2> QED
    BY <2>2 DEF b, g
<1> QED
  BY <1>2, <1>5 DEF q, r

\* One later: either the remainder grows, or a period is full.
LEMMA OneLater ==
  ASSUME NEW a \in Nat, NEW p \in Nat \ {0}
  PROVE  /\ (a + 1) % p = 0 => (a + 1) \div p = (a \div p) + 1
         /\ (a + 1) % p # 0 => (a + 1) \div p = a \div p
<1> DEFINE q == a \div p
           r == a % p
<1>1. q \in Nat /\ r \in 0..(p - 1) /\ a = p * q + r
  BY Division
<1> HIDE DEF q, r
<1>2. CASE r = p - 1
  <2>1. a + 1 = p * (q + 1) + 0
    <3>1. p * (q + 1) = p * q + p
      BY <1>1
    <3>2. p * q \in Int
      BY <1>1
    <3> QED
      BY <1>1, <1>2, <3>1, <3>2
  <2>2. q + 1 \in Int /\ 0 \in 0..(p - 1) /\ a + 1 \in Nat
    BY <1>1
  <2>3. (a + 1) \div p = q + 1 /\ (a + 1) % p = 0
    BY <2>1, <2>2, Divided
  <2> QED
    BY <2>3 DEF q
<1>3. CASE r # p - 1
  <2>1. p * q \in Int /\ r + 1 \in 0..(p - 1) /\ r + 1 # 0 /\ q \in Int /\ a + 1 \in Nat
    BY <1>1, <1>3
  <2>2. a + 1 = p * q + (r + 1)
    BY <1>1, <2>1
  <2>3. (a + 1) \div p = q /\ (a + 1) % p = r + 1
    <3> DEFINE b == a + 1
               s == r + 1
    <3>1. b \in Nat /\ s \in 0..(p - 1) /\ b = p * q + s
      BY <2>1, <2>2
    <3> HIDE DEF b, s
    <3>2. b \div p = q /\ b % p = s
      BY <2>1, <3>1, Divided
    <3> QED
      BY <3>2 DEF b, s
  <2> QED
    BY <2>1, <2>3 DEF q
<1> QED
  BY <1>2, <1>3

(* Lemmas about the ticks of an entry that have come.                      *)

LEMMA TickCounts ==
  ASSUME NEW t \in Nat, NEW next \in Nat, NEW p \in Nat \ {0}
  PROVE  /\ TicksBy(t, next, p) \in Nat
         /\ t < next <=> TicksBy(t, next, p) = 0
         /\ next <= t => (t - next) \div p \in Nat /\ TicksBy(t, next, p) = ((t - next) \div p) + 1
<1>1. CASE t < next
  BY <1>1 DEF TicksBy
<1>2. CASE next <= t
  <2> DEFINE d == t - next
  <2>1. d \in Nat
    BY <1>2
  <2> HIDE DEF d
  <2>2. d \div p \in Nat
    BY <2>1, Division
  <2> QED
    BY <1>2, <2>2 DEF d, TicksBy
<1> QED
  BY <1>1, <1>2

\* k of the ticks that have come are passed.
LEMMA TicksPassed ==
  ASSUME NEW t \in Nat, NEW next \in Nat, NEW p \in Nat \ {0}, NEW k \in Nat \ {0},
         k <= TicksBy(t, next, p)
  PROVE  /\ next + k * p \in Nat /\ next + k * p - p <= t
         /\ TicksBy(t, next + k * p, p) = TicksBy(t, next, p) - k
<1> DEFINE d == t - next
           q == d \div p
           r == d % p
           m == k * p
<1>1. next <= t /\ q \in Nat /\ TicksBy(t, next, p) = q + 1
  <2>1. TicksBy(t, next, p) # 0
    BY TickCounts
  <2>2. next <= t
    BY <2>1, TickCounts
  <2> QED
    BY <2>2, TickCounts
<1>2. d \in Nat /\ q \in Nat /\ r \in 0..(p - 1) /\ d = p * q + r /\ t = next + d
  <2>1. d \in Nat
    BY <1>1
  <2> HIDE DEF d
  <2>2. q \in Nat /\ r \in 0..(p - 1) /\ d = p * q + r
    BY <2>1, Division
  <2> QED
    BY <2>1, <2>2 DEF d
<1> HIDE DEF d, q, r
<1>3. m \in Nat /\ k <= q + 1
  BY <1>1
<1>4. m - p <= p * q
  <2>1. k - 1 \in Nat /\ k - 1 <= q
    BY <1>1, <1>3
  <2>2. (k - 1) * p <= q * p
    BY <1>2, <2>1
  <2>3. (k - 1) * p = m - p /\ q * p = p * q
    BY <1>2
  <2> QED
    BY <2>2, <2>3
<1>5. next + m - p <= t
  <2>1. p * q \in Nat
    BY <1>2
  <2> HIDE DEF m
  <2> QED
    BY <1>2, <1>3, <1>4, <2>1
<1>6. CASE k <= q
  <2>1. q - k \in Nat
    BY <1>2, <1>6
  <2>2. d - m = p * (q - k) + r
    <3>1. p * (q - k) = p * q - k * p
      BY <1>2
    <3>2. p * q \in Int
      BY <1>2
    <3> QED
      BY <1>2, <3>1, <3>2
  <2>3. p * (q - k) \in Nat
    BY <2>1
  <2>4. d - m \in Nat
    BY <1>2, <2>2, <2>3
  <2>5. (d - m) \div p = q - k
    <3> DEFINE b == d - m
               g == q - k
    <3>1. b \in Nat /\ g \in Int /\ b = p * g + r
      BY <2>1, <2>2, <2>4
    <3> HIDE DEF b, g
    <3>2. b \div p = g
      BY <1>2, <3>1, Divided
    <3> QED
      BY <3>2 DEF b, g
  <2>6. t - (next + m) = d - m /\ ~(t < next + m)
    <3> HIDE DEF m
    <3> QED
      BY <1>2, <1>3, <2>4
  <2>7. TicksBy(t, next + m, p) = (q - k) + 1
    BY <2>5, <2>6 DEF TicksBy
  <2> QED
    BY <1>1, <1>2, <1>3, <1>5, <2>7
<1>7. CASE k = q + 1
  <2>1. m = p * q + p /\ p * q \in Nat
    BY <1>2, <1>7
  <2>2. t < next + m
    <3> HIDE DEF m
    <3> QED
      BY <1>2, <2>1
  <2>3. TicksBy(t, next + m, p) = 0
    BY <2>2 DEF TicksBy
  <2> QED
    BY <1>1, <1>2, <1>3, <1>5, <1>7, <2>3
<1> QED
  BY <1>2, <1>3, <1>6, <1>7

\* An instant is a whole number of periods after the one an entry was phased with.
Stands(instant, from, p) == from <= instant /\ (instant - from) % p = 0

\* The clock goes on to u; the entry is due c after the instant it was phased with, and u
\* comes b after it. A tick more has come if b is a whole number of periods.
LEMMA TickComes ==
  ASSUME NEW t \in Nat, NEW u \in Nat, u = t + 1, NEW from \in Nat, NEW next \in Nat,
         NEW p \in Nat \ {0}, Stands(next, from, p), next = from \/ next - p <= t
  PROVE  /\ Stands(u, from, p) => TicksBy(u, next, p) = TicksBy(t, next, p) + 1
         /\ ~Stands(u, from, p) => TicksBy(u, next, p) = TicksBy(t, next, p)
<1> DEFINE c == next - from
           b == u - from
           k == c \div p
           Tick == 0 <= b /\ b % p = 0
<1>5. c \in Nat /\ next = from + c /\ c % p = 0
  BY DEF Stands
<1>6. b \in Int /\ t + 1 = from + b
  OBVIOUS
<1>7. Stands(u, from, p) <=> Tick
  <2>1. from <= u <=> 0 <= b
    OBVIOUS
  <2> QED
    BY <2>1 DEF Stands
<1> HIDE DEF c, b, Tick
<1>8. SUFFICES /\ Tick => TicksBy(u, next, p) = TicksBy(t, next, p) + 1
               /\ ~Tick => TicksBy(u, next, p) = TicksBy(t, next, p)
  BY <1>7
<1> USE DEF Tick
<1> USE <1>5, <1>6
<1>1. k \in Nat /\ c = k * p
  <2>1. k \in Nat /\ c = p * k + (c % p)
    BY Division
  <2>2. c % p = 0
    OBVIOUS
  <2> HIDE DEF k
  <2>3. c = p * k + 0
    BY <2>1, <2>2
  <2> QED
    BY <2>1, <2>3
<1> HIDE DEF k
<1>2. CASE u < next
  <2>1. ~Tick
    <3> SUFFICES ASSUME Tick PROVE FALSE
      OBVIOUS
    <3> DEFINE g == b \div p
    <3>1. next - p <= t
      BY <1>2
    <3>2. b \in Nat /\ b % p = 0
      OBVIOUS
    <3>3. g \in Nat /\ b = g * p
      <4>1. g \in Nat /\ b = p * g + (b % p)
        BY <3>2, Division
      <4> HIDE DEF g
      <4> QED
        BY <3>2, <4>1
    <3> HIDE DEF g
    <3>4. b < c /\ c - p < b
      BY <1>2, <3>1
    <3>5. g < k
      <4> SUFFICES ASSUME k <= g PROVE FALSE
        BY <1>1, <3>3
      <4>1. k * p <= g * p
        BY <1>1, <3>3
      <4> QED
        BY <1>1, <3>2, <3>3, <3>4, <4>1
    <3>6. g + 1 <= k
      BY <1>1, <3>3, <3>5
    <3>7. (g + 1) * p <= k * p
      BY <1>1, <3>3, <3>6
    <3>8. (g + 1) * p = g * p + p
      BY <3>3
    <3> QED
      BY <1>1, <3>2, <3>3, <3>4, <3>7, <3>8
  <2>2. TicksBy(u, next, p) = 0 /\ TicksBy(t, next, p) = 0
    BY <1>2 DEF TicksBy
  <2> QED
    BY <2>1, <2>2
<1>3. CASE u = next
  <2>1. Tick
    BY <1>3
  <2>2. TicksBy(t, next, p) = 0
    BY <1>3 DEF TicksBy
  <2>3. TicksBy(u, next, p) = 1
    <3>1. u - next = 0 /\ ~(u < next)
      BY <1>3
    <3>2. 0 \div p = 0
      OBVIOUS
    <3> QED
      BY <3>1, <3>2 DEF TicksBy
  <2> QED
    BY <2>1, <2>2, <2>3
<1>4. CASE next <= t
  <2> DEFINE d == t - next
  <2>1. d \in Nat /\ t = next + d
    BY <1>4
  <2> HIDE DEF d
  <2>2. b = (d + 1) + k * p /\ 0 <= b
    BY <1>1, <2>1
  <2>3. Tick <=> (d + 1) % p = 0
    <3> DEFINE e == d + 1
    <3>1. e \in Nat
      BY <2>1
    <3> HIDE DEF e
    <3>2. (e + k * p) % p = e % p
      <4>1. k \in Nat
        BY <1>1
      <4> QED
        BY ONLY <3>1, <4>1, p \in Nat \ {0}, PeriodsLater
    <3> QED
      BY <2>2, <3>2 DEF e
  <2>4. /\ TicksBy(t, next, p) = (d \div p) + 1
        /\ TicksBy(u, next, p) = ((d + 1) \div p) + 1
    <3>1. t - next = d /\ u - next = d + 1 /\ ~(t < next) /\ ~(u < next)
      BY <2>1
    <3> QED
      BY <3>1 DEF TicksBy
  <2>5. d \div p \in Nat
    BY <2>1, Division
  <2>6. /\ (d + 1) % p = 0 => (d + 1) \div p = (d \div p) + 1
        /\ (d + 1) % p # 0 => (d + 1) \div p = d \div p
    BY <2>1, OneLater
  <2> HIDE DEF Tick
  <2>7. Tick => TicksBy(u, next, p) = TicksBy(t, next, p) + 1
    BY <2>3, <2>4, <2>5, <2>6
  <2>8. ~Tick => TicksBy(u, next, p) = TicksBy(t, next, p)
    BY <2>3, <2>4, <2>5, <2>6
  <2> QED
    BY <2>7, <2>8
<1> QED
  BY <1>2, <1>3, <1>4

\* Later on no fewer ticks have come.
LEMMA TicksGrow ==
  ASSUME NEW s \in Nat, NEW t \in Nat, NEW next \in Nat, NEW p \in Nat \ {0}, s <= t
  PROVE  TicksBy(s, next, p) <= TicksBy(t, next, p)
<1>1. CASE s < next
  BY <1>1, TickCounts
<1>2. CASE next <= s
  <2> DEFINE a == s - next
             b == t - next
  <2>1. a \in Nat /\ b \in Nat /\ a <= b
    BY <1>2
  <2> HIDE DEF a, b
  <2>2. a \div p <= b \div p
    <3> DEFINE q == a \div p
               u == b \div p
    <3>1. q \in Nat /\ u \in Nat /\ p * q <= a /\ b < p * u + p
      <4>1. /\ q \in Nat /\ a % p \in 0..(p - 1) /\ a = p * q + (a % p)
            /\ u \in Nat /\ b % p \in 0..(p - 1) /\ b = p * u + (b % p)
        BY <2>1, Division
      <4> HIDE DEF q, u
      <4>2. p * q \in Nat /\ p * u \in Nat
        BY <4>1
      <4> QED
        BY <2>1, <4>1, <4>2
    <3> HIDE DEF q, u
    <3> SUFFICES ASSUME u < q PROVE FALSE
      BY <3>1 DEF q, u
    <3>2. u + 1 <= q
      BY <3>1
    <3>3. p * (u + 1) <= p * q
      BY <3>1, <3>2
    <3>4. p * (u + 1) = p * u + p
      BY <3>1
    <3>5. p * u \in Nat /\ p * q \in Nat
      BY <3>1
    <3> QED
      BY <2>1, <3>1, <3>3, <3>4, <3>5
  <2>3. a \div p \in Nat /\ b \div p \in Nat
    BY <2>1, Division
  <2> QED
    BY <1>2, <2>2, <2>3 DEF a, b, TicksBy
<1> QED
  BY <1>1, <1>2
(* What the actions do to the channel.                                     *)

Grown(command) ==
  /\ commands' \in Seq(Commands)
  /\ Len(commands) \in Nat /\ Len(commands') = Len(commands) + 1
  /\ \A k \in 1..Len(commands) : commands'[k] = commands[k]
  /\ commands'[Len(commands) + 1] = command

Shrunk ==
  /\ commands' \in Seq(Commands) /\ Head(commands) = commands[1]
  /\ Len(commands') \in Nat /\ Len(commands) = Len(commands') + 1
  /\ \A k \in 1..Len(commands') : commands'[k] = commands[k + 1]

LEMMA CommandKinds ==
  ASSUME NEW i \in Items, NEW config \in Configs, NEW reply \in BOOLEAN
  PROVE  /\ Add(i, config) \in Commands /\ Stop(i, reply) \in Commands
         /\ ApplyUpdate(i) \in Commands /\ Close \in Commands
  BY DEF Add, Stop, ApplyUpdate, Close, Commands, Orders

LEMMA Sending ==
  ASSUME commands \in Seq(Commands), NEW command \in Commands, Send(command)
  PROVE  IF Ended THEN UNCHANGED commands ELSE Grown(command)
  BY AppendProperties, LenProperties DEF Send, Grown

LEMMA Taking ==
  ASSUME commands \in Seq(Commands), commands # <<>>, commands' = Tail(commands)
  PROVE  Shrunk /\ Head(commands) \in Commands
  BY HeadTailProperties, LenProperties, EmptySeq DEF Shrunk

(* What the steps do to the entries, action by action.                     *)

OutsideNext ==
  CallNext \/ HandleNext \/ CloseLink \/ Elapse \/ \E c \in Callers : WakeNext(c)

\* The application and the supervisor reach the scheduler by its channel only.
LEMMA OutsideEffects ==
  ASSUME OutsideNext
  PROVE  UNCHANGED <<entries, heap, sched, phase>>
  BY DEF OutsideNext, CallNext, HandleNext, CloseLink, Elapse, WakeNext, SetFrame, SetPeriod,
     SetPaused, PushTrigger, TriggerSkipped, Writes, Schedule, StopCall, Dropped, Detached,
     Leaves, StopCancelled, Wake, SendWake, ghostVars

\* A node of the heap was there before, or it is the next due time of an entry.
HeapRenewed ==
  \A m \in heap' : m \in heap \/ \E j \in DOMAIN entries' : m = Node(j, entries'[j])

LEMMA LoopEffects ==
  ASSUME NEW nodes, NEW live, Loop(nodes, live),
         \A m \in nodes : m \in heap \/ \E j \in DOMAIN live : m = Node(j, live[j])
  PROVE  sched' = Selecting /\ entries' = live /\ HeapRenewed
<1>1. sched' = Selecting /\ entries' = live
  BY DEF Loop
<1>2. ASSUME NEW m \in heap'
      PROVE  m \in nodes \/ \E j \in DOMAIN live : m = Node(j, live[j])
  BY DEF Loop, Compact
<1> QED
  BY <1>1, <1>2 DEF HeapRenewed

LEMMA AddEffects ==
  ASSUME HandleShape, TakeAdd
  PROVE  \E i \in Items, e \in Entries :
           /\ Shrunk /\ commands # <<>> /\ commands[1].kind = "Add" /\ commands[1].item = i
           /\ e.frame = 0 /\ e.generation = 0 /\ ~e.paused /\ now <= e.next
           /\ sched.at = "select" /\ sched' = Selecting
           /\ entries' = With(i, e) /\ HeapRenewed
           /\ Loop(heap \cup {Node(i, e)}, With(i, e))
           /\ Phased(i, e.next, e.period, 0)
           /\ UNCHANGED <<now, slot, handle, caller, calls>>
<1> DEFINE i == Head(commands).item
           config == Head(commands).config
           e == NewEntry(config)
<1>1. /\ Shrunk /\ commands # <<>> /\ Head(commands) \in Commands
      /\ Head(commands) = commands[1] /\ Head(commands).kind = "Add"
  BY Taking DEF TakeAdd, Takes, HandleShape, Shrunk
<1>2. i \in Items /\ config \in Configs
  BY <1>1 DEF Commands, Orders
<1>3. e \in Entries /\ e.frame = 0 /\ e.generation = 0 /\ ~e.paused /\ now <= e.next
  <2>1. now \in Nat
    BY CyclicAssumption DEF HandleShape
  <2>2. /\ config.period \in Periods /\ config.delay \in Nat /\ config.repeat \in Nat
        /\ config.overrun \in {"Skip", "Burst"}
    BY <1>2, CyclicAssumption
  <2> HIDE DEF config
  <2> QED
    BY <2>1, <2>2 DEF NewEntry, Entries
<1>4. Loop(heap \cup {Node(i, e)}, With(i, e))
  BY DEF TakeAdd
<1>5. sched' = Selecting /\ entries' = With(i, e) /\ HeapRenewed
  <2> HIDE DEF i, e
  <2>1. i \in DOMAIN With(i, e) /\ With(i, e)[i] = e
    BY DEF With
  <2>2. \A m \in heap \cup {Node(i, e)} :
          m \in heap \/ \E j \in DOMAIN With(i, e) : m = Node(j, With(i, e)[j])
    BY <2>1
  <2> QED
    BY <1>4, <2>2, LoopEffects
<1>6. /\ Phased(i, e.next, e.period, 0) /\ sched.at = "select"
      /\ UNCHANGED <<now, slot, handle, caller, calls>>
  BY DEF TakeAdd, Takes
<1> HIDE DEF e
<1> QED
  BY <1>1, <1>2, <1>3, <1>4, <1>5, <1>6

LEMMA UpdateEffects ==
  ASSUME HandleShape, TakeUpdate
  PROVE  \E i \in Items :
           /\ Shrunk /\ commands # <<>>
           /\ commands[1].kind = "ApplyUpdate" /\ commands[1].item = i
           /\ sched.at = "select"
           /\ IF i \in DOMAIN entries THEN sched' = [at |-> "received", item |-> i]
                                      ELSE sched' = Selecting
           /\ entries' = entries /\ HeapRenewed
           /\ UNCHANGED heap \/ Loop(heap, entries)
           /\ UNCHANGED <<now, slot, handle, caller, calls, ghostVars>>
<1> DEFINE i == Head(commands).item
<1>1. /\ Shrunk /\ commands # <<>> /\ Head(commands) \in Commands
      /\ Head(commands) = commands[1] /\ Head(commands).kind = "ApplyUpdate"
  BY Taking DEF TakeUpdate, Takes, HandleShape, Shrunk
<1>2. i \in Items
  BY <1>1 DEF Commands, Orders
<1>3. sched.at = "select" /\ UNCHANGED <<now, slot, handle, caller, calls, ghostVars>>
  BY DEF TakeUpdate, Takes
<1>4. CASE i \in DOMAIN entries
  BY <1>1, <1>2, <1>3, <1>4 DEF TakeUpdate, HeapRenewed
<1>5. CASE i \notin DOMAIN entries
  <2>1. Loop(heap, entries)
    BY <1>5 DEF TakeUpdate
  <2>2. sched' = Selecting /\ entries' = entries /\ HeapRenewed
    BY <2>1, LoopEffects
  <2> QED
    BY <1>1, <1>2, <1>3, <1>5, <2>1, <2>2
<1> QED
  BY <1>4, <1>5

LEMMA StopEffects ==
  ASSUME HandleShape, TakeStop
  PROVE  \E i \in Items :
           /\ Shrunk /\ commands # <<>> /\ commands[1].kind = "Stop" /\ commands[1].item = i
           /\ sched.at = "select" /\ sched' = Selecting
           /\ entries' = Without(i) /\ HeapRenewed /\ Forget(i)
           /\ Loop(heap, Without(i))
           /\ \/ handle' = handle
              \/ handle[i] = "waiting" /\ handle' = [handle EXCEPT ![i] = "stopped"]
           /\ UNCHANGED <<now, slot, caller, calls>>
<1> DEFINE i == Head(commands).item
<1>1. /\ Shrunk /\ commands # <<>> /\ Head(commands) \in Commands
      /\ Head(commands) = commands[1] /\ Head(commands).kind = "Stop"
  BY Taking DEF TakeStop, Takes, HandleShape, Shrunk
<1>2. i \in Items
  BY <1>1 DEF Commands, Orders
<1>3. /\ sched.at = "select" /\ UNCHANGED <<now, slot, caller, calls>> /\ Forget(i)
      /\ \/ handle' = handle
         \/ handle[i] = "waiting" /\ handle' = [handle EXCEPT ![i] = "stopped"]
  BY DEF TakeStop, Takes
<1>4. Loop(heap, Without(i))
  BY DEF TakeStop
<1>5. sched' = Selecting /\ entries' = Without(i) /\ HeapRenewed
  BY <1>4, LoopEffects
<1> QED
  BY <1>1, <1>2, <1>3, <1>4, <1>5

\* The end of the scheduler, by a command or by a panic.
EndNext == TakeClose \/ AddPanics \/ UpdatePanics

LEMMA EndEffects ==
  ASSUME EndNext
  PROVE  SchedulerEnds /\ UNCHANGED <<now, caller, calls>>
  BY DEF EndNext, TakeClose, AddPanics, UpdatePanics, Takes

\* A merged update: what the scheduler holds of it is applied to the entry.
LEMMA TriggersEffects ==
  ASSUME HandleShape, SchedShape, GhostShape, LiveInv, TakeTriggers
  PROVE  \E i \in Items, e \in Entries :
           /\ sched \in TakenStates /\ sched.item = i /\ i \in DOMAIN entries
           /\ e.frame = sched.frame
           /\ IF Rephases(sched)
              THEN /\ e.generation = entries[i].generation + 1 /\ e.next = now + e.period
                   /\ Phased(i, e.next, e.period, slot[i].triggers + Outstanding(i))
              ELSE /\ e.next = entries[i].next /\ UNCHANGED <<phase, stalled>>
                   /\ \/ /\ e.paused /\ e.generation = entries[i].generation + 1
                         /\ uncounted' =
                              [uncounted EXCEPT ![i] = @ - slot[i].triggers - Outstanding(i)]
                      \/ /\ e.paused = entries[i].paused
                         /\ e.period = entries[i].period
                         /\ e.generation = entries[i].generation
                         /\ uncounted' = [uncounted EXCEPT ![i] = @ - slot[i].triggers - 0]
           /\ sched' = Selecting /\ entries' = With(i, e) /\ HeapRenewed
           /\ Loop(IF Rephases(sched) THEN heap \cup {Node(i, e)} ELSE heap, With(i, e))
           /\ slot' = [slot EXCEPT ![i].triggers = 0]
           /\ UNCHANGED <<now, handle, caller, commands, calls>>
<1> DEFINE i == sched.item
           e == Updated(entries[i], sched)
<1>1. sched \in TakenStates /\ i \in Items /\ i \in DOMAIN entries
  BY DEF TakeTriggers, SchedShape, TakenStates, Selecting, LiveInv, Held
<1>2. entries[i] \in Entries /\ sched.frame \in Nat /\ sched.period \in {Unset} \cup Periods
  BY <1>1 DEF SchedShape, TakenStates
<1>3. now \in Nat /\ Periods \subseteq Nat
  BY CyclicAssumption DEF HandleShape
<1>4. /\ e \in Entries /\ e.frame = sched.frame
      /\ Rephases(sched) => /\ e.generation = entries[i].generation + 1
                            /\ e.next = now + e.period /\ Invalidates(sched)
      /\ ~Rephases(sched) =>
           /\ e.next = entries[i].next
           /\ \/ e.paused /\ e.generation = entries[i].generation + 1 /\ Invalidates(sched)
              \/ /\ e.paused = entries[i].paused /\ e.period = entries[i].period
                 /\ e.generation = entries[i].generation /\ ~Invalidates(sched)
  <2> DEFINE entry == entries[i]
             period == IF sched.period = Unset THEN entry.period ELSE sched.period
             changed == Invalidates(sched)
  <2>1. period \in Periods
    BY <1>2 DEF Entries
  <2>2. entry \in Entries
    BY <1>2
  <2>3. e = [entry EXCEPT !.frame = sched.frame, !.period = period,
               !.paused = IF sched.paused = "unset" THEN @ ELSE sched.paused = "yes",
               !.next = IF Rephases(sched) THEN now + period ELSE @,
               !.generation = IF changed THEN @ + 1 ELSE @]
    BY DEF Updated
  <2>4. sched.paused \in {"unset", "yes", "no"}
    BY <1>1 DEF TakenStates
  <2>5. ~Rephases(sched) => \/ sched.paused = "yes"
                            \/ sched.paused = "unset" /\ sched.period = Unset
    BY <2>4 DEF Rephases
  <2>8. changed <=> Rephases(sched) \/ sched.paused = "yes"
    BY DEF Invalidates
  <2> DEFINE q == IF sched.paused = "unset" THEN entry.paused ELSE sched.paused = "yes"
             x == IF Rephases(sched) THEN now + period ELSE entry.next
             g == IF changed THEN entry.generation + 1 ELSE entry.generation
  <2>6. q \in BOOLEAN /\ x \in Nat /\ g \in Nat
    <3>1. entry.paused \in BOOLEAN /\ entry.next \in Nat /\ entry.generation \in Nat
      BY <2>2 DEF Entries
    <3>2. period \in Nat
      BY <1>3, <2>1
    <3> HIDE DEF entry, period, changed
    <3>3. q \in BOOLEAN
      BY <3>1
    <3>4. x \in Nat
      BY <1>3, <3>1, <3>2
    <3>5. g \in Nat
      BY <3>1
    <3> QED
      BY <3>3, <3>4, <3>5
  <2>7. /\ e \in Entries /\ e.frame = sched.frame /\ e.period = period /\ e.paused = q
        /\ e.next = x /\ e.generation = g
    <3> HIDE DEF period, changed, entry
    <3> QED
      BY <1>2, <2>1, <2>2, <2>3, <2>6 DEF Entries
  <2> QED
    BY <2>5, <2>7, <2>8
<1>5. Loop(IF Rephases(sched) THEN heap \cup {Node(i, e)} ELSE heap, With(i, e))
  BY DEF TakeTriggers
<1>6. sched' = Selecting /\ entries' = With(i, e) /\ HeapRenewed
  <2> HIDE DEF i, e
  <2>1. i \in DOMAIN With(i, e) /\ With(i, e)[i] = e
    BY DEF With
  <2>2. \A m \in heap \cup {Node(i, e)} :
          m \in heap \/ \E j \in DOMAIN With(i, e) : m = Node(j, With(i, e)[j])
    BY <2>1
  <2>3. \A m \in IF Rephases(sched) THEN heap \cup {Node(i, e)} ELSE heap :
          m \in heap \/ \E j \in DOMAIN With(i, e) : m = Node(j, With(i, e)[j])
    BY <2>2
  <2> QED
    BY <1>5, <2>3, LoopEffects
<1>7. /\ slot' = [slot EXCEPT ![i].triggers = 0]
      /\ UNCHANGED <<now, handle, caller, commands, calls>>
  BY DEF TakeTriggers
<1>8. LET lost == IF Invalidates(sched) THEN Outstanding(i) ELSE 0
      IN  IF Rephases(sched)
          THEN Phased(i, e.next, e.period, slot[i].triggers + lost)
          ELSE /\ uncounted' = [uncounted EXCEPT ![i] = @ - slot[i].triggers - lost]
               /\ UNCHANGED <<phase, stalled>>
  BY DEF TakeTriggers
<1> HIDE DEF e, i
<1>9. CASE Rephases(sched)
  <2>1. Phased(i, e.next, e.period, slot[i].triggers + Outstanding(i))
    BY <1>4, <1>8, <1>9
  <2> QED
    BY <1>1, <1>4, <1>5, <1>6, <1>7, <1>9, <2>1 DEF i
<1>10. CASE ~Rephases(sched)
  <2>1. /\ e.next = entries[i].next /\ UNCHANGED <<phase, stalled>>
        /\ \/ /\ e.paused /\ e.generation = entries[i].generation + 1
              /\ uncounted' = [uncounted EXCEPT ![i] = @ - slot[i].triggers - Outstanding(i)]
           \/ /\ e.paused = entries[i].paused /\ e.period = entries[i].period
              /\ e.generation = entries[i].generation
              /\ uncounted' = [uncounted EXCEPT ![i] = @ - slot[i].triggers - 0]
    BY <1>4, <1>8, <1>10
  <2> QED
    BY <1>1, <1>4, <1>5, <1>6, <1>7, <1>10, <2>1 DEF i
<1> QED
  BY <1>9, <1>10

\* A due entry goes on past the ticks that have come, all of which are counted: by their
\* number, by as many as can be counted, or phased anew.
Advances(i, e) ==
  \E late \in Nat, steps \in Nat \ {0} :
    /\ late = (sched.now - entries[i].next) \div entries[i].period
    /\ steps = late + 1 \/ (steps = CountMax /\ steps <= late)
    /\ \/ /\ e.next = entries[i].next + steps * entries[i].period
          /\ uncounted' = [uncounted EXCEPT ![i] = @ - (late + 1)]
          /\ UNCHANGED <<phase, stalled>>
       \/ /\ now < entries[i].next + (late + 1) * entries[i].period /\ now <= e.next
          /\ Phased(i, e.next, e.period, late + 1)

\* A tick: the due time goes on, and what came due meanwhile is sent or skipped; or the
\* entry has sent its last frame and ends.
LEMMA PopEffects ==
  ASSUME HandleShape, SchedShape, GhostShape, NodeInv, NEW n \in heap, PopDue(n)
  PROVE  \E i \in Items :
           /\ i \in DOMAIN entries /\ ~entries[i].paused /\ n.item = i
           /\ entries[i].next <= sched.now
           /\ \/ \E e \in Entries :
                   /\ e.period = entries[i].period /\ Advances(i, e) /\ ~e.paused
                   /\ e.frame = entries[i].frame /\ e.generation = entries[i].generation
                   /\ entries' = With(i, e)
                   /\ heap' = (heap \ {n}) \cup {Node(i, e)}
                   /\ n = Node(i, entries[i])
              \/ entries' = Without(i) /\ heap' = heap \ {n} /\ Forget(i)
           /\ sched.at = "ticking"
           /\ UNCHANGED <<now, slot, handle, caller, commands, sched, calls>>
<1> DEFINE i == n.item
           entry == entries[i]
           late == LateTicks(entry)
           steps == Min({late + 1, CountMax})
<1>1. /\ sched.at = "ticking" /\ n.at <= sched.now /\ n \in Nodes
      /\ i \in DOMAIN entries /\ ~entry.paused /\ entry.generation = n.generation
  BY DEF PopDue, IsCurrent, DueAt, SchedShape
<1>2. i \in Items /\ entry \in Entries /\ n.at = entry.next
  BY <1>1 DEF SchedShape, NodeInv, Nodes
<1>3. /\ sched.now \in Nat /\ sched.now <= LastInstant /\ LastInstant \in Nat
      /\ now \in Nat /\ now <= LastInstant /\ CountMax \in Nat \ {0}
  BY <1>1, CyclicAssumption DEF HandleShape, SchedShape, Selecting, TakenStates
<1>4. entry.period \in Nat \ {0} /\ entry.next \in Nat /\ entry.next <= sched.now
  BY <1>1, <1>2, CyclicAssumption DEF Entries
<1>5. late \in Nat /\ late * entry.period <= sched.now - entry.next
  <2> DEFINE d == sched.now - entry.next
             q == entry.period
  <2>1. d \in Nat /\ q \in Nat \ {0} /\ late = d \div q
    BY <1>3, <1>4 DEF LateTicks
  <2> HIDE DEF d, q, late
  <2>2. d \div q \in Nat /\ d % q \in 0..(q - 1) /\ d = q * (d \div q) + (d % q)
    BY <2>1, Division
  <2>3. late \in Nat /\ d % q \in Nat /\ d = q * late + (d % q)
    BY <2>1, <2>2
  <2>4. q * late = late * q /\ q * late \in Nat
    BY <2>1, <2>3
  <2>5. late * q <= d
    BY <2>1, <2>3, <2>4
  <2> QED
    BY <2>3, <2>5 DEF d, q
<1>6. Sends(entry) \in Nat /\ Omitted(entry) \in Int
      /\ Omitted(entry) + Sends(entry) = late + 1
  <2> HIDE DEF late
  <2>1. Wanted(entry) \in Nat /\ Wanted(entry) > 0 /\ MaxBurst \in Nat /\ MaxBurst > 0
    BY <1>5, CyclicAssumption DEF Wanted, late
  <2>2. /\ Sends(entry) \in {Wanted(entry), MaxBurst}
        /\ Sends(entry) <= Wanted(entry) /\ Sends(entry) <= MaxBurst
    <3>1. \E x \in {Wanted(entry), MaxBurst} : \A y \in {Wanted(entry), MaxBurst} : x <= y
      BY <2>1
    <3> QED
      BY <3>1 DEF Sends, Min
  <2>3. CASE entry.overrun = "Burst"
    BY <1>5, <2>1, <2>2, <2>3 DEF Omitted, Wanted, late
  <2>4. CASE entry.overrun # "Burst"
    <3>1. Wanted(entry) = 1
      BY <2>4 DEF Wanted
    <3>2. Sends(entry) = 1
      BY <2>1, <2>2, <3>1
    <3> QED
      BY <1>5, <2>4, <3>2 DEF Omitted, late
  <2> QED
    BY <2>3, <2>4
<1>7. UNCHANGED <<now, slot, handle, caller, commands, sched, calls>>
  BY DEF PopDue
<1>8. steps \in Nat \ {0} /\ (steps = late + 1 \/ (steps = CountMax /\ steps <= late))
  <2> HIDE DEF late
  <2>1. /\ steps \in {late + 1, CountMax} /\ steps <= late + 1 /\ steps <= CountMax
    <3>1. \E x \in {late + 1, CountMax} : \A y \in {late + 1, CountMax} : x <= y
      BY <1>3, <1>5
    <3> QED
      BY <3>1 DEF Min
  <2> HIDE DEF steps
  <2> QED
    BY <1>3, <1>5, <2>1
<1>9. Ahead(entry) = entry.next + steps * entry.period /\ Ahead(entry) \in Nat
  <2>1. Ahead(entry) = entry.next + steps * entry.period
    BY DEF Ahead
  <2> HIDE DEF steps, late, entry
  <2>2. steps * entry.period \in Nat
    BY <1>4, <1>8
  <2> QED
    BY <1>4, <2>1, <2>2
<1>10. Overflows(entry) => now < entry.next + (late + 1) * entry.period
  <2> HIDE DEF steps, late, entry
  <2>1. CASE steps = late + 1
    BY <1>3, <1>9, <2>1 DEF Overflows
  <2>2. CASE steps <= late
    <3>1. steps * entry.period <= late * entry.period
      BY <1>4, <1>5, <1>8, <2>2
    <3>2. steps * entry.period \in Nat /\ late * entry.period \in Nat
      BY <1>4, <1>5, <1>8
    <3>3. Ahead(entry) <= LastInstant
      BY <1>3, <1>4, <1>5, <1>9, <3>1, <3>2
    <3> QED
      BY <1>3, <1>9, <3>3 DEF Overflows
  <2> QED
    BY <1>8, <2>1, <2>2
<1> DEFINE x == IF ~Overflows(entry) THEN Ahead(entry)
                ELSE IF now + entry.period <= LastInstant THEN now + entry.period ELSE now
<1>11. x \in Nat
  <2> HIDE DEF entry
  <2> QED
    BY <1>3, <1>4, <1>9
<1>12. Advanced(entry) = [entry EXCEPT !.next = x] /\ Advanced(entry).next = x
  <2>1. Advanced(entry) = [entry EXCEPT !.next = x]
    BY DEF Advanced
  <2> HIDE DEF entry, x
  <2> QED
    BY <1>2, <2>1 DEF Entries
<1>13. ASSUME NEW accepted \in 0..Sends(entry),
              entry.remaining # Forever => accepted < entry.remaining,
              entries' = With(i, Advanced(Sent(entry, accepted))),
              heap' = (heap \ {n}) \cup {Node(i, Advanced(entry))},
              IF Overflows(entry)
              THEN Phased(i, Advanced(entry).next, entry.period, Omitted(entry) + Sends(entry))
              ELSE /\ uncounted' = [uncounted EXCEPT ![i] = @ - Omitted(entry) - Sends(entry)]
                   /\ UNCHANGED <<phase, stalled>>
      PROVE  \E e \in Entries :
                   /\ e.period = entries[i].period /\ Advances(i, e) /\ ~e.paused
                   /\ e.frame = entries[i].frame /\ e.generation = entries[i].generation
                   /\ entries' = With(i, e)
                   /\ heap' = (heap \ {n}) \cup {Node(i, e)}
                   /\ n = Node(i, entries[i])
  <2> DEFINE sent == Sent(entry, accepted)
             e == Advanced(sent)
  <2>1. /\ sent \in Entries /\ sent.next = entry.next /\ sent.period = entry.period
        /\ sent.frame = entry.frame /\ sent.generation = entry.generation
        /\ sent.paused = entry.paused
    <3>1. CASE entry.remaining = Forever
      BY <1>2, <3>1 DEF Sent
    <3>2. CASE entry.remaining # Forever
      <4> DEFINE k == entry.remaining - accepted
      <4>1. entry.remaining \in Nat /\ accepted \in Nat /\ accepted < entry.remaining
        BY <1>2, <1>6, <1>13, <3>2 DEF Entries
      <4>2. k \in Nat
        BY <4>1
      <4>3. sent = [entry EXCEPT !.remaining = k]
        BY <3>2 DEF Sent
      <4> HIDE DEF k, entry, sent
      <4> QED
        BY <1>2, <4>2, <4>3 DEF Entries
    <3> QED
      BY <3>1, <3>2
  <2>2. e = [sent EXCEPT !.next = x]
    <3> HIDE DEF sent, entry
    <3>1. LateTicks(sent) = LateTicks(entry)
      BY <2>1 DEF LateTicks
    <3>2. Ahead(sent) = Ahead(entry)
      BY <2>1, <3>1 DEF Ahead
    <3>3. Overflows(sent) <=> Overflows(entry)
      BY <3>2 DEF Overflows
    <3> QED
      BY <2>1, <3>2, <3>3 DEF Advanced
  <2>3. /\ e \in Entries /\ e.next = x /\ e.period = entry.period /\ ~e.paused
        /\ e.frame = entry.frame /\ e.generation = entry.generation
    <3> HIDE DEF e, x, sent, entry
    <3> QED
      BY <1>1, <1>11, <2>1, <2>2 DEF Entries
  <2>4. Node(i, Advanced(entry)) = Node(i, e)
    <3>1. Advanced(entry).generation = entry.generation
      <4> HIDE DEF entry, x
      <4> QED
        BY <1>2, <1>12 DEF Entries
    <3> HIDE DEF e, x, entry
    <3> QED
      BY <1>12, <2>3, <3>1 DEF Node
  <2>5. n = Node(i, entries[i])
    BY <1>1, <1>2 DEF Node, Nodes
  <2>6. Advances(i, e)
    <3>0. late = (sched.now - entries[i].next) \div entries[i].period
      BY DEF LateTicks
    <3>1. CASE Overflows(entry)
      <4>1. Phased(i, e.next, e.period, late + 1)
        <5> HIDE DEF e, x, entry, late
        <5> QED
          BY <1>6, <1>12, <1>13, <2>3, <3>1
      <4>2. now < entries[i].next + (late + 1) * entries[i].period
        BY <1>10, <3>1
      <4>3. now <= e.next
        <5>1. now <= x
          <6> HIDE DEF entry
          <6> QED
            BY <1>3, <1>4, <3>1
        <5> HIDE DEF e, x
        <5> QED
          BY <2>3, <5>1
      <4> HIDE DEF e, late, steps
      <4> QED
        BY <1>5, <1>8, <3>0, <4>1, <4>2, <4>3 DEF Advances
    <3>2. CASE ~Overflows(entry)
      <4>1. e.next = entries[i].next + steps * entries[i].period
        <5>1. x = Ahead(entry)
          BY <3>2
        <5> HIDE DEF e, x, steps
        <5> QED
          BY <1>9, <2>3, <5>1
      <4>2. uncounted' = [uncounted EXCEPT ![i] = @ - (late + 1)]
        <5>1. uncounted[i] \in Int
          BY <1>2 DEF GhostShape
        <5>2. uncounted[i] - Omitted(entry) - Sends(entry) = uncounted[i] - (late + 1)
          <6> HIDE DEF entry, late
          <6> QED
            BY <1>5, <1>6, <5>1
        <5>3. uncounted' = [uncounted EXCEPT ![i] = uncounted[i] - Omitted(entry) - Sends(entry)]
          <6> HIDE DEF entry
          <6> QED
            BY <1>13, <3>2
        <5> HIDE DEF entry, late
        <5> QED
          BY <5>2, <5>3
      <4>3. UNCHANGED <<phase, stalled>>
        BY <1>13, <3>2
      <4> HIDE DEF e, late, steps
      <4> QED
        BY <1>5, <1>8, <3>0, <4>1, <4>2, <4>3 DEF Advances
    <3> QED
      BY <3>1, <3>2
  <2> HIDE DEF e, sent
  <2> QED
    BY <1>13, <2>3, <2>4, <2>5, <2>6 DEF e, sent
<1>14. \/ \E accepted \in 0..Sends(entry) :
            /\ entry.remaining # Forever => accepted < entry.remaining
            /\ entries' = With(i, Advanced(Sent(entry, accepted)))
            /\ heap' = (heap \ {n}) \cup {Node(i, Advanced(entry))}
            /\ IF Overflows(entry)
               THEN Phased(i, Advanced(entry).next, entry.period, Omitted(entry) + Sends(entry))
               ELSE /\ uncounted' = [uncounted EXCEPT ![i] = @ - Omitted(entry) - Sends(entry)]
                    /\ UNCHANGED <<phase, stalled>>
       \/ entries' = Without(i) /\ heap' = heap \ {n} /\ Forget(i)
  BY DEF PopDue
<1> HIDE DEF late
<1> QED
  BY <1>1, <1>2, <1>4, <1>7, <1>13, <1>14

(* The scheduler's own part of the invariant.                              *)

LEMMA NextSteps ==
  ASSUME CyclicNext
  PROVE  \/ OutsideNext \/ TakeAdd \/ TakeUpdate \/ TakeStop \/ EndNext
         \/ ClearFlag \/ TakeState \/ TakeTriggers \/ TickStarts \/ TickEnds
         \/ \E n \in heap : PopStale(n) \/ PopDue(n)
  BY DEF CyclicNext, OutsideNext, CommandNext, TickNext, EndNext

LEMMA RenewedShape ==
  ASSUME heap \subseteq Nodes, HeapRenewed, DOMAIN entries' \subseteq Items,
         \A i \in DOMAIN entries' : entries'[i] \in Entries
  PROVE  heap' \subseteq Nodes
<1>1. ASSUME NEW j \in DOMAIN entries' PROVE Node(j, entries'[j]) \in Nodes
  BY <1>1 DEF Node, Nodes, Entries
<1> QED
  BY <1>1 DEF HeapRenewed

LEMMA SchedStates ==
  ASSUME SchedShape
  PROVE  /\ sched.at \in {"received", "cleared"} => sched = [at |-> sched.at, item |-> sched.item]
                                                   /\ sched.item \in Items
         /\ sched.at = "taken" => sched \in TakenStates /\ sched.item \in Items
         /\ sched.at = "ticking" => sched.now \in 0..MaxTime
         /\ sched.at = "select" => sched = Selecting
         /\ sched.at = "ended" => sched = [at |-> "ended"]
         /\ sched.at \in {"select", "ended", "received", "cleared", "taken", "ticking"}
  BY DEF SchedShape, Selecting, TakenStates

LEMMA SchedShapeKept ==
  ASSUME HandleShape, SchedShape, GhostShape, LiveInv, NodeInv, CyclicNext
  PROVE  SchedShape'
<1> DEFINE S == {Selecting, [at |-> "ended"]} \cup [at : {"received", "cleared"}, item : Items]
                \cup TakenStates \cup [at : {"ticking"}, now : 0..MaxTime]
<1>0. heap \subseteq Nodes /\ sched \in S /\ DOMAIN entries \subseteq Items
      /\ (\A i \in DOMAIN entries : entries[i] \in Entries)
  BY DEF SchedShape
<1>1. ASSUME NEW i \in Items, NEW e \in Entries, entries' = With(i, e)
      PROVE  DOMAIN entries' \subseteq Items /\ \A j \in DOMAIN entries' : entries'[j] \in Entries
  BY <1>0, <1>1 DEF With
<1>2. ASSUME NEW i \in Items, entries' = Without(i)
      PROVE  DOMAIN entries' \subseteq Items /\ \A j \in DOMAIN entries' : entries'[j] \in Entries
  BY <1>0, <1>2 DEF Without
<1>3. ASSUME DOMAIN entries' \subseteq Items, \A j \in DOMAIN entries' : entries'[j] \in Entries,
             HeapRenewed, sched' \in S
      PROVE  SchedShape'
  BY <1>0, <1>3, RenewedShape DEF SchedShape
<1>4. ASSUME UNCHANGED entries, heap' \subseteq heap, sched' \in S PROVE SchedShape'
  BY <1>0, <1>4 DEF SchedShape
<1>5. Selecting \in S /\ \A i \in Items : [at |-> "received", item |-> i] \in S
  OBVIOUS
<1>a. CASE OutsideNext
  <2>1. UNCHANGED <<entries, heap, sched>>
    BY <1>a, OutsideEffects
  <2> HIDE DEF S
  <2> QED
    BY <1>0, <1>4, <2>1
<1>b. CASE TakeAdd
  <2> HIDE DEF S
  <2> QED
    BY <1>1, <1>3, <1>5, <1>b, AddEffects
<1>c. CASE TakeUpdate
  <2> HIDE DEF S
  <2>1. PICK i \in Items :
          /\ entries' = entries /\ HeapRenewed
          /\ sched' = [at |-> "received", item |-> i] \/ sched' = Selecting
    BY <1>c, UpdateEffects
  <2> QED
    BY <1>0, <1>3, <1>5, <2>1
<1>d. CASE TakeStop
  <2> HIDE DEF S
  <2>1. PICK i \in Items : entries' = Without(i) /\ HeapRenewed /\ sched' = Selecting
    BY <1>d, StopEffects
  <2> QED
    BY <1>2, <1>3, <1>5, <2>1
<1>e. CASE EndNext
  BY <1>e, EndEffects DEF SchedulerEnds, SchedShape
<1>f. CASE ClearFlag
  <2>1. sched' = [at |-> "cleared", item |-> sched.item] /\ sched.item \in Items
    BY <1>f, SchedStates DEF ClearFlag
  <2>2. sched' \in S
    BY <2>1
  <2> HIDE DEF S
  <2> QED
    BY <1>f, <1>4, <2>2 DEF ClearFlag
<1>g. CASE TakeState
  <2>1. sched.item \in Items /\ slot[sched.item] \in Slots
    BY <1>g, SchedStates DEF TakeState, HandleShape
  <2>2. sched' \in TakenStates
    BY <1>g, <2>1 DEF TakeState, TakenStates, Slots
  <2>3. sched' \in S
    BY <2>2
  <2> HIDE DEF S
  <2> QED
    BY <1>g, <1>4, <2>3 DEF TakeState
<1>h. CASE TakeTriggers
  <2> HIDE DEF S
  <2>1. PICK i \in Items, e \in Entries :
          sched' = Selecting /\ entries' = With(i, e) /\ HeapRenewed
    BY <1>h, TriggersEffects
  <2> QED
    BY <1>1, <1>3, <1>5, <2>1
<1>i. CASE TickStarts
  <2>1. sched' \in S
    BY <1>i DEF TickStarts, HandleShape
  <2> HIDE DEF S
  <2> QED
    BY <1>i, <1>4, <2>1 DEF TickStarts
<1>j. CASE TickEnds
  <2>1. sched' = Selecting /\ entries' = entries /\ HeapRenewed
    BY <1>j, LoopEffects DEF TickEnds
  <2> HIDE DEF S
  <2> QED
    BY <1>0, <1>3, <1>5, <2>1
<1>k. ASSUME NEW n \in heap, PopStale(n) PROVE SchedShape'
  <2> HIDE DEF S
  <2> QED
    BY <1>0, <1>4, <1>k DEF PopStale
<1>l. ASSUME NEW n \in heap, PopDue(n) PROVE SchedShape'
  <2> HIDE DEF S
  <2>1. PICK i \in Items :
           /\ \/ \E e \in Entries : entries' = With(i, e) /\ heap' = (heap \ {n}) \cup {Node(i, e)}
              \/ entries' = Without(i) /\ heap' = heap \ {n}
           /\ sched' = sched
    BY <1>l, PopEffects
  <2>2. CASE \E e \in Entries : entries' = With(i, e) /\ heap' = (heap \ {n}) \cup {Node(i, e)}
    <3>1. PICK e \in Entries : entries' = With(i, e) /\ heap' = (heap \ {n}) \cup {Node(i, e)}
      BY <2>2
    <3>2. i \in DOMAIN entries' /\ entries'[i] = e
      BY <3>1 DEF With
    <3>3. HeapRenewed
      BY <3>1, <3>2 DEF HeapRenewed
    <3> QED
      BY <1>0, <1>1, <1>3, <2>1, <3>1, <3>3
  <2>3. CASE entries' = Without(i) /\ heap' = heap \ {n}
    BY <1>0, <1>2, <1>3, <2>1, <2>3 DEF HeapRenewed
  <2> QED
    BY <2>1, <2>2, <2>3
<1> QED
  BY <1>a, <1>b, <1>c, <1>d, <1>e, <1>f, <1>g, <1>h, <1>i, <1>j, <1>k, <1>l, NextSteps

\* A send that finds the scheduler ended goes nowhere.
LEMMA OutsideCommands ==
  ASSUME OutsideNext, HandleShape
  PROVE  \/ UNCHANGED commands
         \/ ~Ended /\ \E command \in Commands : Grown(command)
<1> USE DEF HandleShape
<1>1. ASSUME NEW i \in Items, NEW config \in Configs, Schedule(i, config)
      PROVE  ~Ended /\ Grown(Add(i, config)) /\ Add(i, config) \in Commands
  BY <1>1, CommandKinds, Sending DEF Schedule
<1>2. ASSUME NEW i \in Items, NEW reply \in BOOLEAN, Send(Stop(i, reply))
      PROVE  IF Ended THEN UNCHANGED commands ELSE \E command \in Commands : Grown(command)
  <2>1. Stop(i, reply) \in Commands
    BY DEF Stop, Commands, Orders
  <2> QED
    BY <1>2, <2>1, Sending
<1>3. ASSUME NEW c \in Callers, SendWake(c)
      PROVE  IF Ended THEN UNCHANGED commands ELSE \E command \in Commands : Grown(command)
  <2>1. caller[c].item \in Items
    BY <1>3 DEF SendWake, Callings, Idle
  <2>2. ApplyUpdate(caller[c].item) \in Commands
    BY <2>1 DEF ApplyUpdate, Commands, Orders
  <2> QED
    BY <1>3, <2>2, Sending DEF SendWake
<1>4. ASSUME CloseLink
      PROVE  ~Ended /\ \E command \in Commands : Grown(command)
  <2>1. Close \in Commands
    BY DEF Close, Commands
  <2> QED
    BY <1>4, <2>1, Sending DEF CloseLink
<1>5. CASE CallNext
  BY <1>5 DEF CallNext, SetFrame, SetPeriod, SetPaused, PushTrigger, TriggerSkipped, Writes
<1>6. CASE HandleNext
  <2>1. PICK i \in Items :
          \/ \E config \in Configs : Schedule(i, config)
          \/ StopCall(i) \/ Dropped(i) \/ Detached(i) \/ StopCancelled(i)
    BY <1>6 DEF HandleNext
  <2>2. ASSUME NEW config \in Configs, Schedule(i, config)
        PROVE  ~Ended /\ \E command \in Commands : Grown(command)
    BY <2>2, <1>1
  <2>3. CASE StopCall(i)
    BY <2>3, <1>2 DEF StopCall
  <2>4. CASE Dropped(i)
    BY <2>4, <1>2 DEF Dropped
  <2>5. CASE Detached(i) \/ StopCancelled(i)
    BY <2>5 DEF Detached, StopCancelled
  <2> QED
    BY <2>1, <2>2, <2>3, <2>4, <2>5
<1>7. CASE Elapse
  BY <1>7 DEF Elapse
<1>8. ASSUME NEW c \in Callers, WakeNext(c)
      PROVE  \/ UNCHANGED commands
             \/ ~Ended /\ \E command \in Commands : Grown(command)
  BY <1>8, <1>3 DEF WakeNext, Wake
<1> QED
  BY <1>4, <1>5, <1>6, <1>7, <1>8 DEF OutsideNext

LEMMA LiveKept ==
  ASSUME HandleShape, SchedShape, GhostShape, LiveInv, NodeInv, CyclicNext
  PROVE  LiveInv'
<1>1. ASSUME sched' = Selecting PROVE LiveInv'
  BY <1>1 DEF LiveInv, Held, Ended, Selecting
<1>2. ASSUME sched'.at \in {"received", "cleared", "taken"},
             sched'.item \in DOMAIN entries'
      PROVE  LiveInv'
  BY <1>2 DEF LiveInv, Held, Ended
<1>3. ASSUME sched'.at = "ticking" PROVE LiveInv'
  BY <1>3 DEF LiveInv, Held, Ended
<1>a. CASE OutsideNext
  <2>1. UNCHANGED <<entries, heap, sched>> /\ (Ended => UNCHANGED commands)
    BY <1>a, OutsideEffects, OutsideCommands
  <2> QED
    BY <2>1 DEF LiveInv, Held, Ended
<1>b. CASE TakeAdd
  BY <1>b, <1>1, AddEffects
<1>c. CASE TakeUpdate
  <2>1. PICK i \in Items :
           /\ IF i \in DOMAIN entries THEN sched' = [at |-> "received", item |-> i]
                                      ELSE sched' = Selecting
           /\ entries' = entries
    BY <1>c, UpdateEffects
  <2> QED
    BY <1>1, <1>2, <2>1
<1>d. CASE TakeStop
  BY <1>d, <1>1, StopEffects
<1>e. CASE EndNext
  BY <1>e, EndEffects DEF SchedulerEnds, LiveInv, Held, Ended
<1>f. CASE ClearFlag
  <2>1. sched' = [at |-> "cleared", item |-> sched.item] /\ sched.item \in Items
    BY <1>f, SchedStates DEF ClearFlag
  <2>2. sched.item \in DOMAIN entries /\ entries' = entries
    BY <1>f, <2>1 DEF LiveInv, Held, ClearFlag
  <2> QED
    BY <1>2, <2>1, <2>2
<1>g. CASE TakeState
  <2>1. sched'.at = "taken" /\ sched'.item = sched.item /\ sched.item \in Items
    BY <1>g, SchedStates DEF TakeState
  <2>2. sched.item \in DOMAIN entries /\ entries' = entries
    BY <1>g, <2>1 DEF LiveInv, Held, TakeState
  <2> QED
    BY <1>2, <2>1, <2>2
<1>h. CASE TakeTriggers
  BY <1>h, <1>1, TriggersEffects
<1>i. CASE TickStarts
  BY <1>i, <1>3 DEF TickStarts
<1>j. CASE TickEnds
  BY <1>j, <1>1 DEF TickEnds, Loop
<1>k. ASSUME NEW n \in heap, PopStale(n) PROVE LiveInv'
  BY <1>k, <1>3 DEF PopStale
<1>l. ASSUME NEW n \in heap, PopDue(n) PROVE LiveInv'
  BY <1>l, <1>3 DEF PopDue
<1> QED
  BY <1>a, <1>b, <1>c, <1>d, <1>e, <1>f, <1>g, <1>h, <1>i, <1>j, <1>k, <1>l, NextSteps

\* An entry is as it was, or its generation has gone up and its nodes are out of date,
\* or it is new and has none.
Succeeds(i) ==
  \/ i \in DOMAIN entries /\ entries'[i].generation > entries[i].generation
  \/ i \in DOMAIN entries /\ entries'[i].generation = entries[i].generation
                          /\ entries'[i].next = entries[i].next
  \/ \A n \in heap : n.item # i

LEMMA NodesSucceed ==
  ASSUME SchedShape, SchedShape', NodeInv, HeapRenewed, \A i \in DOMAIN entries' : Succeeds(i)
  PROVE  NodeInv'
<1> SUFFICES ASSUME NEW m \in heap', m.item \in DOMAIN entries'
             PROVE  /\ m.generation <= entries'[m.item].generation
                    /\ m.generation = entries'[m.item].generation
                         => m.at = entries'[m.item].next
  BY DEF NodeInv
<1>0. m \in Nodes /\ entries'[m.item] \in Entries
  BY DEF SchedShape
<1>1. CASE m \in heap
  <2>1. CASE \A n \in heap : n.item # m.item
    BY <1>1, <2>1
  <2>2. CASE m.item \in DOMAIN entries
    <3>1. /\ entries[m.item].generation \in Nat /\ entries'[m.item].generation \in Nat
          /\ m.generation \in Nat
      BY <1>0, <2>2 DEF SchedShape, Entries, Nodes
    <3>2. /\ m.generation <= entries[m.item].generation
          /\ m.generation = entries[m.item].generation => m.at = entries[m.item].next
      BY <1>1, <2>2 DEF NodeInv
    <3>3. CASE entries'[m.item].generation > entries[m.item].generation
      BY <3>1, <3>2, <3>3
    <3>4. CASE /\ entries'[m.item].generation = entries[m.item].generation
               /\ entries'[m.item].next = entries[m.item].next
      BY <3>2, <3>4
    <3> QED
      BY <2>2, <3>3, <3>4, <1>1 DEF Succeeds
  <2> QED
    BY <2>1, <2>2 DEF Succeeds
<1>2. ASSUME NEW j \in DOMAIN entries', m = Node(j, entries'[j])
      PROVE  /\ m.generation <= entries'[m.item].generation
             /\ m.generation = entries'[m.item].generation => m.at = entries'[m.item].next
  <2>1. m.item = j /\ m.generation = entries'[j].generation /\ m.at = entries'[j].next
    BY <1>2 DEF Node
  <2>2. entries'[j].generation \in Nat
    BY DEF SchedShape, Entries
  <2> QED
    BY <2>1, <2>2
<1> QED
  BY <1>1, <1>2 DEF HeapRenewed

\* No node of an item the heap has not heard of.
LEMMA NoNodesYet ==
  ASSUME LifeInv, NEW i \in Items, commands # <<>>, commands \in Seq(Commands),
         commands[1].kind = "Add", commands[1].item = i
  PROVE  Coming(i) /\ i \notin DOMAIN entries /\ \A n \in heap : n.item # i
<1>1. 1 \in 1..Len(commands)
  BY EmptySeq, LenProperties
<1>2. 1 \in Queued({"Add"})
  BY <1>1 DEF Queued
<1>3. Coming(i)
  BY <1>2 DEF Coming
<1> QED
  BY <1>3 DEF LifeInv

LEMMA NodesKept ==
  ASSUME HandleShape, SchedShape, GhostShape, LiveInv, LifeInv, NodeInv, CyclicNext
  PROVE  NodeInv'
<1>0. SchedShape'
  BY SchedShapeKept
<1>1. ASSUME NEW j \in DOMAIN entries, j \in DOMAIN entries', entries'[j] = entries[j]
      PROVE  Succeeds(j)
  BY <1>1 DEF Succeeds
<1>2. ASSUME UNCHANGED entries, heap' \subseteq heap PROVE NodeInv'
  BY <1>2 DEF NodeInv
<1>a. CASE OutsideNext
  BY <1>a, <1>2, OutsideEffects
<1>b. CASE TakeAdd
  <2>1. PICK i \in Items, e \in Entries :
          /\ commands # <<>> /\ commands[1].kind = "Add" /\ commands[1].item = i
          /\ entries' = With(i, e) /\ HeapRenewed
    BY <1>b, AddEffects
  <2>2. \A n \in heap : n.item # i
    BY <2>1, NoNodesYet DEF HandleShape
  <2>3. ASSUME NEW j \in DOMAIN entries' PROVE Succeeds(j)
    <3>1. CASE j = i
      BY <2>2, <3>1 DEF Succeeds
    <3>2. CASE j # i
      BY <1>1, <2>1, <2>3, <3>2 DEF With
    <3> QED
      BY <3>1, <3>2
  <2> QED
    BY <1>0, <2>1, <2>3, NodesSucceed
<1>c. CASE TakeUpdate
  <2>1. entries' = entries /\ HeapRenewed
    BY <1>c, UpdateEffects
  <2> QED
    BY <1>0, <1>1, <2>1, NodesSucceed
<1>d. CASE TakeStop
  <2>1. PICK i \in Items : entries' = Without(i) /\ HeapRenewed
    BY <1>d, StopEffects
  <2>2. ASSUME NEW j \in DOMAIN entries' PROVE Succeeds(j)
    BY <1>1, <2>1, <2>2 DEF Without
  <2> QED
    BY <1>0, <2>1, <2>2, NodesSucceed
<1>e. CASE EndNext
  BY <1>e, EndEffects DEF SchedulerEnds, NodeInv
<1>f. CASE ClearFlag
  BY <1>f, <1>2 DEF ClearFlag
<1>g. CASE TakeState
  BY <1>g, <1>2 DEF TakeState
<1>h. CASE TakeTriggers
  <2>1. PICK i \in Items, e \in Entries :
          /\ i \in DOMAIN entries
          /\ \/ e.generation = entries[i].generation + 1
             \/ e.generation = entries[i].generation /\ e.next = entries[i].next
          /\ entries' = With(i, e) /\ HeapRenewed
    BY <1>h, TriggersEffects
  <2>2. ASSUME NEW j \in DOMAIN entries' PROVE Succeeds(j)
    <3>1. CASE j = i
      <4>1. entries'[j] = e /\ entries[j].generation \in Nat
        BY <2>1, <3>1 DEF With, SchedShape, Entries
      <4> QED
        BY <2>1, <3>1, <4>1 DEF Succeeds
    <3>2. CASE j # i
      BY <1>1, <2>1, <2>2, <3>2 DEF With
    <3> QED
      BY <3>1, <3>2
  <2> QED
    BY <1>0, <2>1, <2>2, NodesSucceed
<1>i. CASE TickStarts
  BY <1>i, <1>2 DEF TickStarts
<1>j. CASE TickEnds
  <2>1. entries' = entries /\ HeapRenewed
    BY <1>j, LoopEffects DEF TickEnds
  <2> QED
    BY <1>0, <1>1, <2>1, NodesSucceed
<1>k. ASSUME NEW n \in heap, PopStale(n) PROVE NodeInv'
  BY <1>k, <1>2 DEF PopStale
<1>l. ASSUME NEW n \in heap, PopDue(n) PROVE NodeInv'
  <2>1. PICK i \in Items :
           /\ i \in DOMAIN entries
           /\ \/ \E e \in Entries :
                   /\ e.generation = entries[i].generation
                   /\ entries' = With(i, e) /\ heap' = (heap \ {n}) \cup {Node(i, e)}
                   /\ n = Node(i, entries[i])
              \/ entries' = Without(i) /\ heap' = heap \ {n}
    BY <1>l, PopEffects
  <2>2. CASE entries' = Without(i) /\ heap' = heap \ {n}
    BY <2>2 DEF NodeInv, Without
  <2>3. ASSUME NEW e \in Entries, e.generation = entries[i].generation,
               entries' = With(i, e), heap' = (heap \ {n}) \cup {Node(i, e)},
               n = Node(i, entries[i])
        PROVE  NodeInv'
    <3> SUFFICES ASSUME NEW m \in heap', m.item \in DOMAIN entries'
                 PROVE  /\ m.generation <= entries'[m.item].generation
                        /\ m.generation = entries'[m.item].generation
                             => m.at = entries'[m.item].next
      BY DEF NodeInv
    <3>0. entries'[i] = e /\ e.generation \in Nat
      BY <2>3 DEF With, Entries
    <3>1. CASE m = Node(i, e)
      <4>1. m.item = i /\ m.generation = e.generation /\ m.at = e.next
        BY <3>1 DEF Node
      <4> QED
        BY <3>0, <4>1
    <3>2. CASE m \in heap /\ m # n /\ m.item = i
      <4>1. m \in Nodes
        BY <3>2 DEF SchedShape
      <4>2. m = [at |-> m.at, item |-> m.item, generation |-> m.generation]
        BY <4>1 DEF Nodes
      <4>3. /\ m.generation <= entries[i].generation
            /\ m.generation = entries[i].generation => m.at = entries[i].next
        BY <2>1, <3>2 DEF NodeInv
      <4>4. m.generation # entries[i].generation
        BY <2>3, <3>2, <4>2, <4>3 DEF Node
      <4> QED
        BY <2>3, <3>0, <3>2, <4>3, <4>4
    <3>3. CASE m \in heap /\ m.item # i
      <4>1. m.item \in DOMAIN entries /\ entries'[m.item] = entries[m.item]
        BY <2>3, <3>3 DEF With
      <4> QED
        BY <3>3, <4>1 DEF NodeInv
    <3> QED
      BY <2>3, <3>1, <3>2, <3>3
  <2> QED
    BY <2>1, <2>2, <2>3
<1> QED
  BY <1>a, <1>b, <1>c, <1>d, <1>e, <1>f, <1>g, <1>h, <1>i, <1>j, <1>k, <1>l, NextSteps

LEMMA EntryParts ==
  ASSUME HandleShape, SchedShape, GhostShape, NEW i \in DOMAIN entries
  PROVE  /\ i \in Items /\ entries[i] \in Entries /\ entries[i].paused \in BOOLEAN
         /\ entries[i].next \in Nat /\ entries[i].period \in Nat \ {0}
         /\ now \in Nat /\ phase[i] \in Nat /\ uncounted[i] \in Int
         /\ Outstanding(i) \in Nat
<1>1. /\ i \in Items /\ entries[i] \in Entries /\ entries[i].paused \in BOOLEAN
      /\ entries[i].next \in Nat /\ entries[i].period \in Nat \ {0}
      /\ now \in Nat /\ phase[i] \in Nat /\ uncounted[i] \in Int
  <2>1. i \in Items /\ entries[i] \in Entries
    BY DEF SchedShape
  <2>2. /\ entries[i].paused \in BOOLEAN /\ entries[i].next \in Nat
        /\ entries[i].period \in Nat \ {0}
    BY <2>1, CyclicAssumption DEF Entries
  <2>3. now \in Nat
    BY CyclicAssumption DEF HandleShape
  <2>4. phase[i] \in Nat /\ uncounted[i] \in Int
    BY <2>1 DEF GhostShape
  <2> QED
    BY <2>1, <2>2, <2>3, <2>4
<1>2. Outstanding(i) \in Nat
  BY <1>1, TickCounts DEF Outstanding
<1> QED
  BY <1>1, <1>2

\* Of an entry that is due now or later no more than one tick has come.
LEMMA TicksAhead ==
  ASSUME NEW t \in Nat, NEW next \in Nat, NEW p \in Nat \ {0}, t <= next
  PROVE  TicksBy(t, next, p) <= 1 /\ (t < next => TicksBy(t, next, p) = 0)
<1>1. CASE t < next
  BY <1>1 DEF TicksBy
<1>2. CASE t = next
  <2>1. t - next = 0 /\ 0 \div p = 0
    BY <1>2
  <2> QED
    BY <1>2, <2>1 DEF TicksBy
<1> QED
  BY <1>1, <1>2

\* What a tick counts of an entry has come, and what it goes on by is no more; fewer
\* only if more has come than can be counted.
LEMMA Advancing ==
  ASSUME HandleShape, SchedShape, GhostShape, TickInv, sched.at = "ticking",
         NEW i \in DOMAIN entries, ~entries[i].paused, entries[i].next <= sched.now,
         NEW e \in Entries, e.period = entries[i].period, Advances(i, e)
  PROVE  \E late \in Nat, steps \in Nat \ {0} :
           /\ late + 1 <= Outstanding(i)
           /\ steps = late + 1 \/ (steps = CountMax /\ steps <= late)
           /\ \/ /\ e.next = entries[i].next + steps * entries[i].period
                 /\ e.next - e.period <= now
                 /\ TicksBy(now, e.next, e.period) = Outstanding(i) - steps
                 /\ uncounted' = [uncounted EXCEPT ![i] = @ - (late + 1)]
                 /\ UNCHANGED <<phase, stalled>>
              \/ /\ late + 1 = Outstanding(i) /\ now <= e.next
                 /\ Phased(i, e.next, e.period, late + 1)
<1> DEFINE next == entries[i].next
           period == entries[i].period
<1>1. /\ next \in Nat /\ period \in Nat \ {0} /\ now \in Nat /\ sched.now \in Nat
      /\ sched.now <= now /\ next <= sched.now /\ e.period = period
  BY EntryParts, SchedStates DEF TickInv
<1>2. Outstanding(i) = TicksBy(now, next, period)
  BY DEF Outstanding
<1>3. PICK late \in Nat, steps \in Nat \ {0} :
        /\ late = (sched.now - next) \div period
        /\ steps = late + 1 \/ (steps = CountMax /\ steps <= late)
        /\ \/ /\ e.next = next + steps * period
              /\ uncounted' = [uncounted EXCEPT ![i] = @ - (late + 1)]
              /\ UNCHANGED <<phase, stalled>>
           \/ /\ now < next + (late + 1) * period /\ now <= e.next
              /\ Phased(i, e.next, e.period, late + 1)
  BY DEF Advances
<1> HIDE DEF next, period
<1>4. TicksBy(sched.now, next, period) = late + 1
  BY <1>1, <1>3, TickCounts
<1>5. late + 1 <= TicksBy(now, next, period) /\ TicksBy(now, next, period) \in Nat
  <2>1. TicksBy(sched.now, next, period) <= TicksBy(now, next, period)
    BY <1>1, TicksGrow
  <2>2. TicksBy(now, next, period) \in Nat
    BY <1>1, TickCounts
  <2> QED
    BY <1>4, <2>1, <2>2
<1>6. ASSUME NEW k \in Nat \ {0}, k <= late + 1
      PROVE  /\ next + k * period \in Nat /\ next + k * period - period <= now
             /\ TicksBy(now, next + k * period, period) = TicksBy(now, next, period) - k
  <2>1. k <= TicksBy(now, next, period)
    BY <1>5, <1>6
  <2> QED
    BY <1>1, <2>1, TicksPassed
<1>7. steps <= late + 1
  BY <1>3
<1>8. CASE /\ e.next = next + steps * period
           /\ uncounted' = [uncounted EXCEPT ![i] = @ - (late + 1)]
           /\ UNCHANGED <<phase, stalled>>
  <2>1. /\ next + steps * period - period <= now
        /\ TicksBy(now, next + steps * period, period) = TicksBy(now, next, period) - steps
    BY <1>6, <1>7
  <2>2. e.next - e.period <= now /\ TicksBy(now, e.next, e.period) = Outstanding(i) - steps
    BY <1>1, <1>2, <1>8, <2>1
  <2>3. late + 1 <= Outstanding(i) /\ e.next = entries[i].next + steps * entries[i].period
    BY <1>2, <1>5, <1>8 DEF next, period
  <2> QED
    BY <1>3, <1>8, <2>2, <2>3
<1>9. CASE /\ now < next + (late + 1) * period /\ now <= e.next
           /\ Phased(i, e.next, e.period, late + 1)
  <2> DEFINE later == next + (late + 1) * period
  <2>1. late + 1 \in Nat \ {0}
    OBVIOUS
  <2>2. later \in Nat /\ TicksBy(now, later, period) = TicksBy(now, next, period) - (late + 1)
    BY <1>6, <2>1
  <2>3. now < later
    BY <1>9
  <2> HIDE DEF later
  <2>4. TicksBy(now, later, period) = 0
    BY <1>1, <2>2, <2>3, TickCounts
  <2>5. late + 1 = Outstanding(i)
    BY <1>2, <1>5, <2>2, <2>4
  <2> QED
    BY <1>3, <1>9, <2>5
<1> QED
  BY <1>3, <1>8, <1>9

LEMMA TickKept ==
  ASSUME HandleShape, SchedShape, GhostShape, LiveInv, NodeInv, TickInv, CyclicNext
  PROVE  TickInv'
<1>0. now \in Nat
  BY CyclicAssumption DEF HandleShape
<1>1. ASSUME sched'.at # "ticking" PROVE TickInv'
  BY <1>1 DEF TickInv
<1>a. CASE OutsideNext
  <2>1. UNCHANGED sched /\ now' \in {now, now + 1}
    BY <1>a, OutsideEffects DEF OutsideNext, CallNext, HandleNext, CloseLink, Elapse, WakeNext,
       SetFrame, SetPeriod, SetPaused, PushTrigger, TriggerSkipped, Writes, Schedule, StopCall,
       Dropped, Detached, Leaves, StopCancelled, Wake, SendWake
  <2>2. sched.at = "ticking" => sched.now \in Nat
    BY SchedStates
  <2> QED
    BY <1>0, <2>1, <2>2 DEF TickInv
<1>b. CASE TakeAdd \/ TakeUpdate \/ TakeStop
  <2>1. CASE TakeAdd \/ TakeStop
    <3>1. sched' = Selecting
      BY <2>1 DEF TakeAdd, TakeStop, Loop
    <3> QED
      BY <1>1, <3>1 DEF Selecting
  <2>2. CASE TakeUpdate
    <3>1. PICK i \in Items : sched' = [at |-> "received", item |-> i] \/ sched' = Selecting
      BY <2>2, UpdateEffects
    <3> QED
      BY <3>1, <1>1 DEF Selecting
  <2> QED
    BY <1>b, <2>1, <2>2
<1>c. CASE EndNext
  BY <1>c, <1>1, EndEffects DEF SchedulerEnds
<1>d. CASE ClearFlag \/ TakeState
  <2>1. sched'.at # "ticking"
    BY <1>d, SchedStates DEF ClearFlag, TakeState
  <2> QED
    BY <1>1, <2>1
<1>e. CASE TakeTriggers \/ TickEnds
  BY <1>e, <1>1 DEF TakeTriggers, TickEnds, Loop, Selecting
<1>f. CASE TickStarts
  BY <1>0, <1>f DEF TickStarts, TickInv
<1>g. ASSUME NEW n \in heap, PopStale(n) \/ PopDue(n) PROVE TickInv'
  BY <1>g DEF PopStale, PopDue, TickInv
<1> QED
  BY <1>a, <1>b, <1>c, <1>d, <1>e, <1>f, <1>g, NextSteps

LEMMA PhaseKept ==
  ASSUME HandleShape, SchedShape, GhostShape, LiveInv, NodeInv, TickInv, PhaseInv, CyclicNext
  PROVE  PhaseInv'
<1>0. phase \in [Items -> Nat] /\ DOMAIN entries \subseteq Items
  BY DEF GhostShape, SchedShape
<1>1. ASSUME UNCHANGED <<now, entries, phase>> PROVE PhaseInv'
  BY <1>1 DEF PhaseInv, Running, OnPhase, IsTick
<1>2. ASSUME NEW i \in Items, NEW e \in Entries, entries' = With(i, e), UNCHANGED now,
             NEW x \in Nat, phase' = [phase EXCEPT ![i] = x],
             ~e.paused => /\ x <= e.next /\ (e.next - x) % e.period = 0
                          /\ e.next = x \/ e.next - e.period <= now
      PROVE  PhaseInv'
  <2> SUFFICES ASSUME NEW j \in DOMAIN entries', ~entries'[j].paused PROVE OnPhase(j)'
    BY DEF PhaseInv, Running
  <2>1. CASE j = i
    <3>1. entries'[j] = e /\ phase'[j] = x
      BY <1>0, <1>2, <2>1 DEF With
    <3> QED
      BY <1>2, <2>1, <3>1 DEF OnPhase, IsTick
  <2>2. CASE j # i
    <3>1. j \in DOMAIN entries /\ entries'[j] = entries[j] /\ phase'[j] = phase[j]
      BY <1>0, <1>2, <2>2 DEF With
    <3> QED
      BY <1>2, <3>1 DEF PhaseInv, Running, OnPhase, IsTick
  <2> QED
    BY <2>1, <2>2
<1>3. ASSUME NEW i \in Items, entries' = Without(i), UNCHANGED now, Forget(i) PROVE PhaseInv'
  <2> SUFFICES ASSUME NEW j \in DOMAIN entries', ~entries'[j].paused PROVE OnPhase(j)'
    BY DEF PhaseInv, Running
  <2>1. j # i /\ j \in DOMAIN entries /\ entries'[j] = entries[j] /\ phase'[j] = phase[j]
    BY <1>0, <1>3 DEF Without, Forget
  <2> QED
    BY <1>3, <2>1 DEF PhaseInv, Running, OnPhase, IsTick
<1>4. ASSUME NEW i \in Items, NEW e \in Entries, entries' = With(i, e), UNCHANGED now,
             NEW counted, Phased(i, e.next, e.period, counted)
      PROVE  PhaseInv'
  <2>1. e.next \in Nat /\ e.period \in Nat \ {0}
    BY CyclicAssumption DEF Entries
  <2>2. (e.next - e.next) % e.period = 0 /\ e.next <= e.next
    BY <2>1
  <2>3. phase' = [phase EXCEPT ![i] = e.next]
    BY <1>4 DEF Phased
  <2> DEFINE x == e.next
  <2>4. /\ x \in Nat /\ phase' = [phase EXCEPT ![i] = x]
        /\ x <= e.next /\ (e.next - x) % e.period = 0 /\ e.next = x
    BY <2>1, <2>2, <2>3
  <2> HIDE DEF x
  <2> QED
    BY <1>2, <1>4, <2>4
<1>5. ASSUME NEW i \in DOMAIN entries, NEW e \in Entries, entries' = With(i, e),
             UNCHANGED <<now, phase>>,
             ~e.paused => /\ phase[i] <= e.next /\ (e.next - phase[i]) % e.period = 0
                          /\ e.next = phase[i] \/ e.next - e.period <= now
      PROVE  PhaseInv'
  <2>1. i \in Items /\ phase[i] \in Nat /\ phase' = [phase EXCEPT ![i] = phase[i]]
    BY <1>0, <1>5
  <2> QED
    BY <1>2, <1>5, <2>1
<1>a. CASE OutsideNext
  <2>0. now \in Nat
    BY CyclicAssumption DEF HandleShape
  <2>1. UNCHANGED <<entries, phase>> /\ now' \in {now, now + 1}
    BY <1>a, OutsideEffects DEF OutsideNext, CallNext, HandleNext, CloseLink,
       Elapse, WakeNext, SetFrame, SetPeriod, SetPaused, PushTrigger, TriggerSkipped, Writes,
       Schedule, StopCall, Dropped, Detached, Leaves, StopCancelled, Wake, SendWake
  <2> SUFFICES ASSUME NEW i \in Running PROVE OnPhase(i)'
    BY <2>1 DEF PhaseInv, Running
  <2>2. entries[i].next \in Nat /\ entries[i].period \in Nat /\ OnPhase(i)
    BY EntryParts DEF PhaseInv, Running
  <2> QED
    BY <2>0, <2>1, <2>2 DEF OnPhase, IsTick
<1>b. CASE TakeAdd
  <2>1. PICK i \in Items, e \in Entries :
          entries' = With(i, e) /\ Phased(i, e.next, e.period, 0) /\ UNCHANGED now
    BY <1>b, AddEffects
  <2> QED
    BY <2>1, <1>4
<1>c. CASE TakeUpdate
  BY <1>c, <1>1, UpdateEffects DEF ghostVars
<1>d. CASE TakeStop
  BY <1>d, <1>3, StopEffects
<1>e. CASE EndNext
  BY <1>e, EndEffects DEF SchedulerEnds, PhaseInv, Running
<1>f. CASE ClearFlag \/ TakeState
  BY <1>f, <1>1 DEF ClearFlag, TakeState, ghostVars
<1>h. CASE TakeTriggers
  <2>1. PICK i \in Items, e \in Entries :
          /\ i \in DOMAIN entries /\ entries' = With(i, e) /\ UNCHANGED now
          /\ \/ Phased(i, e.next, e.period, slot[i].triggers + Outstanding(i))
             \/ /\ e.next = entries[i].next /\ phase' = phase
                /\ e.paused \/ (e.paused = entries[i].paused /\ e.period = entries[i].period)
    BY <1>h, TriggersEffects
  <2>2. CASE Phased(i, e.next, e.period, slot[i].triggers + Outstanding(i))
    BY <2>1, <2>2, <1>4
  <2>3. CASE /\ e.next = entries[i].next /\ phase' = phase
             /\ e.paused \/ (e.paused = entries[i].paused /\ e.period = entries[i].period)
    <3>1. ~e.paused => /\ phase[i] <= e.next /\ (e.next - phase[i]) % e.period = 0
                       /\ e.next = phase[i] \/ e.next - e.period <= now
      BY <2>1, <2>3 DEF PhaseInv, Running, OnPhase, IsTick
    <3> QED
      BY <2>1, <2>3, <3>1, <1>5
  <2> QED
    BY <2>1, <2>2, <2>3
<1>i. CASE TickStarts
  BY <1>i, <1>1 DEF TickStarts, ghostVars
<1>j. CASE TickEnds
  BY <1>j, <1>1 DEF TickEnds, Loop, ghostVars
<1>k. ASSUME NEW n \in heap, PopStale(n) PROVE PhaseInv'
  BY <1>k, <1>1 DEF PopStale, ghostVars
<1>l. ASSUME NEW n \in heap, PopDue(n) PROVE PhaseInv'
  <2>1. PICK i \in Items :
           /\ i \in DOMAIN entries /\ ~entries[i].paused /\ entries[i].next <= sched.now
           /\ sched.at = "ticking" /\ UNCHANGED now
           /\ \/ \E e \in Entries :
                   e.period = entries[i].period /\ Advances(i, e) /\ entries' = With(i, e)
              \/ entries' = Without(i) /\ Forget(i)
    BY <1>l, PopEffects
  <2>2. CASE entries' = Without(i) /\ Forget(i)
    BY <2>1, <2>2, <1>3
  <2>3. ASSUME NEW e \in Entries, e.period = entries[i].period, Advances(i, e),
               entries' = With(i, e)
        PROVE  PhaseInv'
    <3>1. PICK late \in Nat, steps \in Nat \ {0} :
            \/ /\ e.next = entries[i].next + steps * entries[i].period
               /\ e.next - e.period <= now /\ UNCHANGED phase
            \/ Phased(i, e.next, e.period, late + 1)
      BY <2>1, <2>3, Advancing
    <3>2. CASE /\ e.next = entries[i].next + steps * entries[i].period
               /\ e.next - e.period <= now /\ UNCHANGED phase
      <4> DEFINE from == phase[i]
                 next == entries[i].next
                 p == entries[i].period
      <4>1. from \in Nat /\ next \in Nat /\ p \in Nat \ {0}
        BY <2>1, EntryParts
      <4>2. from <= next /\ (next - from) % p = 0
        BY <2>1 DEF PhaseInv, Running, OnPhase, IsTick
      <4>3. e.next = next + steps * p /\ e.period = p
        BY <2>3, <3>2
      <4> HIDE DEF from, next, p
      <4>4. steps * p \in Nat /\ ((next - from) + steps * p) % p = 0
        <5> DEFINE a == next - from
        <5>1. a \in Nat /\ a % p = 0
          BY <4>1, <4>2
        <5> HIDE DEF a
        <5>2. steps * p \in Nat /\ (a + steps * p) % p = 0
          BY <4>1, <5>1, PeriodsLater
        <5> QED
          BY <5>2 DEF a
      <4>5. from <= e.next /\ e.next - from = (next - from) + steps * p
        BY <4>1, <4>2, <4>3, <4>4
      <4>6. phase[i] <= e.next /\ (e.next - phase[i]) % e.period = 0
        BY <4>3, <4>4, <4>5 DEF from
      <4> QED
        BY <1>5, <2>1, <2>3, <3>2, <4>6
    <3>3. CASE Phased(i, e.next, e.period, late + 1)
      BY <1>4, <2>1, <2>3, <3>3
    <3> QED
      BY <3>1, <3>2, <3>3
  <2> QED
    BY <2>1, <2>2, <2>3
<1> QED
  BY <1>a, <1>b, <1>c, <1>d, <1>e, <1>f, <1>h, <1>i, <1>j, <1>k, <1>l, NextSteps

LEMMA StallKept ==
  ASSUME HandleShape, SchedShape, GhostShape, LiveInv, NodeInv, TickInv, StallInv, CyclicNext
  PROVE  StallInv'
<1>0. CountMax \in Nat \ {0} /\ now \in Nat
  BY CyclicAssumption DEF HandleShape
<1>1. ASSUME UNCHANGED <<now, entries, stalled>> PROVE StallInv'
  BY <1>1 DEF StallInv, Running, Outstanding
<1>2. ASSUME NEW i, NEW e, entries' = With(i, e), UNCHANGED <<now, stalled>>,
             ~stalled /\ ~e.paused => TicksBy(now, e.next, e.period) <= CountMax
      PROVE  StallInv'
  <2> SUFFICES ASSUME ~stalled', NEW j \in DOMAIN entries', ~entries'[j].paused
               PROVE  TicksBy(now, entries'[j].next, entries'[j].period) <= CountMax
    BY <1>2 DEF StallInv, Running, Outstanding
  <2>1. CASE j = i
    BY <1>2, <2>1 DEF With
  <2>2. CASE j # i
    <3>1. j \in DOMAIN entries /\ entries'[j] = entries[j]
      BY <1>2, <2>2 DEF With
    <3> QED
      BY <1>2, <3>1 DEF StallInv, Running, Outstanding
  <2> QED
    BY <2>1, <2>2
<1>3. ASSUME NEW i, entries' = Without(i), UNCHANGED <<now, stalled>> PROVE StallInv'
  BY <1>3 DEF StallInv, Running, Outstanding, Without
<1>4. ASSUME NEW i \in Items, NEW e \in Entries, entries' = With(i, e), UNCHANGED now,
             NEW counted, Phased(i, e.next, e.period, counted), now <= e.next
      PROVE  StallInv'
  <2>1. e.next \in Nat /\ e.period \in Nat \ {0}
    BY CyclicAssumption DEF Entries
  <2>2. TicksBy(now, e.next, e.period) \in Nat /\ TicksBy(now, e.next, e.period) <= 1
    BY <1>0, <1>4, <2>1, TicksAhead, TickCounts
  <2> QED
    BY <1>0, <1>2, <1>4, <2>2 DEF Phased
<1>a. CASE OutsideNext /\ ~Elapse
  <2>1. UNCHANGED <<now, stalled>>
    BY <1>a DEF OutsideNext, CallNext, HandleNext, CloseLink, WakeNext, SetFrame, SetPeriod,
       SetPaused, PushTrigger, TriggerSkipped, Writes, Schedule, StopCall, Dropped, Detached,
       Leaves, StopCancelled, Wake, SendWake, ghostVars
  <2> QED
    BY <1>a, <1>1, <2>1, OutsideEffects
<1>b. CASE Elapse
  <2>1. /\ now' = now + 1 /\ UNCHANGED entries
        /\ stalled' = (stalled \/ \E i \in Running :
             TicksBy(now + 1, entries[i].next, entries[i].period) > CountMax)
    BY <1>b DEF Elapse
  <2> SUFFICES ASSUME ~stalled', NEW i \in Running
               PROVE  TicksBy(now + 1, entries[i].next, entries[i].period) <= CountMax
    BY <2>1 DEF StallInv, Running, Outstanding
  <2> DEFINE next == entries[i].next
             period == entries[i].period
  <2>2. next \in Nat /\ period \in Nat \ {0} /\ now + 1 \in Nat
    BY <1>0, EntryParts DEF Running
  <2>3. ~(TicksBy(now + 1, next, period) > CountMax)
    BY <2>1
  <2> HIDE DEF next, period
  <2>4. TicksBy(now + 1, next, period) \in Nat
    BY <2>2, TickCounts
  <2>5. TicksBy(now + 1, next, period) <= CountMax
    BY <1>0, <2>3, <2>4
  <2> QED
    BY <2>5 DEF next, period
<1>c. CASE TakeAdd
  <2>1. PICK i \in Items, e \in Entries :
          /\ entries' = With(i, e) /\ Phased(i, e.next, e.period, 0) /\ now <= e.next
          /\ UNCHANGED now
    BY <1>c, AddEffects
  <2> QED
    BY <2>1, <1>4
<1>d. CASE TakeUpdate
  BY <1>d, <1>1, UpdateEffects DEF ghostVars
<1>e. CASE TakeStop
  BY <1>e, <1>3, StopEffects DEF Forget
<1>f. CASE EndNext
  BY <1>f, EndEffects DEF SchedulerEnds, StallInv, Running
<1>g. CASE ClearFlag \/ TakeState \/ TickStarts \/ TickEnds
  BY <1>g, <1>1 DEF ClearFlag, TakeState, TickStarts, TickEnds, Loop, ghostVars
<1>h. CASE TakeTriggers
  <2>1. PICK i \in Items, e \in Entries :
          /\ i \in DOMAIN entries /\ entries' = With(i, e) /\ UNCHANGED now
          /\ \/ /\ Phased(i, e.next, e.period, slot[i].triggers + Outstanding(i))
                /\ e.next = now + e.period
             \/ /\ e.next = entries[i].next /\ UNCHANGED stalled
                /\ e.paused \/ (e.paused = entries[i].paused /\ e.period = entries[i].period)
    BY <1>h, TriggersEffects
  <2>2. CASE /\ Phased(i, e.next, e.period, slot[i].triggers + Outstanding(i))
             /\ e.next = now + e.period
    <3>1. now <= e.next
      BY <1>0, <2>2, CyclicAssumption DEF Entries
    <3> QED
      BY <2>1, <2>2, <3>1, <1>4
  <2>3. CASE /\ e.next = entries[i].next /\ UNCHANGED stalled
             /\ e.paused \/ (e.paused = entries[i].paused /\ e.period = entries[i].period)
    <3>1. ~stalled /\ ~e.paused => TicksBy(now, e.next, e.period) <= CountMax
      BY <2>1, <2>3 DEF StallInv, Running, Outstanding
    <3> QED
      BY <2>1, <2>3, <3>1, <1>2
  <2> QED
    BY <2>1, <2>2, <2>3
<1>k. ASSUME NEW n \in heap, PopStale(n) PROVE StallInv'
  BY <1>k, <1>1 DEF PopStale, ghostVars
<1>l. ASSUME NEW n \in heap, PopDue(n) PROVE StallInv'
  <2>1. PICK i \in Items :
           /\ i \in DOMAIN entries /\ ~entries[i].paused /\ entries[i].next <= sched.now
           /\ sched.at = "ticking" /\ UNCHANGED now
           /\ \/ \E e \in Entries :
                   e.period = entries[i].period /\ Advances(i, e) /\ entries' = With(i, e)
              \/ entries' = Without(i) /\ Forget(i)
    BY <1>l, PopEffects
  <2>2. CASE entries' = Without(i) /\ Forget(i)
    BY <2>1, <2>2, <1>3 DEF Forget
  <2>3. ASSUME NEW e \in Entries, e.period = entries[i].period, Advances(i, e),
               entries' = With(i, e)
        PROVE  StallInv'
    <3>1. PICK late \in Nat, steps \in Nat \ {0} :
            \/ TicksBy(now, e.next, e.period) = Outstanding(i) - steps /\ UNCHANGED stalled
            \/ now <= e.next /\ Phased(i, e.next, e.period, late + 1)
      BY <2>1, <2>3, Advancing
    <3>2. CASE TicksBy(now, e.next, e.period) = Outstanding(i) - steps /\ UNCHANGED stalled
      <4>1. Outstanding(i) \in Nat /\ (~stalled => Outstanding(i) <= CountMax)
        BY <2>1, EntryParts DEF StallInv, Running
      <4>2. ~stalled => TicksBy(now, e.next, e.period) <= CountMax
        BY <1>0, <3>2, <4>1
      <4> QED
        BY <1>2, <2>1, <2>3, <3>2, <4>2
    <3>3. CASE now <= e.next /\ Phased(i, e.next, e.period, late + 1)
      BY <1>4, <2>1, <2>3, <3>3
    <3> QED
      BY <3>1, <3>2, <3>3
  <2> QED
    BY <2>1, <2>2, <2>3
<1> QED
  BY <1>a, <1>b, <1>c, <1>d, <1>e, <1>f, <1>g, <1>h, <1>k, <1>l, NextSteps

(* Types of what the application sees.                                     *)

\* A call that writes leaves a newer value, or one more trigger to send, in the slot.
Written(c, i) ==
  /\ handle[i] = "held" /\ caller[c].at = "idle"
  /\ caller' = [caller EXCEPT ![c] = [at |-> "wake", item |-> i]]
  /\ \E value \in Slots :
       /\ value.queued = slot[i].queued
       /\ slot' = [slot EXCEPT ![i] = value]
       /\ \/ /\ value.triggers = slot[i].triggers + 1
             /\ uncounted' = [uncounted EXCEPT ![i] = @ + 1]
          \/ value.triggers = slot[i].triggers /\ UNCHANGED uncounted
  /\ calls' = calls + 1 /\ calls < MaxCalls
  /\ UNCHANGED <<now, handle, commands, entries, heap, sched, phase, stalled>>

LEMMA CallEffects ==
  ASSUME HandleShape, CallNext
  PROVE  \/ \E c \in Callers, i \in Items : Written(c, i)
         \/ calls' = calls + 1 /\ calls < MaxCalls
            /\ UNCHANGED <<now, slot, handle, caller, commands, entries, heap, sched, ghostVars>>
<1>1. PICK c \in Callers, i \in Items :
        \/ SetFrame(c, i) \/ PushTrigger(c, i) \/ TriggerSkipped(c, i)
        \/ \E period \in Periods : SetPeriod(c, i, period)
        \/ \E paused \in {"yes", "no"} : SetPaused(c, i, paused)
  BY DEF CallNext
<1>2. slot[i] \in Slots /\ MaxBurst \in Nat
  BY CyclicAssumption DEF HandleShape
<1>3. CASE SetFrame(c, i)
  <2> DEFINE value == [slot[i] EXCEPT !.frame = @ + 1]
  <2>1. value \in Slots /\ value.queued = slot[i].queued /\ value.triggers = slot[i].triggers
    BY <1>2 DEF Slots
  <2>2. Written(c, i)
    BY <1>3, <2>1 DEF SetFrame, Writes, Written
  <2> QED
    BY <2>2
<1>4. CASE PushTrigger(c, i)
  <2> DEFINE value == [slot[i] EXCEPT !.triggers = @ + 1]
  <2>1. slot[i].triggers \in 0..MaxBurst /\ slot[i].triggers < MaxBurst
    BY <1>2, <1>4 DEF PushTrigger, Slots
  <2>2. value \in Slots /\ value.queued = slot[i].queued /\ value.triggers = slot[i].triggers + 1
    BY <1>2, <2>1 DEF Slots
  <2>3. Written(c, i)
    BY <1>4, <2>2 DEF PushTrigger, Writes, Written
  <2> QED
    BY <2>3
<1>5. CASE TriggerSkipped(c, i)
  BY <1>5 DEF TriggerSkipped
<1>6. ASSUME NEW period \in Periods, SetPeriod(c, i, period) PROVE Written(c, i)
  <2> DEFINE value == [slot[i] EXCEPT !.period = period]
  <2>1. value \in Slots /\ value.queued = slot[i].queued /\ value.triggers = slot[i].triggers
    BY <1>2 DEF Slots
  <2> QED
    BY <1>6, <2>1 DEF SetPeriod, Writes, Written
<1>7. ASSUME NEW paused \in {"yes", "no"}, SetPaused(c, i, paused) PROVE Written(c, i)
  <2> DEFINE value == [slot[i] EXCEPT !.paused = paused]
  <2>1. value \in Slots /\ value.queued = slot[i].queued /\ value.triggers = slot[i].triggers
    BY <1>2 DEF Slots
  <2> QED
    BY <1>7, <2>1 DEF SetPaused, Writes, Written
<1> QED
  BY <1>1, <1>3, <1>4, <1>5, <1>6, <1>7

LEMMA GhostShapeKept ==
  ASSUME HandleShape, SchedShape, GhostShape, LiveInv, NodeInv, CyclicNext
  PROVE  GhostShape'
<1>0. phase \in [Items -> Nat] /\ uncounted \in [Items -> Int] /\ stalled \in BOOLEAN
  BY DEF GhostShape
<1>1. ASSUME UNCHANGED ghostVars PROVE GhostShape'
  BY <1>0, <1>1 DEF GhostShape, ghostVars
<1>2. ASSUME NEW i \in Items, NEW x \in Int, uncounted' = [uncounted EXCEPT ![i] = x],
             UNCHANGED <<phase, stalled>>
      PROVE  GhostShape'
  BY <1>0, <1>2 DEF GhostShape
<1>3. ASSUME NEW i \in Items, Forget(i) PROVE GhostShape'
  BY <1>0, <1>3 DEF Forget, GhostShape
<1>4. ASSUME NEW i \in Items, NEW e \in Entries, NEW counted \in Int,
             Phased(i, e.next, e.period, counted)
      PROVE  GhostShape'
  <2>1. e.next \in Nat /\ e.period \in Nat \ {0} /\ now \in Nat
    BY CyclicAssumption DEF Entries, HandleShape
  <2>2. TicksBy(now, e.next, e.period) \in Nat
    BY <2>1, TickCounts
  <2>3. uncounted[i] - counted + TicksBy(now, e.next, e.period) \in Int
    BY <1>0, <1>4, <2>2
  <2>4. uncounted' \in [Items -> Int] /\ phase' \in [Items -> Nat] /\ UNCHANGED stalled
    BY <1>0, <1>4, <2>1, <2>3 DEF Phased
  <2> QED
    BY <1>0, <2>4 DEF GhostShape
<1>a. CASE CallNext
  <2>1. ASSUME NEW c \in Callers, NEW i \in Items, Written(c, i) PROVE GhostShape'
    <3>1. /\ \/ UNCHANGED uncounted
             \/ uncounted' = [uncounted EXCEPT ![i] = uncounted[i] + 1]
          /\ UNCHANGED <<phase, stalled>> /\ uncounted[i] + 1 \in Int
      BY <1>0, <2>1 DEF Written
    <3> QED
      BY <1>1, <1>2, <3>1 DEF ghostVars
  <2> QED
    BY <1>a, <1>1, <2>1, CallEffects
<1>b. CASE OutsideNext /\ ~CallNext /\ ~Elapse
  <2>1. UNCHANGED ghostVars
    BY <1>b DEF OutsideNext, HandleNext, CloseLink, WakeNext, Schedule, StopCall,
       Dropped, Detached, Leaves, StopCancelled, Wake, SendWake
  <2> QED
    BY <1>1, <2>1
<1>c. CASE Elapse
  <2>1. /\ uncounted' = [i \in Items |-> IF i \in Running /\ IsTick(i, now + 1)
                                        THEN uncounted[i] + 1 ELSE uncounted[i]]
        /\ UNCHANGED phase /\ stalled' \in BOOLEAN
    BY <1>0, <1>c DEF Elapse
  <2>2. uncounted' \in [Items -> Int]
    BY <1>0, <2>1
  <2> QED
    BY <1>0, <2>1, <2>2 DEF GhostShape
<1>d. CASE TakeAdd
  <2>1. PICK i \in Items, e \in Entries : Phased(i, e.next, e.period, 0)
    BY <1>d, AddEffects
  <2> QED
    BY <1>4, <2>1
<1>e. CASE TakeUpdate
  BY <1>e, <1>1, UpdateEffects
<1>f. CASE TakeStop
  BY <1>f, <1>3, StopEffects
<1>g. CASE EndNext \/ ClearFlag \/ TakeState \/ TickStarts \/ TickEnds
  BY <1>g, <1>1, EndEffects DEF SchedulerEnds, ClearFlag, TakeState, TickStarts, TickEnds
<1>h. CASE TakeTriggers
  <2>1. PICK i \in Items, e \in Entries :
          /\ i \in DOMAIN entries
          /\ \/ Phased(i, e.next, e.period, slot[i].triggers + Outstanding(i))
             \/ /\ UNCHANGED <<phase, stalled>>
                /\ \/ uncounted' =
                        [uncounted EXCEPT ![i] = @ - slot[i].triggers - Outstanding(i)]
                   \/ uncounted' = [uncounted EXCEPT ![i] = @ - slot[i].triggers - 0]
    BY <1>h, TriggersEffects
  <2>2. slot[i].triggers \in Nat /\ Outstanding(i) \in Nat /\ uncounted[i] \in Int
    BY <2>1, CyclicAssumption, EntryParts DEF HandleShape, Slots
  <2>3. /\ slot[i].triggers + Outstanding(i) \in Int
        /\ uncounted[i] - slot[i].triggers - Outstanding(i) \in Int
        /\ uncounted[i] - slot[i].triggers - 0 \in Int
    BY <2>2
  <2> QED
    BY <1>2, <1>4, <2>1, <2>3
<1>i. ASSUME NEW n \in heap, PopStale(n) PROVE GhostShape'
  BY <1>i, <1>1 DEF PopStale
<1>j. ASSUME NEW n \in heap, PopDue(n) PROVE GhostShape'
  <2>1. PICK i \in Items :
          \/ \E e \in Entries : e.period = entries[i].period /\ Advances(i, e)
          \/ Forget(i)
    BY <1>j, PopEffects
  <2>2. ASSUME NEW e \in Entries, Advances(i, e) PROVE GhostShape'
    <3>1. PICK late \in Nat :
            \/ /\ uncounted' = [uncounted EXCEPT ![i] = @ - (late + 1)]
               /\ UNCHANGED <<phase, stalled>>
            \/ Phased(i, e.next, e.period, late + 1)
      BY <2>2 DEF Advances
    <3>2. uncounted[i] - (late + 1) \in Int /\ late + 1 \in Int
      BY <1>0
    <3> QED
      BY <1>2, <1>4, <3>1, <3>2
  <2> QED
    BY <1>3, <2>1, <2>2
<1> QED
  BY <1>a, <1>b, <1>c, <1>d, <1>e, <1>f, <1>g, <1>h, <1>i, <1>j, NextSteps DEF OutsideNext

LEMMA CallerStates ==
  ASSUME HandleShape, NEW c \in Callers, caller[c].at # "idle"
  PROVE  /\ caller[c] \in Callings /\ caller[c].item \in Items
         /\ caller[c] = [at |-> caller[c].at, item |-> caller[c].item]
  BY DEF HandleShape, Callings, Idle

LEMMA SlotValues ==
  ASSUME HandleShape, NEW i \in Items, NEW flag \in BOOLEAN
  PROVE  /\ [slot EXCEPT ![i].queued = flag] \in [Items -> Slots]
         /\ [slot EXCEPT ![i].triggers = 0] \in [Items -> Slots]
         /\ [slot EXCEPT ![i].period = Unset, ![i].paused = "unset"] \in [Items -> Slots]
<1>1. slot \in [Items -> Slots] /\ slot[i] \in Slots /\ 0 \in 0..MaxBurst
  BY CyclicAssumption DEF HandleShape
<1>2. /\ [slot[i] EXCEPT !.queued = flag] \in Slots
      /\ [slot[i] EXCEPT !.triggers = 0] \in Slots
      /\ [slot[i] EXCEPT !.period = Unset, !.paused = "unset"] \in Slots
  BY <1>1 DEF Slots
<1>3. [slot EXCEPT ![i].queued = flag] \in [Items -> Slots]
  BY <1>1, <1>2
<1>4. [slot EXCEPT ![i].triggers = 0] \in [Items -> Slots]
  BY <1>1, <1>2
<1>5. [slot EXCEPT ![i].period = Unset, ![i].paused = "unset"] \in [Items -> Slots]
  BY <1>1, <1>2
<1> QED
  BY <1>3, <1>4, <1>5

LEMMA HandleShapeKept ==
  ASSUME HandleShape, SchedShape, GhostShape, LiveInv, NodeInv, CyclicNext
  PROVE  HandleShape'
<1> DEFINE H == {"none", "held", "waiting", "stopped", "gone"}
           C == {Idle} \cup Callings
<1>0. /\ now \in 0..MaxTime /\ calls \in 0..MaxCalls /\ MaxTime \in Nat /\ MaxCalls \in Nat
      /\ slot \in [Items -> Slots] /\ handle \in [Items -> H] /\ caller \in [Callers -> C]
      /\ commands \in Seq(Commands)
  BY CyclicAssumption DEF HandleShape
<1>1. ASSUME now' \in 0..MaxTime, calls' \in 0..MaxCalls, slot' \in [Items -> Slots],
             handle' \in [Items -> H], caller' \in [Callers -> C], commands' \in Seq(Commands)
      PROVE  HandleShape'
  BY <1>1 DEF HandleShape
<1>2. \A i \in Items, how \in H : [handle EXCEPT ![i] = how] \in [Items -> H]
  BY <1>0
<1>3. ASSUME NEW c \in Callers, NEW x \in C PROVE [caller EXCEPT ![c] = x] \in [Callers -> C]
  BY <1>0
<1>a. CASE OutsideNext
  <2>0. commands' \in Seq(Commands)
    BY <1>0, <1>a, OutsideCommands DEF Grown
  <2>a. CASE CallNext
    <3>1. ASSUME NEW c \in Callers, NEW i \in Items, Written(c, i) PROVE HandleShape'
      <4>1. [at |-> "wake", item |-> i] \in C
        BY DEF Callings
      <4>2. caller' \in [Callers -> C]
        <5> HIDE DEF C
        <5> QED
          BY <1>3, <3>1, <4>1 DEF Written
      <4>3. slot' \in [Items -> Slots]
        BY <1>0, <3>1 DEF Written
      <4>4. calls' \in 0..MaxCalls /\ now' \in 0..MaxTime /\ handle' \in [Items -> H]
        BY <1>0, <3>1 DEF Written
      <4> QED
        BY <1>1, <2>0, <4>2, <4>3, <4>4
    <3>2. CASE calls' = calls + 1 /\ calls < MaxCalls
               /\ UNCHANGED <<now, slot, handle, caller, commands, entries, heap, sched, ghostVars>>
      <4>1. calls' \in 0..MaxCalls
        BY <1>0, <3>2
      <4> HIDE DEF C
      <4> QED
        BY <1>0, <1>1, <2>0, <3>2, <4>1
    <3> QED
      BY <2>a, <3>1, <3>2, CallEffects
  <2>b. CASE HandleNext
    <3>1. PICK i \in Items :
            \/ \E config \in Configs : Schedule(i, config)
            \/ StopCall(i) \/ Dropped(i) \/ Detached(i) \/ StopCancelled(i)
      BY <2>b DEF HandleNext
    <3>2. /\ \E how \in H : handle' = [handle EXCEPT ![i] = how]
          /\ UNCHANGED <<now, slot, caller, calls>>
      BY <3>1 DEF Schedule, StopCall, Dropped, Detached, Leaves, StopCancelled
    <3> HIDE DEF C, H
    <3> QED
      BY <1>0, <1>1, <1>2, <2>0, <3>2
  <2>c. CASE CloseLink
    <3> HIDE DEF C
    <3> QED
      BY <1>0, <1>1, <2>0, <2>c DEF CloseLink
  <2>d. CASE Elapse
    <3>1. now' \in 0..MaxTime
      BY <1>0, <2>d DEF Elapse
    <3> HIDE DEF C
    <3> QED
      BY <1>0, <1>1, <2>0, <2>d, <3>1 DEF Elapse
  <2>e. ASSUME NEW c \in Callers, Wake(c) PROVE HandleShape'
    <3> DEFINE i == caller[c].item
    <3>1. i \in Items /\ caller[c] = [at |-> "wake", item |-> i]
      BY <2>e, CallerStates DEF Wake
    <3>2. [caller[c] EXCEPT !.at = "send"] = [at |-> "send", item |-> i]
      BY <3>1
    <3>3. \E x \in C : caller' = [caller EXCEPT ![c] = x]
      <4>1. Idle \in C /\ [at |-> "send", item |-> i] \in C
        BY <3>1 DEF Callings
      <4>2. caller' = [caller EXCEPT ![c] = IF slot[i].queued THEN Idle
                                            ELSE [caller[c] EXCEPT !.at = "send"]]
        BY <2>e, <1>0 DEF Wake
      <4> HIDE DEF C
      <4> QED
        BY <3>2, <4>1, <4>2
    <3>4. slot' \in [Items -> Slots]
      BY <2>e, <3>1, SlotValues DEF Wake
    <3> HIDE DEF C
    <3> QED
      BY <1>0, <1>1, <1>3, <2>0, <2>e, <3>3, <3>4 DEF Wake
  <2>f. ASSUME NEW c \in Callers, SendWake(c) PROVE HandleShape'
    <3> DEFINE i == caller[c].item
    <3>1. i \in Items
      BY <2>f, CallerStates DEF SendWake
    <3>2. slot' \in [Items -> Slots]
      <4>1. slot' = slot \/ slot' = [slot EXCEPT ![i].queued = FALSE]
        BY <2>f DEF SendWake
      <4>2. [slot EXCEPT ![i].queued = FALSE] \in [Items -> Slots]
        BY <3>1, SlotValues
      <4> QED
        BY <1>0, <4>1, <4>2
    <3>3. Idle \in C /\ caller' = [caller EXCEPT ![c] = Idle]
      BY <2>f DEF SendWake
    <3>4. caller' \in [Callers -> C]
      <4> HIDE DEF C
      <4> QED
        BY <1>3, <3>3
    <3> HIDE DEF C
    <3> QED
      BY <1>0, <1>1, <2>0, <2>f, <3>2, <3>4 DEF SendWake
  <2> QED
    BY <1>a, <2>a, <2>b, <2>c, <2>d, <2>e, <2>f DEF OutsideNext, WakeNext
<1>b. CASE TakeAdd
  <2>1. Shrunk /\ UNCHANGED <<now, slot, handle, caller, calls>>
    BY <1>b, AddEffects
  <2> HIDE DEF C
  <2> QED
    BY <1>0, <1>1, <2>1 DEF Shrunk
<1>c. CASE TakeUpdate
  <2>1. Shrunk /\ UNCHANGED <<now, slot, handle, caller, calls>>
    BY <1>c, UpdateEffects
  <2> HIDE DEF C
  <2> QED
    BY <1>0, <1>1, <2>1 DEF Shrunk
<1>d. CASE TakeStop
  <2>1. PICK i \in Items :
          /\ Shrunk /\ (handle' = handle \/ handle' = [handle EXCEPT ![i] = "stopped"])
          /\ UNCHANGED <<now, slot, caller, calls>>
    BY <1>d, StopEffects
  <2>2. handle' \in [Items -> H]
    BY <1>0, <2>1
  <2> HIDE DEF C, H
  <2> QED
    BY <1>0, <1>1, <2>1, <2>2 DEF Shrunk
<1>e. CASE EndNext
  <2>1. handle' \in [Items -> H]
    BY <1>0, <1>e, EndEffects DEF SchedulerEnds
  <2>2. commands' \in Seq(Commands) /\ UNCHANGED <<now, caller, calls>>
    BY <1>e, EmptySeq, EndEffects DEF SchedulerEnds
  <2>3. slot' \in [Items -> Slots]
    <3>1. CASE TakeClose \/ AddPanics
      BY <1>0, <3>1 DEF TakeClose, AddPanics, Takes
    <3>2. CASE UpdatePanics
      <4>1. sched.item \in Items /\ slot' = [slot EXCEPT ![sched.item].triggers = 0]
        BY <3>2, SchedStates DEF UpdatePanics
      <4> QED
        BY <4>1, SlotValues
    <3> QED
      BY <1>e, <3>1, <3>2 DEF EndNext
  <2> HIDE DEF C, H
  <2> QED
    BY <1>0, <1>1, <2>1, <2>2, <2>3
<1>f. CASE ClearFlag
  <2>1. slot' \in [Items -> Slots]
    BY <1>f, SchedStates, SlotValues DEF ClearFlag
  <2> HIDE DEF C
  <2> QED
    BY <1>0, <1>1, <1>f, <2>1 DEF ClearFlag
<1>g. CASE TakeState
  <2>1. slot' \in [Items -> Slots]
    BY <1>g, SchedStates, SlotValues DEF TakeState
  <2> HIDE DEF C
  <2> QED
    BY <1>0, <1>1, <1>g, <2>1 DEF TakeState
<1>h. CASE TakeTriggers
  <2>1. PICK i \in Items :
           /\ slot' = [slot EXCEPT ![i].triggers = 0]
           /\ UNCHANGED <<now, handle, caller, commands, calls>>
    BY <1>h, TriggersEffects
  <2>2. slot' \in [Items -> Slots]
    BY <2>1, SlotValues
  <2> HIDE DEF C
  <2> QED
    BY <1>0, <1>1, <2>1, <2>2
<1>i. CASE TickStarts \/ TickEnds
  <2>1. UNCHANGED <<now, slot, handle, caller, commands, calls>>
    BY <1>i DEF TickStarts, TickEnds
  <2> HIDE DEF C
  <2> QED
    BY <1>0, <1>1, <2>1
<1>j. ASSUME NEW n \in heap, PopStale(n) \/ PopDue(n) PROVE HandleShape'
  <2>1. UNCHANGED <<now, slot, handle, caller, commands, calls>>
    BY <1>j DEF PopStale, PopDue
  <2> HIDE DEF C
  <2> QED
    BY <1>0, <1>1, <2>1
<1> QED
  BY <1>a, <1>b, <1>c, <1>d, <1>e, <1>f, <1>g, <1>h, <1>i, <1>j, NextSteps

(* What a step does to the channel and to the handles, for the invariants  *)
(* that relate the two.                                                    *)

LEMMA GrownQueued ==
  ASSUME NEW command, Grown(command), NEW kinds, NEW k \in Queued(kinds)'
  PROVE  \/ k \in Queued(kinds) /\ commands'[k] = commands[k]
         \/ k = Len(commands) + 1 /\ commands'[k] = command /\ command.kind \in kinds
  BY DEF Grown, Queued

LEMMA ShrunkQueued ==
  ASSUME Shrunk, NEW kinds, NEW k \in Queued(kinds)'
  PROVE  k \in Nat /\ k + 1 \in Queued(kinds) /\ commands'[k] = commands[k + 1]
  BY DEF Shrunk, Queued

LEMMA SameQueued ==
  ASSUME UNCHANGED commands, NEW kinds
  PROVE  Queued(kinds)' = Queued(kinds)
  BY DEF Queued

LEMMA HandleEffects ==
  ASSUME HandleShape, HandleNext
  PROVE  \E i \in Items :
           /\ \/ /\ handle[i] = "none" /\ handle' = [handle EXCEPT ![i] = "held"] /\ ~Ended
                 /\ Admitted /\ \E config \in Configs : Grown(Add(i, config))
              \/ /\ handle[i] = "held" /\ Using(i) = {}
                 /\ \E how \in {"waiting", "gone"} : handle' = [handle EXCEPT ![i] = how]
                 /\ \/ UNCHANGED commands
                    \/ ~Ended /\ \E reply \in BOOLEAN : Grown(Stop(i, reply))
              \/ /\ handle[i] = "waiting" /\ handle' = [handle EXCEPT ![i] = "gone"]
                 /\ UNCHANGED commands
           /\ UNCHANGED <<now, slot, caller, entries, heap, sched, calls, ghostVars>>
<1>1. PICK i \in Items :
        \/ \E config \in Configs : Schedule(i, config)
        \/ StopCall(i) \/ Dropped(i) \/ Detached(i) \/ StopCancelled(i)
  BY DEF HandleNext
<1>2. ASSUME NEW reply \in BOOLEAN, Send(Stop(i, reply))
      PROVE  UNCHANGED commands \/ (~Ended /\ Grown(Stop(i, reply)))
  <2>1. Stop(i, reply) \in Commands
    BY DEF Stop, Commands, Orders
  <2>2. IF Ended THEN UNCHANGED commands ELSE Grown(Stop(i, reply))
    BY <1>2, <2>1, Sending DEF HandleShape
  <2> QED
    BY <2>2
<1>3. ASSUME NEW config \in Configs, Schedule(i, config)
      PROVE  /\ handle[i] = "none" /\ handle' = [handle EXCEPT ![i] = "held"] /\ ~Ended
             /\ Admitted /\ Grown(Add(i, config))
             /\ UNCHANGED <<now, slot, caller, entries, heap, sched, calls, ghostVars>>
  <2>1. Add(i, config) \in Commands
    BY DEF Add, Commands, Orders
  <2> QED
    BY <1>3, <2>1, Sending DEF Schedule, HandleShape
<1>4. CASE StopCall(i)
  BY <1>4, <1>2 DEF StopCall, Leaves
<1>5. CASE Dropped(i)
  BY <1>5, <1>2 DEF Dropped, Leaves
<1>6. CASE Detached(i)
  BY <1>6 DEF Detached, Leaves
<1>7. CASE StopCancelled(i)
  BY <1>7 DEF StopCancelled
<1> QED
  BY <1>1, <1>3, <1>4, <1>5, <1>6, <1>7

LEMMA WakeEffects ==
  ASSUME HandleShape, NEW c \in Callers, WakeNext(c)
  PROVE  \E i \in Items :
           /\ caller[c].item = i
           /\ \/ /\ caller[c].at = "wake" /\ slot[i].queued /\ UNCHANGED <<slot, commands>>
                 /\ caller' = [caller EXCEPT ![c] = Idle]
              \/ /\ caller[c].at = "wake" /\ ~slot[i].queued /\ UNCHANGED commands
                 /\ slot' = [slot EXCEPT ![i].queued = TRUE]
                 /\ caller' = [caller EXCEPT ![c] = [at |-> "send", item |-> i]]
              \/ /\ caller[c].at = "send" /\ caller' = [caller EXCEPT ![c] = Idle]
                 /\ \/ Ended /\ slot' = [slot EXCEPT ![i].queued = FALSE] /\ UNCHANGED commands
                    \/ ~Ended /\ Grown(ApplyUpdate(i)) /\ UNCHANGED slot
           /\ UNCHANGED <<now, handle, entries, heap, sched, calls, ghostVars>>
<1> DEFINE i == caller[c].item
<1>1. caller[c].at \in {"wake", "send"}
  BY DEF WakeNext, Wake, SendWake
<1>2. i \in Items /\ caller[c] = [at |-> caller[c].at, item |-> i]
  BY <1>1, CallerStates
<1>3. CASE Wake(c)
  <2>1. /\ caller[c].at = "wake"
        /\ caller' = [caller EXCEPT ![c] = IF slot[i].queued THEN Idle
                                           ELSE [caller[c] EXCEPT !.at = "send"]]
        /\ slot' = [slot EXCEPT ![i].queued = TRUE]
        /\ UNCHANGED <<now, handle, commands, entries, heap, sched, calls, ghostVars>>
    BY <1>3 DEF Wake, HandleShape
  <2>2. [caller[c] EXCEPT !.at = "send"] = [at |-> "send", item |-> i]
    BY <1>2
  <2>3. CASE slot[i].queued
    <3>1. slot[i] \in Slots /\ slot \in [Items -> Slots]
      BY <1>2 DEF HandleShape
    <3>2. slot[i].queued = TRUE
      BY <2>3, <3>1 DEF Slots
    <3>3. [slot[i] EXCEPT !.queued = TRUE] = slot[i]
      BY <3>1, <3>2 DEF Slots
    <3>4. slot' = slot
      BY <1>2, <2>1, <3>1, <3>3
    <3> QED
      BY <1>2, <2>1, <2>3, <3>4
  <2>4. CASE ~slot[i].queued
    BY <1>2, <2>1, <2>2, <2>4
  <2> QED
    BY <2>3, <2>4
<1>4. CASE SendWake(c)
  <2>1. ApplyUpdate(i) \in Commands
    BY <1>2 DEF ApplyUpdate, Commands, Orders
  <2>2. IF Ended THEN UNCHANGED commands ELSE Grown(ApplyUpdate(i))
    BY <1>4, <2>1, Sending DEF SendWake, HandleShape
  <2> QED
    BY <1>2, <1>4, <2>2 DEF SendWake
<1> QED
  BY <1>3, <1>4 DEF WakeNext

LEMMA CloseLinkEffects ==
  ASSUME HandleShape, CloseLink
  PROVE  /\ Grown(Close) /\ ~Ended
         /\ UNCHANGED <<now, slot, handle, caller, entries, heap, sched, calls, ghostVars>>
<1>1. Close \in Commands
  BY DEF Close, Commands
<1> QED
  BY <1>1, Sending DEF CloseLink, HandleShape

(* The life of an item.                                                    *)

\* Only Schedule brings an item, and it brings one that was not there.
LEMMA ComingEffects ==
  ASSUME HandleShape, SchedShape, LiveInv, NodeInv, GhostShape, CyclicNext,
         NEW i \in Items, Coming(i)'
  PROVE  Coming(i) \/ (handle[i] = "none" /\ HandleNext)
<1>1. ASSUME UNCHANGED commands PROVE Coming(i)
  BY <1>1 DEF Coming, Queued
<1>2. ASSUME Shrunk PROVE Coming(i)
  <2>1. PICK k \in Queued({"Add"})' : commands'[k].item = i
    BY DEF Coming
  <2>2. k + 1 \in Queued({"Add"}) /\ commands'[k] = commands[k + 1]
    BY <1>2, ShrunkQueued
  <2> QED
    BY <2>1, <2>2 DEF Coming
<1>3. ASSUME NEW command, Grown(command), ~(command.kind = "Add" /\ command.item = i)
      PROVE  Coming(i)
  <2>1. PICK k \in Queued({"Add"})' : commands'[k].item = i
    BY DEF Coming
  <2>2. \/ k \in Queued({"Add"}) /\ commands'[k] = commands[k]
        \/ commands'[k] = command /\ command.kind \in {"Add"}
    BY <1>3, GrownQueued
  <2> QED
    BY <1>3, <2>1, <2>2 DEF Coming
<1>a. CASE CallNext \/ Elapse
  BY <1>a, <1>1, CallEffects DEF Elapse, Written
<1>b. CASE HandleNext
  <2>1. PICK j \in Items :
          \/ handle[j] = "none" /\ \E config \in Configs : Grown(Add(j, config))
          \/ UNCHANGED commands
          \/ \E reply \in BOOLEAN : Grown(Stop(j, reply))
    BY <1>b, HandleEffects
  <2>2. ASSUME NEW config \in Configs, Grown(Add(j, config)), handle[j] = "none"
        PROVE  Coming(i) \/ (handle[i] = "none" /\ HandleNext)
    BY <1>3, <1>b, <2>2 DEF Add
  <2>3. ASSUME NEW reply \in BOOLEAN, Grown(Stop(j, reply)) PROVE Coming(i)
    BY <1>3, <2>3 DEF Stop
  <2> QED
    BY <1>1, <2>1, <2>2, <2>3
<1>c. CASE CloseLink
  BY <1>c, <1>3, CloseLinkEffects DEF Close
<1>d. ASSUME NEW c \in Callers, WakeNext(c) PROVE Coming(i)
  <2>1. PICK j \in Items : UNCHANGED commands \/ Grown(ApplyUpdate(j))
    BY <1>d, WakeEffects
  <2> QED
    BY <1>1, <1>3, <2>1 DEF ApplyUpdate
<1>e. CASE TakeAdd
  BY <1>e, <1>2, AddEffects
<1>f. CASE TakeUpdate
  BY <1>f, <1>2, UpdateEffects
<1>g. CASE TakeStop
  BY <1>g, <1>2, StopEffects
<1>h. CASE EndNext
  BY <1>h, EndEffects DEF SchedulerEnds, Coming, Queued
<1>i. CASE ClearFlag \/ TakeState \/ TickStarts \/ TickEnds
  BY <1>i, <1>1 DEF ClearFlag, TakeState, TickStarts, TickEnds
<1>j. CASE TakeTriggers
  BY <1>j, <1>1, TriggersEffects
<1>k. ASSUME NEW n \in heap, PopStale(n) \/ PopDue(n) PROVE Coming(i)
  BY <1>k, <1>1 DEF PopStale, PopDue
<1> QED
  BY <1>a, <1>b, <1>c, <1>d, <1>e, <1>f, <1>g, <1>h, <1>i, <1>j, <1>k, NextSteps DEF OutsideNext

\* An item whose Add the channel had before its first command has none behind it.
LEMMA HeadComesLater ==
  ASSUME HandleShape, OrderInv, Shrunk, commands # <<>>, commands[1].kind \in ItemKinds,
         NEW i \in Items, commands[1].item = i
  PROVE  ~Coming(i)'
<1>1. 1 \in Queued(ItemKinds)
  BY EmptySeq, LenProperties DEF HandleShape, Queued
<1>2. ASSUME NEW k \in Queued({"Add"})', commands'[k].item = i PROVE FALSE
  <2>1. k \in Nat /\ k + 1 \in Queued({"Add"}) /\ commands'[k] = commands[k + 1]
    BY ShrunkQueued
  <2>2. k + 1 <= 1
    BY <1>1, <1>2, <2>1 DEF OrderInv
  <2>3. k >= 1
    BY DEF Queued, Shrunk
  <2> QED
    BY <2>1, <2>2, <2>3
<1> QED
  BY <1>2 DEF Coming

\* Once its Add is taken an item does not come again.
LEMMA AddIsGone ==
  ASSUME HandleShape, LifeInv, OrderInv, TakeAdd, NEW i \in Items, commands[1].item = i
  PROVE  ~Coming(i)' /\ handle'[i] # "none"
<1>1. /\ Shrunk /\ commands # <<>> /\ commands[1].kind = "Add" /\ commands[1].item = i
      /\ UNCHANGED handle
  BY AddEffects
<1>2. 1 \in Queued(ItemKinds)
  BY <1>1, EmptySeq, LenProperties DEF HandleShape, Queued, ItemKinds
<1>3. ~Coming(i)'
  BY <1>1, HeadComesLater DEF ItemKinds
<1> QED
  BY <1>1, <1>2, <1>3 DEF LifeInv

LEMMA HandlesMoveOn ==
  ASSUME HandleShape, SchedShape, GhostShape, LiveInv, NodeInv, CyclicNext,
         NEW i \in Items, handle'[i] = "none"
  PROVE  handle[i] = "none"
<1>0. handle \in [Items -> {"none", "held", "waiting", "stopped", "gone"}]
  BY DEF HandleShape
<1>1. ASSUME NEW j \in Items, NEW how \in {"held", "waiting", "stopped", "gone"},
             handle' = [handle EXCEPT ![j] = how]
      PROVE  handle[i] = "none"
  BY <1>0, <1>1
<1>2. CASE CallNext \/ Elapse
  BY <1>2, CallEffects DEF Elapse, Written
<1>3. CASE HandleNext
  BY <1>3, <1>1, HandleEffects
<1>4. CASE CloseLink
  BY <1>4, CloseLinkEffects
<1>5. ASSUME NEW c \in Callers, WakeNext(c) PROVE handle[i] = "none"
  BY <1>5, WakeEffects
<1>6. CASE TakeAdd
  BY <1>6, AddEffects
<1>7. CASE TakeUpdate
  BY <1>7, UpdateEffects
<1>8. CASE TakeStop
  BY <1>8, <1>1, StopEffects
<1>9. CASE EndNext
  BY <1>9, EndEffects DEF SchedulerEnds
<1>10. CASE ClearFlag \/ TakeState \/ TickStarts \/ TickEnds
  BY <1>10 DEF ClearFlag, TakeState, TickStarts, TickEnds
<1>11. CASE TakeTriggers
  BY <1>11, TriggersEffects
<1>12. ASSUME NEW n \in heap, PopStale(n) \/ PopDue(n) PROVE handle[i] = "none"
  BY <1>12 DEF PopStale, PopDue
<1> QED
  BY <1>2, <1>3, <1>4, <1>5, <1>6, <1>7, <1>8, <1>9, <1>10, <1>11, <1>12, NextSteps
  DEF OutsideNext

\* A command of an item that has no handle yet cannot be sent.
LEMMA NoCommandsYet ==
  ASSUME HandleShape, SchedShape, GhostShape, LiveInv, NodeInv, LifeInv, CyclicNext,
         NEW i \in Items, handle'[i] = "none", NEW k \in Queued(ItemKinds)'
  PROVE  commands'[k].item # i
<1>0. handle[i] = "none" /\ \A j \in Queued(ItemKinds) : commands[j].item # i
  BY HandlesMoveOn DEF LifeInv
<1>1. ASSUME UNCHANGED commands PROVE commands'[k].item # i
  BY <1>0, <1>1, SameQueued
<1>2. ASSUME Shrunk PROVE commands'[k].item # i
  BY <1>0, <1>2, ShrunkQueued
<1>3. ASSUME NEW command, Grown(command), command.kind \in ItemKinds => command.item # i
      PROVE  commands'[k].item # i
  BY <1>0, <1>3, GrownQueued
<1>a. CASE CallNext \/ Elapse
  BY <1>a, <1>1, CallEffects DEF Elapse, Written
<1>b. CASE HandleNext
  <2>1. PICK j \in Items :
          \/ /\ handle' = [handle EXCEPT ![j] = "held"]
             /\ \E config \in Configs : Grown(Add(j, config))
          \/ UNCHANGED commands
          \/ handle[j] = "held" /\ \E reply \in BOOLEAN : Grown(Stop(j, reply))
    BY <1>b, HandleEffects
  <2>2. ASSUME NEW config \in Configs, Grown(Add(j, config)),
               handle' = [handle EXCEPT ![j] = "held"]
        PROVE  commands'[k].item # i
    <3>1. j # i
      BY <2>2 DEF HandleShape
    <3> QED
      BY <1>3, <2>2, <3>1 DEF Add
  <2>3. ASSUME NEW reply \in BOOLEAN, Grown(Stop(j, reply)), handle[j] = "held"
        PROVE  commands'[k].item # i
    <3>1. j # i
      BY <1>0, <2>3
    <3> QED
      BY <1>3, <2>3, <3>1 DEF Stop
  <2> QED
    BY <1>1, <2>1, <2>2, <2>3
<1>c. CASE CloseLink
  BY <1>c, <1>3, CloseLinkEffects DEF Close, ItemKinds
<1>d. ASSUME NEW c \in Callers, WakeNext(c) PROVE commands'[k].item # i
  <2>1. PICK j \in Items :
          /\ caller[c].item = j /\ caller[c].at \in {"wake", "send"}
          /\ UNCHANGED commands \/ Grown(ApplyUpdate(j))
    BY <1>d, WakeEffects
  <2>2. c \in Using(j)
    BY <2>1 DEF Using
  <2>3. j # i
    BY <1>0, <2>2 DEF LifeInv
  <2> QED
    BY <1>1, <1>3, <2>1, <2>3 DEF ApplyUpdate
<1>e. CASE TakeAdd
  BY <1>e, <1>2, AddEffects
<1>f. CASE TakeUpdate
  BY <1>f, <1>2, UpdateEffects
<1>g. CASE TakeStop
  BY <1>g, <1>2, StopEffects
<1>h. CASE EndNext
  BY <1>h, EndEffects DEF SchedulerEnds, Queued
<1>i. CASE ClearFlag \/ TakeState \/ TickStarts \/ TickEnds
  BY <1>i, <1>1 DEF ClearFlag, TakeState, TickStarts, TickEnds
<1>j. CASE TakeTriggers
  BY <1>j, <1>1, TriggersEffects
<1>k. ASSUME NEW n \in heap, PopStale(n) \/ PopDue(n) PROVE commands'[k].item # i
  BY <1>k, <1>1 DEF PopStale, PopDue
<1> QED
  BY <1>a, <1>b, <1>c, <1>d, <1>e, <1>f, <1>g, <1>h, <1>i, <1>j, <1>k, NextSteps DEF OutsideNext

\* Nobody writes to the slot of an item that has no handle yet.
LEMMA SlotStaysEmpty ==
  ASSUME HandleShape, SchedShape, GhostShape, LiveInv, NodeInv, LifeInv, OrderInv, CyclicNext,
         NEW i \in Items, handle'[i] = "none"
  PROVE  slot'[i] = EmptySlot /\ uncounted'[i] = 0
<1>0. /\ handle[i] = "none" /\ slot[i] = EmptySlot /\ uncounted[i] = 0
      /\ i \notin DOMAIN entries /\ slot \in [Items -> Slots] /\ uncounted \in [Items -> Int]
  BY HandlesMoveOn DEF LifeInv, HandleShape, GhostShape
<1>1. ASSUME UNCHANGED <<slot, uncounted>> PROVE slot'[i] = EmptySlot /\ uncounted'[i] = 0
  BY <1>0, <1>1
<1>2. ASSUME NEW j \in Items, Forget(j) PROVE uncounted'[i] = 0
  BY <1>0, <1>2 DEF Forget
<1>3. ASSUME NEW j \in DOMAIN entries PROVE j # i
  BY <1>0
<1>a. CASE CallNext
  <2>1. ASSUME NEW c \in Callers, NEW j \in Items, Written(c, j)
        PROVE  slot'[i] = EmptySlot /\ uncounted'[i] = 0
    <3>1. j # i
      BY <1>0, <2>1 DEF Written
    <3> QED
      BY <1>0, <2>1, <3>1 DEF Written
  <2> QED
    BY <1>a, <1>1, <2>1, CallEffects DEF ghostVars
<1>b. CASE HandleNext
  BY <1>b, <1>1, HandleEffects DEF ghostVars
<1>c. CASE CloseLink \/ Elapse
  BY <1>c, <1>0, <1>1, CloseLinkEffects DEF Elapse, Running, ghostVars
<1>d. ASSUME NEW c \in Callers, WakeNext(c) PROVE slot'[i] = EmptySlot /\ uncounted'[i] = 0
  <2>1. PICK j \in Items :
          /\ caller[c].item = j /\ caller[c].at \in {"wake", "send"}
          /\ UNCHANGED slot \/ \E flag \in BOOLEAN : slot' = [slot EXCEPT ![j].queued = flag]
          /\ UNCHANGED ghostVars
    BY <1>d, WakeEffects
  <2>2. c \in Using(j)
    BY <2>1 DEF Using
  <2>3. j # i
    BY <1>0, <2>2 DEF LifeInv
  <2> QED
    BY <1>0, <2>1, <2>3 DEF ghostVars
<1>e. CASE TakeAdd
  <2>1. PICK j \in Items, e \in Entries :
          commands[1].item = j /\ Phased(j, e.next, e.period, 0) /\ UNCHANGED slot
    BY <1>e, AddEffects
  <2>2. j # i
    BY <1>e, <2>1, AddIsGone
  <2> QED
    BY <1>0, <2>1, <2>2 DEF Phased
<1>f. CASE TakeUpdate
  BY <1>f, <1>1, UpdateEffects DEF ghostVars
<1>g. CASE TakeStop
  BY <1>g, <1>0, <1>2, StopEffects
<1>h. CASE EndNext \/ TickStarts \/ TickEnds
  <2>1. UNCHANGED uncounted
    BY <1>h, EndEffects DEF SchedulerEnds, TickStarts, TickEnds, ghostVars
  <2>2. CASE UNCHANGED slot
    BY <1>1, <2>1, <2>2
  <2>3. CASE ~UNCHANGED slot
    <3>1. UpdatePanics
      BY <1>h, <2>3 DEF EndNext, TakeClose, AddPanics, Takes, TickStarts, TickEnds
    <3>2. sched.item \in DOMAIN entries /\ slot' = [slot EXCEPT ![sched.item].triggers = 0]
      BY <3>1, SchedStates DEF UpdatePanics, LiveInv, Held
    <3> QED
      BY <1>0, <2>1, <3>2
  <2> QED
    BY <2>2, <2>3
<1>i. CASE ClearFlag \/ TakeState
  <2>1. sched.item \in DOMAIN entries
    BY <1>i, SchedStates DEF ClearFlag, TakeState, LiveInv, Held
  <2>2. sched.item # i
    BY <1>0, <2>1
  <2> QED
    BY <1>i, <1>0, <2>2 DEF ClearFlag, TakeState, ghostVars
<1>j. CASE TakeTriggers
  <2>1. PICK j \in Items :
           /\ j \in DOMAIN entries /\ slot' = [slot EXCEPT ![j].triggers = 0]
           /\ \E x : uncounted' = [uncounted EXCEPT ![j] = x]
    BY <1>j, TriggersEffects DEF Phased
  <2> QED
    BY <1>0, <2>1
<1>k. ASSUME NEW n \in heap, PopStale(n) PROVE slot'[i] = EmptySlot /\ uncounted'[i] = 0
  BY <1>k, <1>1 DEF PopStale, ghostVars
<1>l. ASSUME NEW n \in heap, PopDue(n) PROVE slot'[i] = EmptySlot /\ uncounted'[i] = 0
  <2>1. PICK j \in Items :
          /\ j \in DOMAIN entries /\ UNCHANGED slot
          /\ Forget(j) \/ \E x : uncounted' = [uncounted EXCEPT ![j] = x]
    BY <1>l, PopEffects DEF Advances, Phased
  <2> QED
    BY <1>0, <1>2, <2>1
<1> QED
  BY <1>a, <1>b, <1>c, <1>d, <1>e, <1>f, <1>g, <1>h, <1>i, <1>j, <1>k, <1>l, NextSteps
  DEF OutsideNext

\* The entry of an item, and the nodes of it, come with its Add only.
LEMMA EntryNeedsAdd ==
  ASSUME HandleShape, SchedShape, GhostShape, LiveInv, NodeInv, LifeInv, OrderInv, CyclicNext,
         NEW i \in Items, handle'[i] = "none" \/ Coming(i)'
  PROVE  i \notin DOMAIN entries' /\ \A n \in heap' : n.item # i
<1>0. i \notin DOMAIN entries /\ \A n \in heap : n.item # i
  <2>1. handle[i] = "none" \/ Coming(i)
    BY HandlesMoveOn, ComingEffects
  <2> QED
    BY <2>1 DEF LifeInv
<1>1. ASSUME i \notin DOMAIN entries', HeapRenewed
      PROVE  \A n \in heap' : n.item # i
  <2> SUFFICES ASSUME NEW n \in heap' PROVE n.item # i
    OBVIOUS
  <2>1. CASE n \in heap
    BY <1>0, <2>1
  <2>2. ASSUME NEW j \in DOMAIN entries', n = Node(j, entries'[j]) PROVE n.item # i
    BY <1>1, <2>2 DEF Node
  <2> QED
    BY <1>1, <2>1, <2>2 DEF HeapRenewed
<1>2. ASSUME UNCHANGED entries, heap' \subseteq heap
      PROVE  i \notin DOMAIN entries' /\ \A n \in heap' : n.item # i
  BY <1>0, <1>2
<1>a. CASE OutsideNext
  BY <1>a, <1>2, OutsideEffects
<1>b. CASE TakeAdd
  <2>1. PICK j \in Items, e \in Entries :
          commands[1].item = j /\ entries' = With(j, e) /\ HeapRenewed
    BY <1>b, AddEffects
  <2>2. ~Coming(j)' /\ handle'[j] # "none"
    BY <1>b, <2>1, AddIsGone
  <2>3. j # i
    BY <2>2
  <2>4. i \notin DOMAIN entries'
    BY <1>0, <2>1, <2>3 DEF With
  <2> QED
    BY <1>1, <2>1, <2>4
<1>c. CASE TakeUpdate
  BY <1>c, <1>0, <1>1, UpdateEffects
<1>d. CASE TakeStop
  <2>1. PICK j \in Items : entries' = Without(j) /\ HeapRenewed
    BY <1>d, StopEffects
  <2>2. i \notin DOMAIN entries'
    BY <1>0, <2>1 DEF Without
  <2> QED
    BY <1>1, <2>1, <2>2
<1>e. CASE EndNext
  BY <1>e, EndEffects DEF SchedulerEnds
<1>f. CASE ClearFlag \/ TakeState \/ TickStarts
  BY <1>f, <1>2 DEF ClearFlag, TakeState, TickStarts
<1>g. CASE TakeTriggers
  <2>1. PICK j \in Items, e \in Entries :
          j \in DOMAIN entries /\ entries' = With(j, e) /\ HeapRenewed
    BY <1>g, TriggersEffects
  <2>2. i \notin DOMAIN entries'
    BY <1>0, <2>1 DEF With
  <2> QED
    BY <1>1, <2>1, <2>2
<1>h. CASE TickEnds
  <2>1. entries' = entries /\ HeapRenewed
    BY <1>h, LoopEffects DEF TickEnds
  <2> QED
    BY <1>0, <1>1, <2>1
<1>i. ASSUME NEW n \in heap, PopStale(n)
      PROVE  i \notin DOMAIN entries' /\ \A m \in heap' : m.item # i
  BY <1>i, <1>2 DEF PopStale
<1>j. ASSUME NEW n \in heap, PopDue(n)
      PROVE  i \notin DOMAIN entries' /\ \A m \in heap' : m.item # i
  <2>1. PICK j \in Items :
           /\ j \in DOMAIN entries
           /\ \/ \E e \in Entries : entries' = With(j, e) /\ heap' = (heap \ {n}) \cup {Node(j, e)}
              \/ entries' = Without(j) /\ heap' = heap \ {n}
    BY <1>j, PopEffects
  <2>2. j # i
    BY <1>0, <2>1
  <2>3. CASE entries' = Without(j) /\ heap' = heap \ {n}
    BY <1>0, <2>3 DEF Without
  <2>4. ASSUME NEW e \in Entries, entries' = With(j, e), heap' = (heap \ {n}) \cup {Node(j, e)}
        PROVE  i \notin DOMAIN entries' /\ \A m \in heap' : m.item # i
    BY <1>0, <2>2, <2>4 DEF With, Node
  <2> QED
    BY <2>1, <2>3, <2>4
<1> QED
  BY <1>a, <1>b, <1>c, <1>d, <1>e, <1>f, <1>g, <1>h, <1>i, <1>j, NextSteps

\* A handle is given up when nobody uses it, and nobody uses it then.
LEMMA NobodyUsesIt ==
  ASSUME HandleShape, SchedShape, GhostShape, LiveInv, NodeInv, LifeInv, CyclicNext,
         NEW i \in Items, handle'[i] # "held"
  PROVE  Using(i)' = {}
<1>0. caller \in [Callers -> {Idle} \cup Callings]
      /\ handle \in [Items -> {"none", "held", "waiting", "stopped", "gone"}]
  BY DEF HandleShape
<1>1. ASSUME UNCHANGED <<caller, handle>> PROVE Using(i)' = {}
  <2>1. Using(i) = {}
    BY <1>1 DEF LifeInv
  <2> QED
    BY <1>1, <2>1 DEF Using
<1>2. ASSUME UNCHANGED caller, NEW j \in Items, NEW how, handle' = [handle EXCEPT ![j] = how],
             handle[j] # "held" \/ Using(j) = {}
      PROVE  Using(i)' = {}
  <2>1. Using(i) = {}
    BY <1>0, <1>2 DEF LifeInv
  <2> QED
    BY <1>2, <2>1 DEF Using
<1>a. CASE CallNext
  <2>1. ASSUME NEW c \in Callers, NEW j \in Items, Written(c, j) PROVE Using(i)' = {}
    <3>1. j # i /\ Using(i) = {}
      BY <2>1 DEF Written, LifeInv
    <3>2. caller' = [caller EXCEPT ![c] = [at |-> "wake", item |-> j]]
      BY <2>1 DEF Written
    <3>3. ASSUME NEW d \in Callers, caller'[d].at # "idle", caller'[d].item = i
          PROVE  FALSE
      <4>1. CASE d = c
        BY <1>0, <3>1, <3>2, <3>3, <4>1
      <4>2. CASE d # c
        BY <1>0, <3>1, <3>2, <3>3, <4>2 DEF Using
      <4> QED
        BY <4>1, <4>2
    <3> QED
      BY <3>3 DEF Using
  <2> QED
    BY <1>a, <1>1, <2>1, CallEffects
<1>b. CASE HandleNext
  <2>1. PICK j \in Items, how \in {"held", "waiting", "gone"} :
          /\ handle' = [handle EXCEPT ![j] = how] /\ UNCHANGED caller
          /\ handle[j] # "held" \/ Using(j) = {}
    BY <1>b, HandleEffects
  <2> QED
    BY <1>2, <2>1
<1>c. CASE CloseLink \/ Elapse
  BY <1>c, <1>1, CloseLinkEffects DEF Elapse
<1>d. ASSUME NEW c \in Callers, WakeNext(c) PROVE Using(i)' = {}
  <2>1. PICK j \in Items :
          /\ caller[c].item = j /\ caller[c].at \in {"wake", "send"} /\ UNCHANGED handle
          /\ \E x \in {Idle, [at |-> "send", item |-> j]} : caller' = [caller EXCEPT ![c] = x]
    BY <1>d, WakeEffects
  <2>2. c \in Using(j) /\ Using(i) = {}
    BY <2>1 DEF Using, LifeInv
  <2>3. j # i
    BY <2>2
  <2>4. ASSUME NEW d \in Callers, caller'[d].at # "idle", caller'[d].item = i
        PROVE  FALSE
    <3>1. CASE d = c
      BY <1>0, <2>1, <2>3, <2>4, <3>1 DEF Idle
    <3>2. CASE d # c
      BY <1>0, <2>1, <2>2, <2>4, <3>2 DEF Using
    <3> QED
      BY <3>1, <3>2
  <2> QED
    BY <2>4 DEF Using
<1>e. CASE TakeAdd
  BY <1>e, <1>1, AddEffects
<1>f. CASE TakeUpdate
  BY <1>f, <1>1, UpdateEffects
<1>g. CASE TakeStop
  <2>1. PICK j \in Items :
          /\ UNCHANGED caller
          /\ UNCHANGED handle
             \/ (handle[j] = "waiting" /\ handle' = [handle EXCEPT ![j] = "stopped"])
    BY <1>g, StopEffects
  <2> QED
    BY <1>1, <1>2, <2>1
<1>h. CASE EndNext
  <2>1. handle[i] # "held" /\ UNCHANGED caller
    BY <1>0, <1>h, EndEffects DEF SchedulerEnds
  <2> QED
    BY <2>1 DEF LifeInv, Using
<1>i. CASE ClearFlag \/ TakeState \/ TickStarts \/ TickEnds
  BY <1>i, <1>1 DEF ClearFlag, TakeState, TickStarts, TickEnds
<1>j. CASE TakeTriggers
  BY <1>j, <1>1, TriggersEffects
<1>k. ASSUME NEW n \in heap, PopStale(n) \/ PopDue(n) PROVE Using(i)' = {}
  BY <1>k, <1>1 DEF PopStale, PopDue
<1> QED
  BY <1>a, <1>b, <1>c, <1>d, <1>e, <1>f, <1>g, <1>h, <1>i, <1>j, <1>k, NextSteps DEF OutsideNext

LEMMA LifeKept ==
  ASSUME HandleShape, SchedShape, GhostShape, LiveInv, NodeInv, LifeInv, OrderInv, CyclicNext
  PROVE  LifeInv'
  BY NoCommandsYet, SlotStaysEmpty, EntryNeedsAdd, NobodyUsesIt DEF LifeInv

(* The order of the channel.                                               *)

LEMMA QueuedIndexes ==
  ASSUME commands \in Seq(Commands), NEW kinds, NEW k \in Queued(kinds)
  PROVE  k \in Nat /\ k >= 1 /\ k <= Len(commands) /\ commands[k] \in Commands
         /\ commands[k].kind \in kinds
  BY LenProperties, ElementOfSeq DEF Queued

LEMMA OrderSame ==
  ASSUME OrderInv, UNCHANGED commands,
         \A k \in Queued({"Stop"}) : handle'[commands[k].item] \in {"waiting", "gone"}
  PROVE  OrderInv'
<1>1. Queued({"Add"})' = Queued({"Add"}) /\ Queued(ItemKinds)' = Queued(ItemKinds)
      /\ Queued({"Stop"})' = Queued({"Stop"})
  BY SameQueued DEF ItemKinds
<1> QED
  BY <1>1 DEF OrderInv

LEMMA OrderShrunk ==
  ASSUME OrderInv, Shrunk,
         \A k \in Queued({"Stop"})' : handle'[commands'[k].item] \in {"waiting", "gone"}
  PROVE  OrderInv'
<1>1. ASSUME NEW j \in Queued({"Add"})', NEW k \in Queued(ItemKinds)',
             commands'[k].item = commands'[j].item
      PROVE  j <= k
  <2>1. /\ j \in Nat /\ j + 1 \in Queued({"Add"}) /\ commands'[j] = commands[j + 1]
        /\ k \in Nat /\ k + 1 \in Queued(ItemKinds) /\ commands'[k] = commands[k + 1]
    BY ShrunkQueued DEF ItemKinds
  <2>2. j + 1 <= k + 1
    BY <1>1, <2>1 DEF OrderInv
  <2> QED
    BY <2>1, <2>2
<1>2. ASSUME NEW j \in Queued({"Stop"})', NEW k \in Queued({"Stop"})',
             commands'[k].item = commands'[j].item
      PROVE  j = k
  <2>1. /\ j \in Nat /\ j + 1 \in Queued({"Stop"}) /\ commands'[j] = commands[j + 1]
        /\ k \in Nat /\ k + 1 \in Queued({"Stop"}) /\ commands'[k] = commands[k + 1]
    BY ShrunkQueued
  <2>2. j + 1 = k + 1
    BY <1>2, <2>1 DEF OrderInv
  <2> QED
    BY <2>1, <2>2
<1> QED
  BY <1>1, <1>2 DEF OrderInv, ItemKinds

LEMMA OrderGrown ==
  ASSUME HandleShape, OrderInv, NEW command, Grown(command),
         command.kind = "Add" => \A k \in Queued(ItemKinds) : commands[k].item # command.item,
         command.kind = "Stop" => \A k \in Queued({"Stop"}) : commands[k].item # command.item,
         \A k \in Queued({"Stop"})' : handle'[commands'[k].item] \in {"waiting", "gone"}
  PROVE  OrderInv'
<1>0. Len(commands) \in Nat
  BY DEF Grown
<1>1. ASSUME NEW j \in Queued({"Add"})', NEW k \in Queued(ItemKinds)',
             commands'[k].item = commands'[j].item
      PROVE  j <= k
  <2>1. \/ j \in Queued({"Add"}) /\ commands'[j] = commands[j]
        \/ j = Len(commands) + 1 /\ commands'[j] = command /\ command.kind \in {"Add"}
    BY GrownQueued
  <2>2. \/ k \in Queued(ItemKinds) /\ commands'[k] = commands[k]
        \/ k = Len(commands) + 1 /\ commands'[k] = command /\ command.kind \in ItemKinds
    BY GrownQueued DEF ItemKinds
  <2>3. CASE j \in Queued({"Add"}) /\ k \in Queued(ItemKinds)
             /\ commands'[j] = commands[j] /\ commands'[k] = commands[k]
    BY <1>1, <2>3 DEF OrderInv
  <2>4. CASE j \in Queued({"Add"}) /\ k = Len(commands) + 1
    BY <1>0, <2>4, QueuedIndexes DEF HandleShape
  <2>5. CASE j = Len(commands) + 1 /\ commands'[j] = command /\ command.kind \in {"Add"}
             /\ k \in Queued(ItemKinds) /\ commands'[k] = commands[k]
    BY <1>1, <2>5
  <2>6. CASE j = Len(commands) + 1 /\ k = Len(commands) + 1
    BY <1>0, <2>6
  <2> QED
    BY <2>1, <2>2, <2>3, <2>4, <2>5, <2>6
<1>2. ASSUME NEW j \in Queued({"Stop"})', NEW k \in Queued({"Stop"})',
             commands'[k].item = commands'[j].item
      PROVE  j = k
  <2>1. /\ \/ j \in Queued({"Stop"}) /\ commands'[j] = commands[j]
           \/ j = Len(commands) + 1 /\ commands'[j] = command /\ command.kind \in {"Stop"}
        /\ \/ k \in Queued({"Stop"}) /\ commands'[k] = commands[k]
           \/ k = Len(commands) + 1 /\ commands'[k] = command /\ command.kind \in {"Stop"}
    BY GrownQueued
  <2> QED
    BY <1>2, <2>1 DEF OrderInv
<1> QED
  BY <1>1, <1>2 DEF OrderInv, ItemKinds

LEMMA OrderKept ==
  ASSUME HandleShape, SchedShape, GhostShape, LiveInv, NodeInv, LifeInv, OrderInv, CyclicNext
  PROVE  OrderInv'
<1>0. /\ handle \in [Items -> {"none", "held", "waiting", "stopped", "gone"}]
      /\ \A k \in Queued({"Stop"}) : handle[commands[k].item] \in {"waiting", "gone"}
  BY DEF HandleShape, OrderInv
<1>1. ASSUME UNCHANGED <<commands, handle>> PROVE OrderInv'
  BY <1>0, <1>1, OrderSame
<1>2. ASSUME Shrunk, UNCHANGED handle PROVE OrderInv'
  BY <1>0, <1>2, OrderShrunk, ShrunkQueued
<1>3. ASSUME NEW command, Grown(command), command.kind \notin {"Add", "Stop"}, UNCHANGED handle
      PROVE  OrderInv'
  <2>1. \A k \in Queued({"Stop"})' : handle'[commands'[k].item] \in {"waiting", "gone"}
    BY <1>0, <1>3, GrownQueued
  <2> QED
    BY <1>3, <2>1, OrderGrown
<1>a. CASE CallNext \/ Elapse
  BY <1>a, <1>1, CallEffects DEF Elapse, Written
<1>b. CASE HandleNext
  <2>1. PICK i \in Items :
           \/ /\ handle[i] = "none" /\ handle' = [handle EXCEPT ![i] = "held"]
              /\ \E config \in Configs : Grown(Add(i, config))
           \/ /\ handle[i] = "held"
              /\ \E how \in {"waiting", "gone"} : handle' = [handle EXCEPT ![i] = how]
              /\ \/ UNCHANGED commands
                 \/ \E reply \in BOOLEAN : Grown(Stop(i, reply))
           \/ /\ handle[i] = "waiting" /\ handle' = [handle EXCEPT ![i] = "gone"]
              /\ UNCHANGED commands
    BY <1>b, HandleEffects
  <2>2. ASSUME handle[i] # "none", NEW how \in {"waiting", "gone"},
               handle' = [handle EXCEPT ![i] = how]
        PROVE  /\ handle'[i] \in {"waiting", "gone"}
               /\ \A k \in Queued({"Stop"}) : handle'[commands[k].item] \in {"waiting", "gone"}
    BY <1>0, <2>2
  <2>3. ASSUME handle[i] = "none", handle' = [handle EXCEPT ![i] = "held"],
               NEW config \in Configs, Grown(Add(i, config))
        PROVE  OrderInv'
    <3>1. \A k \in Queued(ItemKinds) : commands[k].item # i
      BY <2>3 DEF LifeInv
    <3>2. ASSUME NEW k \in Queued({"Stop"})'
          PROVE  handle'[commands'[k].item] \in {"waiting", "gone"}
      <4>1. k \in Queued({"Stop"}) /\ commands'[k] = commands[k]
        BY <2>3, <3>2, GrownQueued DEF Add
      <4> QED
        BY <1>0, <2>3, <4>1
    <3> QED
      BY <2>3, <3>1, <3>2, OrderGrown DEF Add
  <2>4. CASE UNCHANGED commands /\ handle[i] # "none"
             /\ \E how \in {"waiting", "gone"} : handle' = [handle EXCEPT ![i] = how]
    BY <2>4, <2>2, OrderSame
  <2>5. ASSUME handle[i] = "held", NEW how \in {"waiting", "gone"},
               handle' = [handle EXCEPT ![i] = how],
               NEW reply \in BOOLEAN, Grown(Stop(i, reply))
        PROVE  OrderInv'
    <3>1. \A k \in Queued({"Stop"}) : commands[k].item # i
      BY <1>0, <2>5
    <3>2. ASSUME NEW k \in Queued({"Stop"})'
          PROVE  handle'[commands'[k].item] \in {"waiting", "gone"}
      <4>1. \/ k \in Queued({"Stop"}) /\ commands'[k] = commands[k]
            \/ commands'[k] = Stop(i, reply)
        BY <2>5, <3>2, GrownQueued
      <4>2. /\ handle'[i] \in {"waiting", "gone"}
            /\ \A j \in Queued({"Stop"}) : handle'[commands[j].item] \in {"waiting", "gone"}
        BY <2>2, <2>5
      <4>3. Stop(i, reply).item = i
        BY DEF Stop
      <4> QED
        BY <4>1, <4>2, <4>3
    <3> QED
      BY <2>5, <3>1, <3>2, OrderGrown DEF Stop
  <2> QED
    BY <2>1, <2>3, <2>4, <2>5
<1>c. CASE CloseLink
  BY <1>c, <1>3, CloseLinkEffects DEF Close
<1>d. ASSUME NEW c \in Callers, WakeNext(c) PROVE OrderInv'
  <2>1. PICK j \in Items : UNCHANGED handle /\ (UNCHANGED commands \/ Grown(ApplyUpdate(j)))
    BY <1>d, WakeEffects
  <2> QED
    BY <1>1, <1>3, <2>1 DEF ApplyUpdate
<1>e. CASE TakeAdd
  BY <1>e, <1>2, AddEffects
<1>f. CASE TakeUpdate
  BY <1>f, <1>2, UpdateEffects
<1>g. CASE TakeStop
  <2>1. PICK i \in Items :
           /\ Shrunk /\ commands # <<>> /\ commands[1].kind = "Stop" /\ commands[1].item = i
           /\ UNCHANGED handle \/ handle' = [handle EXCEPT ![i] = "stopped"]
    BY <1>g, StopEffects
  <2>2. 1 \in Queued({"Stop"})
    BY <2>1, EmptySeq, LenProperties DEF HandleShape, Queued
  <2>3. ASSUME NEW k \in Queued({"Stop"})'
        PROVE  handle'[commands'[k].item] \in {"waiting", "gone"}
    <3>1. k \in Nat /\ k + 1 \in Queued({"Stop"}) /\ commands'[k] = commands[k + 1]
      BY <2>1, ShrunkQueued
    <3>2. k >= 1
      BY <2>1 DEF Queued, Shrunk
    <3>3. commands[k + 1].item # i
      BY <2>1, <2>2, <3>1, <3>2 DEF OrderInv
    <3>4. commands[k + 1].item \in Items
      <4>1. commands[k + 1] \in Commands /\ commands[k + 1].kind \in {"Stop"}
        BY <3>1, QueuedIndexes DEF HandleShape
      <4> QED
        BY <4>1 DEF Commands, Orders
    <3>5. handle[commands[k + 1].item] \in {"waiting", "gone"}
      BY <1>0, <3>1
    <3>6. handle'[commands[k + 1].item] = handle[commands[k + 1].item]
      BY <1>0, <2>1, <3>3, <3>4
    <3> QED
      BY <3>1, <3>5, <3>6
  <2> QED
    BY <2>1, <2>3, OrderShrunk
<1>h. CASE EndNext
  BY <1>h, EndEffects DEF SchedulerEnds, Queued, OrderInv
<1>i. CASE ClearFlag \/ TakeState \/ TickStarts \/ TickEnds
  BY <1>i, <1>1 DEF ClearFlag, TakeState, TickStarts, TickEnds
<1>j. CASE TakeTriggers
  BY <1>j, <1>1, TriggersEffects
<1>k. ASSUME NEW n \in heap, PopStale(n) \/ PopDue(n) PROVE OrderInv'
  BY <1>k, <1>1 DEF PopStale, PopDue
<1> QED
  BY <1>a, <1>b, <1>c, <1>d, <1>e, <1>f, <1>g, <1>h, <1>i, <1>j, <1>k, NextSteps DEF OutsideNext

(* The flag of a slot.                                                     *)

\* The channel is given no wake-up of the item.
NoWakeUpSent(i) ==
  \/ UNCHANGED commands
  \/ Shrunk
  \/ \E command : Grown(command) /\ ~(command.kind = "ApplyUpdate" /\ command.item = i)

LEMMA ChannelKeepsOnce ==
  ASSUME NEW i \in Items, NoWakeUpSent(i), OnceInChannel(i)
  PROVE  OnceInChannel(i)' /\ (InChannel(i)' => InChannel(i))
<1>1. CASE UNCHANGED commands
  BY <1>1, SameQueued DEF OnceInChannel, InChannel
<1>2. CASE Shrunk
  <2>1. ASSUME NEW k \in Queued({"ApplyUpdate"})'
        PROVE  k \in Nat /\ k + 1 \in Queued({"ApplyUpdate"}) /\ commands'[k] = commands[k + 1]
    BY <1>2, ShrunkQueued
  <2>2. InChannel(i)' => InChannel(i)
    BY <2>1 DEF InChannel
  <2>3. ASSUME NEW j \in Queued({"ApplyUpdate"})', NEW k \in Queued({"ApplyUpdate"})',
               commands'[j].item = i, commands'[k].item = i
        PROVE  j = k
    <3>1. j + 1 = k + 1
      BY <2>1, <2>3 DEF OnceInChannel
    <3> QED
      BY <2>1, <3>1
  <2> QED
    BY <2>2, <2>3 DEF OnceInChannel
<1>3. ASSUME NEW command, Grown(command), ~(command.kind = "ApplyUpdate" /\ command.item = i)
      PROVE  OnceInChannel(i)' /\ (InChannel(i)' => InChannel(i))
  <2>1. ASSUME NEW k \in Queued({"ApplyUpdate"})', commands'[k].item = i
        PROVE  k \in Queued({"ApplyUpdate"}) /\ commands'[k] = commands[k]
    BY <1>3, <2>1, GrownQueued
  <2> QED
    BY <2>1 DEF OnceInChannel, InChannel
<1> QED
  BY <1>1, <1>2, <1>3 DEF NoWakeUpSent

LEMMA FewerWakeUps ==
  ASSUME NEW i \in Items, NoWakeUpSent(i), OneWakeUp(i),
         \A c \in Callers : Sender(c, i)' => Sender(c, i),
         Received(i)' => Received(i)
  PROVE  OneWakeUp(i)' /\ (Carried(i)' => Carried(i))
<1>1. OnceInChannel(i)' /\ (InChannel(i)' => InChannel(i))
  BY ChannelKeepsOnce DEF OneWakeUp
<1> QED
  BY <1>1 DEF OneWakeUp, Carried

\* The command that brings a wake-up is the only one of its item.
LEMMA HeadIsAlone ==
  ASSUME HandleShape, Shrunk, commands # <<>>, commands[1].kind = "ApplyUpdate",
         NEW i \in Items, commands[1].item = i, OnceInChannel(i)
  PROVE  InChannel(i) /\ ~InChannel(i)'
<1>1. 1 \in Queued({"ApplyUpdate"})
  BY EmptySeq, LenProperties DEF HandleShape, Queued
<1>2. ASSUME NEW k \in Queued({"ApplyUpdate"})', commands'[k].item = i PROVE FALSE
  <2>1. k \in Nat /\ k + 1 \in Queued({"ApplyUpdate"}) /\ commands'[k] = commands[k + 1]
    BY ShrunkQueued
  <2>2. k + 1 = 1
    BY <1>1, <1>2, <2>1 DEF OnceInChannel
  <2>3. k >= 1
    BY DEF Queued, Shrunk
  <2> QED
    BY <2>1, <2>2, <2>3
<1> QED
  BY <1>1, <1>2 DEF InChannel

\* A caller that has nobody's wake-up to send may come and go.
LEMMA SendersOf ==
  ASSUME HandleShape, NEW c \in Callers, NEW state, NEW j, NEW i \in Items,
         caller' = [caller EXCEPT ![c] = [at |-> state, item |-> j]],
         state # "send" \/ j # i
  PROVE  \A d \in Callers : /\ Sender(d, i)' => Sender(d, i)
                            /\ Sender(d, i) /\ d # c => Sender(d, i)'
  BY DEF HandleShape, Sender

LEMMA FlagsKept ==
  ASSUME HandleShape, SchedShape, GhostShape, LiveInv, NodeInv, LifeInv, FlagInv, CyclicNext,
         ~Ended', NEW i \in Items
  PROVE  FlagHolds(i)'
<1>0. /\ slot \in [Items -> Slots] /\ slot[i].queued \in BOOLEAN
      /\ caller \in [Callers -> {Idle} \cup Callings]
  BY DEF HandleShape, Slots
<1>1. ASSUME ~Ended, NoWakeUpSent(i), slot'[i].queued = slot[i].queued,
             \A c \in Callers : Sender(c, i)' => Sender(c, i),
             Received(i)' => Received(i)
      PROVE  FlagHolds(i)'
  <2>1. OneWakeUp(i) /\ (Carried(i) => slot[i].queued)
    BY <1>1 DEF FlagInv, FlagHolds
  <2> QED
    BY <1>1, <2>1, FewerWakeUps DEF FlagHolds
<1>2. ASSUME UNCHANGED caller PROVE \A c \in Callers : Sender(c, i)' => Sender(c, i)
  BY <1>2 DEF Sender
<1>3. ASSUME UNCHANGED sched PROVE ~Ended /\ (Received(i)' => Received(i))
  BY <1>3 DEF Received, Ended
<1>4. ASSUME sched.at \in {"select", "ticking", "taken"} PROVE ~Ended
  BY <1>4 DEF Ended
<1>5. ASSUME sched'.at # "received" PROVE Received(i)' => Received(i)
  BY <1>5 DEF Received
<1>a. CASE CallNext
  <2>1. ASSUME NEW c \in Callers, NEW j \in Items, Written(c, j) PROVE FlagHolds(i)'
    <3>1. \A d \in Callers : Sender(d, i)' => Sender(d, i)
      <4>1. caller' = [caller EXCEPT ![c] = [at |-> "wake", item |-> j]]
        BY <2>1 DEF Written
      <4>2. "wake" # "send"
        OBVIOUS
      <4> QED
        BY <4>1, <4>2, SendersOf
    <3>2. slot'[i].queued = slot[i].queued
      BY <1>0, <2>1 DEF Written
    <3>3. UNCHANGED sched /\ NoWakeUpSent(i)
      BY <2>1 DEF Written, NoWakeUpSent
    <3> QED
      BY <1>1, <1>3, <3>1, <3>2, <3>3
  <2> QED
    BY <1>a, <1>1, <1>2, <1>3, <2>1, CallEffects DEF NoWakeUpSent
<1>b. CASE HandleNext
  <2>1. PICK j \in Items :
          /\ \/ \E config \in Configs : Grown(Add(j, config))
             \/ UNCHANGED commands
             \/ \E reply \in BOOLEAN : Grown(Stop(j, reply))
          /\ UNCHANGED <<slot, caller, sched>>
    BY <1>b, HandleEffects
  <2>2. NoWakeUpSent(i)
    <3>1. ASSUME NEW config \in Configs, Grown(Add(j, config)) PROVE NoWakeUpSent(i)
      BY <3>1 DEF NoWakeUpSent, Add
    <3>2. ASSUME NEW reply \in BOOLEAN, Grown(Stop(j, reply)) PROVE NoWakeUpSent(i)
      BY <3>2 DEF NoWakeUpSent, Stop
    <3> QED
      BY <2>1, <3>1, <3>2 DEF NoWakeUpSent
  <2> QED
    BY <1>1, <1>2, <1>3, <2>1, <2>2
<1>c. CASE CloseLink
  <2>1. NoWakeUpSent(i) /\ UNCHANGED <<slot, caller, sched>>
    BY <1>c, CloseLinkEffects DEF NoWakeUpSent, Close
  <2> QED
    BY <1>1, <1>2, <1>3, <2>1
<1>d. CASE Elapse
  BY <1>d, <1>1, <1>2, <1>3 DEF Elapse, NoWakeUpSent
<1>e. ASSUME NEW c \in Callers, WakeNext(c) PROVE FlagHolds(i)'
  <2>1. PICK j \in Items :
           /\ caller[c].item = j
           /\ \/ /\ caller[c].at = "wake" /\ slot[j].queued /\ UNCHANGED <<slot, commands>>
                 /\ caller' = [caller EXCEPT ![c] = Idle]
              \/ /\ caller[c].at = "wake" /\ ~slot[j].queued /\ UNCHANGED commands
                 /\ slot' = [slot EXCEPT ![j].queued = TRUE]
                 /\ caller' = [caller EXCEPT ![c] = [at |-> "send", item |-> j]]
              \/ /\ caller[c].at = "send" /\ caller' = [caller EXCEPT ![c] = Idle]
                 /\ \/ Ended
                    \/ ~Ended /\ Grown(ApplyUpdate(j)) /\ UNCHANGED slot
           /\ UNCHANGED sched
    BY <1>e, WakeEffects
  <2>2. ~Ended /\ (Received(i)' <=> Received(i))
    BY <2>1 DEF Ended, Received
  <2>3. OneWakeUp(i) /\ (Carried(i) => slot[i].queued)
    BY <2>2 DEF FlagInv, FlagHolds
  <2>4. ASSUME caller' = [caller EXCEPT ![c] = Idle]
        PROVE  \A d \in Callers : Sender(d, i)' => Sender(d, i) /\ d # c
    BY <1>0, <2>4 DEF Sender, Idle
  <2>5. CASE UNCHANGED <<slot, commands>> /\ caller' = [caller EXCEPT ![c] = Idle]
    BY <1>1, <2>2, <2>4, <2>5 DEF NoWakeUpSent
  <2>6. CASE /\ caller[c].at = "wake" /\ ~slot[j].queued /\ UNCHANGED commands
             /\ slot' = [slot EXCEPT ![j].queued = TRUE]
             /\ caller' = [caller EXCEPT ![c] = [at |-> "send", item |-> j]]
    <3>1. CASE j # i
      <4>1. \A d \in Callers : Sender(d, i)' => Sender(d, i)
        BY <2>6, <3>1, SendersOf
      <4>2. slot'[i] = slot[i]
        BY <1>0, <2>6, <3>1
      <4> QED
        BY <1>1, <2>2, <2>6, <4>1, <4>2 DEF NoWakeUpSent
    <3>2. CASE j = i
      <4>1. ~Carried(i)
        BY <2>3, <2>6, <3>2
      <4>2. ~InChannel(i)' /\ OnceInChannel(i)' /\ ~Received(i)'
        BY <2>2, <2>6, <4>1, SameQueued DEF Carried, InChannel, OnceInChannel
      <4>3. \A d \in Callers : Sender(d, i)' => d = c
        BY <1>0, <2>6, <4>1 DEF Carried, Sender
      <4>4. slot'[i].queued
        BY <1>0, <2>6, <3>2 DEF Slots
      <4> QED
        BY <4>2, <4>3, <4>4 DEF OneWakeUp, FlagHolds
    <3> QED
      BY <3>1, <3>2
  <2>7. CASE /\ caller[c].at = "send" /\ caller' = [caller EXCEPT ![c] = Idle]
             /\ Grown(ApplyUpdate(j)) /\ UNCHANGED slot
    <3>1. CASE j # i
      <4>1. NoWakeUpSent(i)
        BY <2>7, <3>1 DEF NoWakeUpSent, ApplyUpdate
      <4> QED
        BY <1>1, <2>2, <2>4, <2>7, <4>1
    <3>2. CASE j = i
      <4>1. Sender(c, i)
        BY <2>1, <2>7, <3>2 DEF Sender
      <4>2. /\ ~InChannel(i) /\ ~Received(i) /\ slot[i].queued
            /\ \A d \in Callers : Sender(d, i) => d = c
        BY <2>3, <4>1 DEF OneWakeUp, Carried
      <4>3. \A d \in Callers : ~Sender(d, i)'
        BY <2>4, <2>7, <4>2
      <4>4. ASSUME NEW k \in Queued({"ApplyUpdate"})', commands'[k].item = i
            PROVE  k = Len(commands) + 1
        BY <2>7, <4>2, <4>4, GrownQueued DEF InChannel
      <4> QED
        BY <2>2, <2>7, <4>2, <4>3, <4>4 DEF OneWakeUp, FlagHolds, OnceInChannel
    <3> QED
      BY <3>1, <3>2
  <2> QED
    BY <2>1, <2>2, <2>5, <2>6, <2>7
<1>f. CASE TakeAdd
  <2>1. Shrunk /\ sched.at = "select" /\ sched' = Selecting /\ UNCHANGED <<slot, caller>>
    BY <1>f, AddEffects
  <2> QED
    BY <1>1, <1>2, <1>4, <1>5, <2>1 DEF NoWakeUpSent, Selecting
<1>g. CASE TakeUpdate
  <2>1. PICK j \in Items :
           /\ Shrunk /\ commands # <<>>
           /\ commands[1].kind = "ApplyUpdate" /\ commands[1].item = j
           /\ sched.at = "select"
           /\ sched' = [at |-> "received", item |-> j] \/ sched' = Selecting
           /\ UNCHANGED <<slot, caller>>
    BY <1>g, UpdateEffects
  <2>2. ~Ended /\ NoWakeUpSent(i) /\ \A c \in Callers : Sender(c, i)' <=> Sender(c, i)
    BY <2>1 DEF Ended, NoWakeUpSent, Sender
  <2>3. CASE sched' = Selecting \/ j # i
    <3>1. Received(i)' => Received(i)
      BY <2>1, <2>3 DEF Received, Selecting
    <3> QED
      BY <1>1, <2>1, <2>2, <3>1
  <2>4. CASE j = i
    <3>1. OneWakeUp(i) /\ (Carried(i) => slot[i].queued)
      BY <2>2 DEF FlagInv, FlagHolds
    <3>2. InChannel(i) /\ ~InChannel(i)'
      BY <2>1, <2>4, <3>1, HeadIsAlone DEF OneWakeUp
    <3>3. slot[i].queued /\ OnceInChannel(i)' /\ \A c \in Callers : ~Sender(c, i)'
      BY <2>2, <3>1, <3>2, ChannelKeepsOnce DEF OneWakeUp, Carried
    <3> QED
      BY <2>1, <3>2, <3>3 DEF OneWakeUp, FlagHolds
  <2> QED
    BY <2>3, <2>4
<1>h. CASE TakeStop
  BY <1>h, <1>1, <1>2, <1>4, <1>5, StopEffects DEF NoWakeUpSent, Selecting
<1>i. CASE EndNext
  BY <1>i, EndEffects DEF SchedulerEnds, Ended
<1>j. CASE ClearFlag
  <2>1. /\ sched.at = "received" /\ sched'.at = "cleared" /\ sched.item \in Items
        /\ slot' = [slot EXCEPT ![sched.item].queued = FALSE]
        /\ UNCHANGED <<caller, commands>>
    BY <1>j, SchedStates DEF ClearFlag
  <2>2. ~Ended
    BY <2>1 DEF Ended
  <2>3. CASE sched.item # i
    BY <1>0, <1>1, <1>2, <1>5, <2>1, <2>2, <2>3 DEF NoWakeUpSent
  <2>4. CASE sched.item = i
    <3>1. OneWakeUp(i) /\ Received(i)
      BY <2>1, <2>2, <2>4 DEF FlagInv, FlagHolds, Received
    <3>2. ~InChannel(i)' /\ OnceInChannel(i)' /\ ~Received(i)'
          /\ \A c \in Callers : ~Sender(c, i)'
      BY <2>1, <3>1, SameQueued DEF OneWakeUp, InChannel, OnceInChannel, Sender, Received
    <3> QED
      BY <3>2 DEF OneWakeUp, FlagHolds, Carried
  <2> QED
    BY <2>3, <2>4
<1>k. CASE TakeState
  <2>1. /\ sched.at = "cleared" /\ sched'.at = "taken" /\ sched.item \in Items
        /\ slot' = [slot EXCEPT ![sched.item].period = Unset, ![sched.item].paused = "unset"]
        /\ UNCHANGED <<caller, commands>>
    BY <1>k, SchedStates DEF TakeState
  <2>2. slot'[i].queued = slot[i].queued
    BY <1>0, <2>1 DEF Slots
  <2> QED
    BY <1>1, <1>2, <1>5, <2>1, <2>2 DEF NoWakeUpSent, Ended
<1>l. CASE TakeTriggers
  <2>1. PICK j \in Items :
           /\ sched \in TakenStates /\ sched' = Selecting
           /\ slot' = [slot EXCEPT ![j].triggers = 0] /\ UNCHANGED <<caller, commands>>
    BY <1>l, TriggersEffects
  <2>2. slot'[i].queued = slot[i].queued
    BY <1>0, <2>1 DEF Slots
  <2> QED
    BY <1>1, <1>2, <1>4, <1>5, <2>1, <2>2 DEF NoWakeUpSent, TakenStates, Selecting
<1>m. CASE TickStarts \/ TickEnds
  BY <1>m, <1>1, <1>2, <1>4, <1>5 DEF TickStarts, TickEnds, Loop, Selecting, NoWakeUpSent
<1>n. ASSUME NEW n \in heap, PopStale(n) \/ PopDue(n) PROVE FlagHolds(i)'
  BY <1>n, <1>1, <1>2, <1>3 DEF PopStale, PopDue, NoWakeUpSent
<1> QED
  BY <1>a, <1>b, <1>c, <1>d, <1>e, <1>f, <1>g, <1>h, <1>i, <1>j, <1>k, <1>l, <1>m, <1>n,
     NextSteps DEF OutsideNext

(* The escort of a value.                                                  *)

\* An entry was there before, or its Add was in the channel.
LEMMA AliveBefore ==
  ASSUME HandleShape, SchedShape, GhostShape, LiveInv, NodeInv, LifeInv, CyclicNext,
         NEW i \in Items, Alive(i)'
  PROVE  Alive(i) \/ (handle[i] = "none" /\ HandleNext)
<1>1. CASE Coming(i)'
  BY <1>1, ComingEffects DEF Alive
<1>2. CASE i \in DOMAIN entries'
  <2>1. CASE UNCHANGED entries
    BY <1>2, <2>1 DEF Alive
  <2>2. ASSUME NEW j \in DOMAIN entries, NEW e, entries' = With(j, e) PROVE i \in DOMAIN entries
    BY <1>2, <2>2 DEF With
  <2>3. ASSUME NEW j, entries' = Without(j) PROVE i \in DOMAIN entries
    BY <1>2, <2>3 DEF Without
  <2>4. CASE TakeAdd
    <3>1. PICK j \in Items, e \in Entries :
            /\ commands # <<>> /\ commands[1].kind = "Add" /\ commands[1].item = j
            /\ entries' = With(j, e)
      BY <2>4, AddEffects
    <3>2. Coming(j)
      BY <3>1, NoNodesYet DEF HandleShape
    <3>3. i \in DOMAIN entries \/ i = j
      BY <1>2, <3>1 DEF With
    <3> QED
      BY <3>2, <3>3 DEF Alive
  <2>5. CASE TakeStop
    BY <2>3, <2>5, StopEffects DEF Alive
  <2>6. CASE TakeTriggers
    BY <2>2, <2>6, TriggersEffects DEF Alive
  <2>7. ASSUME NEW n \in heap, PopDue(n) PROVE i \in DOMAIN entries
    BY <2>2, <2>3, <2>7, PopEffects
  <2>8. CASE EndNext
    BY <1>2, <2>8, EndEffects DEF SchedulerEnds
  <2>9. CASE ClearFlag \/ TakeState \/ TickStarts \/ TickEnds \/ \E n \in heap : PopStale(n)
    BY <2>1, <2>9 DEF ClearFlag, TakeState, TickStarts, TickEnds, Loop, PopStale
  <2> QED
    BY <2>1, <2>4, <2>5, <2>6, <2>7, <2>8, <2>9, NextSteps, OutsideEffects, UpdateEffects
       DEF Alive
<1> QED
  BY <1>1, <1>2 DEF Alive

\* A wake-up on its way is all the escort there need be.
LEMMA WakeUpEscorts ==
  ASSUME NEW i \in Items, Carried(i)'
  PROVE  WellEscorted(i)'
<1>1. Escorted(i)'
  <2>1. ASSUME NEW c \in Callers, Sender(c, i)' PROVE c \in Using(i)'
    BY <2>1 DEF Sender, Using
  <2> QED
    BY <2>1 DEF Carried, Escorted, InChannel, Received
<1> QED
  BY <1>1 DEF WellEscorted

\* A wake-up in the channel stays there until the scheduler takes it.
Bears(i) ==
  \/ UNCHANGED commands
  \/ Shrunk /\ commands # <<>> /\ ~(commands[1].kind = "ApplyUpdate" /\ commands[1].item = i)
  \/ \E command : Grown(command)

LEMMA ChannelBears ==
  ASSUME HandleShape, NEW i \in Items, Bears(i), InChannel(i)
  PROVE  InChannel(i)'
<1>1. PICK k \in Queued({"ApplyUpdate"}) : commands[k].item = i
  BY DEF InChannel
<1>2. k \in 1..Len(commands) /\ commands[k].kind = "ApplyUpdate" /\ Len(commands) \in Nat
  BY LenProperties DEF Queued, HandleShape
<1>3. CASE UNCHANGED commands
  BY <1>3, SameQueued DEF InChannel
<1>4. ASSUME Shrunk, ~(commands[1].kind = "ApplyUpdate" /\ commands[1].item = i)
      PROVE  InChannel(i)'
  <2>1. k # 1
    BY <1>1, <1>2, <1>4
  <2>2. k - 1 \in 1..Len(commands') /\ commands'[k - 1] = commands[k]
    BY <1>2, <1>4, <2>1 DEF Shrunk
  <2>3. k - 1 \in Queued({"ApplyUpdate"})'
    BY <1>2, <2>2 DEF Queued
  <2> QED
    BY <1>1, <2>2, <2>3 DEF InChannel
<1>5. ASSUME NEW command, Grown(command) PROVE InChannel(i)'
  <2>1. k \in 1..Len(commands') /\ commands'[k] = commands[k]
    BY <1>2, <1>5 DEF Grown
  <2>2. k \in Queued({"ApplyUpdate"})'
    BY <1>2, <2>1 DEF Queued
  <2> QED
    BY <1>1, <2>1, <2>2 DEF InChannel
<1> QED
  BY <1>3, <1>4, <1>5 DEF Bears

\* A step that leaves an item's slot and frame alone, and its escort under way.
LEMMA Undisturbed ==
  ASSUME HandleShape, NEW i \in Items, WellEscorted(i), Bears(i),
         slot'[i] = slot[i], FrameOf(i)' = FrameOf(i),
         UNCHANGED sched \/ (~Held(i) /\ ~Held(i)'),
         \A c \in Callers : Sender(c, i) => Sender(c, i)',
         Using(i) \subseteq Using(i)'
  PROVE  WellEscorted(i)'
<1>1. InChannel(i) => InChannel(i)'
  BY ChannelBears
<1>2. /\ FrameTaken(i)' = FrameTaken(i) /\ (Held(i)' <=> Held(i))
      /\ Received(i) => Received(i)'
      /\ sched.at \in {"received", "cleared"} /\ sched.item = i =>
           sched'.at \in {"received", "cleared"} /\ sched'.item = i
  BY DEF FrameTaken, Held, Received
<1>3. Carried(i) => Carried(i)'
  BY <1>1, <1>2 DEF Carried
<1>4. Escorted(i) => Escorted(i)'
  BY <1>1, <1>2 DEF Escorted, InChannel
<1> QED
  BY <1>2, <1>3, <1>4 DEF WellEscorted

LEMMA EscortKept ==
  ASSUME HandleShape, SchedShape, GhostShape, LiveInv, NodeInv, LifeInv, OrderInv, EscortInv,
         CyclicNext, ~Ended', NEW i \in Items, Alive(i)'
  PROVE  WellEscorted(i)'
<1>0. slot \in [Items -> Slots] /\ slot[i] \in Slots /\ caller \in [Callers -> {Idle} \cup Callings]
  BY DEF HandleShape
<1>1. ASSUME UNCHANGED caller
      PROVE  (\A c \in Callers : Sender(c, i) => Sender(c, i)') /\ Using(i) \subseteq Using(i)'
  BY <1>1 DEF Sender, Using
<1>2. ASSUME Alive(i), ~Ended PROVE WellEscorted(i)
  BY <1>2 DEF EscortInv
<1>3. CASE HandleNext
  <2>1. PICK j \in Items :
          /\ \/ \E config \in Configs : Grown(Add(j, config))
             \/ UNCHANGED commands
             \/ \E reply \in BOOLEAN : Grown(Stop(j, reply))
          /\ UNCHANGED <<slot, caller, entries, sched>>
    BY <1>3, HandleEffects
  <2>2. Bears(i)
    BY <2>1 DEF Bears
  <2>3. FrameOf(i)' = FrameOf(i) /\ ~Ended
    BY <2>1 DEF FrameOf, Ended
  <2>4. CASE handle[i] # "none"
    <3>1. WellEscorted(i)
      BY <1>2, <2>3, <2>4, AliveBefore
    <3> QED
      BY <1>1, <2>1, <2>2, <2>3, <3>1, Undisturbed
  <2>5. CASE handle[i] = "none"
    <3>1. slot[i] = EmptySlot /\ i \notin DOMAIN entries
      BY <2>5 DEF LifeInv
    <3>2. slot'[i] = EmptySlot /\ FrameTaken(i)' = 0
      BY <2>1, <3>1 DEF FrameTaken, FrameOf, Held, LiveInv
    <3> QED
      BY <3>2 DEF WellEscorted, EmptySlot
  <2> QED
    BY <2>4, <2>5
<1>4. ASSUME ~HandleNext PROVE Alive(i)
  BY <1>4, AliveBefore
<1>5. ASSUME ~HandleNext, ~Ended, Bears(i), slot'[i] = slot[i], FrameOf(i)' = FrameOf(i),
             UNCHANGED sched \/ (~Held(i) /\ ~Held(i)'),
             \A c \in Callers : Sender(c, i) => Sender(c, i)',
             Using(i) \subseteq Using(i)'
      PROVE  WellEscorted(i)'
  BY <1>2, <1>4, <1>5, Undisturbed
<1>6. ASSUME UNCHANGED entries PROVE FrameOf(i)' = FrameOf(i)
  BY <1>6 DEF FrameOf
<1>7. ASSUME UNCHANGED commands PROVE Bears(i)
  BY <1>7 DEF Bears
<1>8. ASSUME UNCHANGED sched PROVE ~Ended
  BY <1>8 DEF Ended
<1>9. ASSUME sched.at \in {"select", "ticking"} PROVE ~Ended /\ ~Held(i)
  BY <1>9 DEF Ended, Held
<1>a. ASSUME ~HandleNext, CallNext PROVE WellEscorted(i)'
  <2>1. CASE UNCHANGED <<slot, caller, commands, entries, sched>>
    BY <1>1, <1>5, <1>6, <1>7, <1>8, <1>a, <2>1
  <2>2. ASSUME NEW c \in Callers, NEW j \in Items, Written(c, j) PROVE WellEscorted(i)'
    <3>1. /\ UNCHANGED <<commands, entries, sched>> /\ caller[c].at = "idle"
          /\ caller' = [caller EXCEPT ![c] = [at |-> "wake", item |-> j]]
          /\ slot'[i].queued = slot[i].queued
          /\ j # i => slot'[i] = slot[i]
      BY <1>0, <2>2 DEF Written
    <3>2. \A d \in Callers : Sender(d, i) => Sender(d, i)'
      BY <1>0, <3>1 DEF Sender
    <3>3. Using(i) \subseteq Using(i)'
      BY <1>0, <3>1 DEF Using
    <3>4. CASE j # i
      BY <1>5, <1>6, <1>7, <1>8, <1>a, <3>1, <3>2, <3>3, <3>4
    <3>5. CASE j = i
      <4>1. c \in Using(i)'
        BY <1>0, <3>1, <3>5 DEF Using
      <4>2. slot[i].queued => Carried(i)
        BY <1>2, <1>4, <1>8, <1>a, <3>1 DEF WellEscorted
      <4>3. Carried(i) => Carried(i)'
        BY <3>1, <3>2, SameQueued DEF Carried, InChannel, Received
      <4> QED
        BY <3>1, <4>1, <4>2, <4>3 DEF WellEscorted, Escorted
    <3> QED
      BY <3>4, <3>5
  <2> QED
    BY <1>a, <2>1, <2>2, CallEffects
<1>b. ASSUME ~HandleNext, CloseLink \/ Elapse PROVE WellEscorted(i)'
  <2>1. UNCHANGED <<slot, caller, entries, sched>> /\ Bears(i)
    BY <1>b, CloseLinkEffects DEF Elapse, Bears
  <2> QED
    BY <1>1, <1>5, <1>6, <1>8, <1>b, <2>1
<1>c. ASSUME ~HandleNext, NEW c \in Callers, WakeNext(c) PROVE WellEscorted(i)'
  <2>1. PICK j \in Items :
           /\ caller[c].item = j
           /\ \/ /\ caller[c].at = "wake" /\ slot[j].queued /\ UNCHANGED <<slot, commands>>
                 /\ caller' = [caller EXCEPT ![c] = Idle]
              \/ /\ caller[c].at = "wake" /\ ~slot[j].queued /\ UNCHANGED commands
                 /\ slot' = [slot EXCEPT ![j].queued = TRUE]
                 /\ caller' = [caller EXCEPT ![c] = [at |-> "send", item |-> j]]
              \/ /\ caller[c].at = "send" /\ caller' = [caller EXCEPT ![c] = Idle]
                 /\ \/ Ended
                    \/ ~Ended /\ Grown(ApplyUpdate(j)) /\ UNCHANGED slot
           /\ UNCHANGED <<entries, sched>>
    BY <1>c, WakeEffects
  <2>2. ~Ended /\ FrameOf(i)' = FrameOf(i) /\ (Received(i)' <=> Received(i))
    BY <1>6, <1>8, <2>1 DEF Received
  <2>3. CASE j # i
    <3>1. \A d \in Callers : Sender(d, i) => Sender(d, i)'
      BY <1>0, <2>1, <2>3 DEF Sender
    <3>2. Using(i) \subseteq Using(i)'
      BY <1>0, <2>1, <2>3 DEF Using
    <3>3. Bears(i)
      BY <2>1, <2>2 DEF Bears
    <3>4. slot'[i] = slot[i]
      BY <1>0, <2>1, <2>2, <2>3
    <3> QED
      BY <1>5, <1>c, <2>1, <2>2, <3>1, <3>2, <3>3, <3>4
  <2>4. CASE j = i
    <3>1. CASE /\ caller[c].at = "wake" /\ slot[j].queued /\ UNCHANGED commands
               /\ caller' = [caller EXCEPT ![c] = Idle]
      <4>1. Carried(i)
        BY <1>2, <1>4, <1>c, <2>2, <2>4, <3>1 DEF WellEscorted
      <4>2. \A d \in Callers : Sender(d, i) => Sender(d, i)'
        BY <1>0, <3>1 DEF Sender
      <4>3. Carried(i)'
        BY <2>2, <3>1, <4>1, <4>2, SameQueued DEF Carried, InChannel
      <4> QED
        BY <4>3, WakeUpEscorts
    <3>2. CASE caller' = [caller EXCEPT ![c] = [at |-> "send", item |-> j]]
      <4>1. Sender(c, i)'
        BY <1>0, <2>4, <3>2 DEF Sender
      <4> QED
        BY <4>1, WakeUpEscorts DEF Carried
    <3>3. CASE Grown(ApplyUpdate(j))
      <4>1. Len(commands) + 1 \in Queued({"ApplyUpdate"})' /\ commands'[Len(commands) + 1].item = i
        BY <2>4, <3>3 DEF Grown, Queued, ApplyUpdate
      <4> QED
        BY <4>1, WakeUpEscorts DEF Carried, InChannel
    <3> QED
      BY <2>1, <2>2, <3>1, <3>2, <3>3
  <2> QED
    BY <2>3, <2>4
<1>d. ASSUME ~HandleNext, TakeAdd PROVE WellEscorted(i)'
  <2>1. PICK j \in Items, e \in Entries :
          /\ Shrunk /\ commands # <<>> /\ commands[1].kind = "Add" /\ commands[1].item = j
          /\ e.frame = 0 /\ sched.at = "select" /\ sched' = Selecting
          /\ entries' = With(j, e) /\ UNCHANGED <<slot, caller>>
    BY <1>d, AddEffects
  <2>2. Bears(i) /\ ~Ended /\ ~Held(i) /\ ~Held(i)'
    BY <1>9, <2>1 DEF Bears, Held, Selecting
  <2>3. FrameOf(i)' = FrameOf(i)
    <3>1. CASE i = j
      <4>1. i \notin DOMAIN entries
        BY <2>1, <3>1, NoNodesYet DEF HandleShape
      <4> QED
        BY <2>1, <3>1, <4>1 DEF FrameOf, With
    <3>2. CASE i # j
      BY <2>1, <3>2 DEF FrameOf, With
    <3> QED
      BY <3>1, <3>2
  <2> QED
    BY <1>1, <1>5, <1>d, <2>1, <2>2, <2>3
<1>e. ASSUME ~HandleNext, TakeUpdate PROVE WellEscorted(i)'
  <2>1. PICK j \in Items :
           /\ Shrunk /\ commands # <<>>
           /\ commands[1].kind = "ApplyUpdate" /\ commands[1].item = j
           /\ sched.at = "select"
           /\ IF j \in DOMAIN entries THEN sched' = [at |-> "received", item |-> j]
                                      ELSE sched' = Selecting
           /\ UNCHANGED <<slot, caller, entries>>
    BY <1>e, UpdateEffects
  <2>2. CASE j # i
    <3>1. Bears(i) /\ ~Ended /\ ~Held(i) /\ ~Held(i)'
      BY <1>9, <2>1, <2>2 DEF Bears, Held, Selecting
    <3> QED
      BY <1>1, <1>5, <1>6, <1>e, <2>1, <3>1
  <2>3. CASE j = i
    <3>1. ~Coming(i)'
      BY <2>1, <2>3, HeadComesLater DEF ItemKinds
    <3>2. i \in DOMAIN entries
      BY <2>1, <3>1 DEF Alive
    <3>3. Received(i)'
      BY <2>1, <2>3, <3>2 DEF Received
    <3> QED
      BY <3>3, WakeUpEscorts DEF Carried
  <2> QED
    BY <2>2, <2>3
<1>f. ASSUME ~HandleNext, TakeStop PROVE WellEscorted(i)'
  <2>1. PICK j \in Items :
           /\ Shrunk /\ commands # <<>> /\ commands[1].kind = "Stop" /\ commands[1].item = j
           /\ sched.at = "select" /\ sched' = Selecting
           /\ entries' = Without(j) /\ UNCHANGED <<slot, caller>>
    BY <1>f, StopEffects
  <2>2. j # i
    <3>1. j = i => ~Coming(i)'
      BY <2>1, HeadComesLater DEF ItemKinds
    <3> QED
      BY <2>1, <3>1 DEF Alive, Without
  <2>3. Bears(i) /\ ~Ended /\ ~Held(i) /\ ~Held(i)' /\ FrameOf(i)' = FrameOf(i)
    BY <1>9, <2>1, <2>2 DEF Bears, Held, Selecting, FrameOf, Without
  <2> QED
    BY <1>1, <1>5, <1>f, <2>1, <2>3
<1>g. CASE EndNext
  BY <1>g, EndEffects DEF SchedulerEnds, Ended
<1>h. ASSUME ~HandleNext, ClearFlag PROVE WellEscorted(i)'
  <2>1. /\ sched.at = "received" /\ sched'.at = "cleared" /\ sched'.item = sched.item
        /\ sched.item \in Items
        /\ slot' = [slot EXCEPT ![sched.item].queued = FALSE]
        /\ UNCHANGED <<caller, commands, entries>>
    BY <1>h, SchedStates DEF ClearFlag
  <2>2. CASE sched.item # i
    <3>1. slot'[i] = slot[i] /\ ~Ended /\ ~Held(i) /\ ~Held(i)'
      BY <1>0, <2>1, <2>2 DEF Held, Ended
    <3> QED
      BY <1>1, <1>5, <1>6, <1>7, <1>h, <2>1, <3>1
  <2>3. CASE sched.item = i
    <3>1. ~slot'[i].queued /\ Escorted(i)'
      BY <1>0, <2>1, <2>3 DEF Escorted
    <3> QED
      BY <3>1 DEF WellEscorted
  <2> QED
    BY <2>2, <2>3
<1>i. ASSUME ~HandleNext, TakeState PROVE WellEscorted(i)'
  <2>1. /\ sched.at = "cleared" /\ sched.item \in Items
        /\ sched'.at = "taken" /\ sched'.item = sched.item
        /\ sched'.frame = slot[sched.item].frame
        /\ slot' = [slot EXCEPT ![sched.item].period = Unset, ![sched.item].paused = "unset"]
        /\ UNCHANGED <<caller, commands, entries>>
    BY <1>i, SchedStates DEF TakeState
  <2>2. CASE sched.item # i
    <3>1. slot'[i] = slot[i] /\ ~Ended /\ ~Held(i) /\ ~Held(i)'
      BY <1>0, <2>1, <2>2 DEF Held, Ended
    <3> QED
      BY <1>1, <1>5, <1>6, <1>7, <1>i, <2>1, <3>1
  <2>3. CASE sched.item = i
    <3>1. /\ slot'[i].period = Unset /\ slot'[i].paused = "unset"
          /\ slot'[i].frame = slot[i].frame /\ slot'[i].queued = slot[i].queued
      BY <1>0, <2>1, <2>3 DEF Slots
    <3>2. Held(i)' /\ FrameTaken(i)' = slot[i].frame
      BY <2>1, <2>3 DEF Held, FrameTaken
    <3>3. slot[i].queued => Carried(i)
      BY <1>2, <1>4, <1>i, <2>1 DEF WellEscorted, Ended
    <3>4. Carried(i) => Carried(i)'
      BY <1>1, <2>1, SameQueued DEF Carried, InChannel, Received
    <3> QED
      BY <3>1, <3>2, <3>3, <3>4 DEF WellEscorted
  <2> QED
    BY <2>2, <2>3
<1>j. ASSUME ~HandleNext, TakeTriggers PROVE WellEscorted(i)'
  <2>1. PICK j \in Items, e \in Entries :
           /\ sched \in TakenStates /\ sched.item = j /\ j \in DOMAIN entries
           /\ e.frame = sched.frame /\ sched' = Selecting /\ entries' = With(j, e)
           /\ slot' = [slot EXCEPT ![j].triggers = 0]
           /\ UNCHANGED <<caller, commands>>
    BY <1>j, TriggersEffects
  <2>2. sched.at = "taken" /\ ~Ended /\ ~Held(i)'
    BY <2>1 DEF TakenStates, Ended, Held, Selecting
  <2>3. CASE j # i
    <3>1. slot'[i] = slot[i] /\ ~Held(i) /\ FrameOf(i)' = FrameOf(i)
      BY <1>0, <2>1, <2>3 DEF Held, FrameOf, With
    <3> QED
      BY <1>1, <1>5, <1>7, <1>j, <2>1, <2>2, <3>1
  <2>4. CASE j = i
    <3>1. /\ slot'[i].period = slot[i].period /\ slot'[i].paused = slot[i].paused
          /\ slot'[i].frame = slot[i].frame /\ slot'[i].queued = slot[i].queued
          /\ slot'[i].triggers = 0
      BY <1>0, <2>1, <2>4 DEF Slots
    <3>2. FrameTaken(i) = sched.frame
      BY <2>1, <2>2, <2>4 DEF FrameTaken, Held
    <3>3. FrameTaken(i)' = sched.frame
      BY <2>1, <2>2, <2>4 DEF FrameTaken, FrameOf, With
    <3>4. Carried(i) => Carried(i)'
      BY <1>1, <2>1, <2>2, SameQueued DEF Carried, InChannel, Received
    <3>5. Escorted(i) => Escorted(i)'
      BY <1>1, <2>1, <2>2, SameQueued DEF Escorted
    <3>6. WellEscorted(i)
      BY <1>2, <1>4, <1>j, <2>2
    <3> QED
      BY <3>1, <3>2, <3>3, <3>4, <3>5, <3>6 DEF WellEscorted
  <2> QED
    BY <2>3, <2>4
<1>k. ASSUME ~HandleNext, TickStarts \/ TickEnds \/ \E n \in heap : PopStale(n)
      PROVE  WellEscorted(i)'
  <2>1. /\ sched.at \in {"select", "ticking"} /\ sched'.at \in {"select", "ticking"}
        /\ UNCHANGED <<slot, caller, commands, entries>>
    BY <1>k DEF TickStarts, TickEnds, PopStale, Loop, Selecting
  <2>2. ~Held(i)'
    BY <2>1 DEF Held
  <2> QED
    BY <1>1, <1>5, <1>6, <1>7, <1>9, <1>k, <2>1, <2>2
<1>l. ASSUME ~HandleNext, NEW n \in heap, PopDue(n) PROVE WellEscorted(i)'
  <2>1. PICK j \in Items :
           /\ j \in DOMAIN entries
           /\ \/ \E e \in Entries : e.frame = entries[j].frame /\ entries' = With(j, e)
              \/ entries' = Without(j)
           /\ sched.at = "ticking"
           /\ UNCHANGED <<slot, caller, commands, sched>>
    BY <1>l, PopEffects
  <2>2. i \in DOMAIN entries \/ i # j
    BY <2>1
  <2>3. i \in DOMAIN entries' \/ i \notin DOMAIN entries
    <3>1. Coming(i)' => Coming(i)
      BY <2>1, SameQueued DEF Coming
    <3> QED
      BY <3>1 DEF Alive, LifeInv
  <2>4. FrameOf(i)' = FrameOf(i)
    BY <2>1, <2>2, <2>3 DEF FrameOf, With, Without
  <2> QED
    BY <1>1, <1>5, <1>7, <1>9, <1>l, <2>1, <2>4
<1> QED
  BY <1>3, <1>a, <1>b, <1>c, <1>d, <1>e, <1>f, <1>g, <1>h, <1>i, <1>j, <1>k, <1>l, NextSteps
     DEF OutsideNext

(* The count of what came due.                                             *)

LEMMA CountKept ==
  ASSUME HandleShape, SchedShape, GhostShape, LiveInv, NodeInv, LifeInv, OrderInv,
         TickInv, PhaseInv, StallInv, CountInv, CyclicNext, NEW i \in Items, Alive(i)'
  PROVE  Counted(i)'
<1>0. /\ slot \in [Items -> Slots] /\ slot[i] \in Slots /\ slot[i].triggers \in Nat
      /\ uncounted \in [Items -> Int] /\ uncounted[i] \in Int
      /\ now \in Nat /\ CountMax \in Nat \ {0} /\ Ticks(i) \in Nat
  <2>1. slot \in [Items -> Slots] /\ slot[i] \in Slots /\ MaxBurst \in Nat
    BY CyclicAssumption DEF HandleShape
  <2>2. slot[i].triggers \in Nat
    BY <2>1 DEF Slots
  <2>3. uncounted \in [Items -> Int] /\ uncounted[i] \in Int
    BY DEF GhostShape
  <2>4. now \in Nat /\ CountMax \in Nat \ {0}
    BY CyclicAssumption DEF HandleShape
  <2>5. Ticks(i) \in Nat
    BY EntryParts DEF Ticks
  <2> QED
    BY <2>1, <2>2, <2>3, <2>4, <2>5
<1>1. ASSUME ~HandleNext PROVE Alive(i) /\ Counted(i)
  BY <1>1, AliveBefore DEF CountInv
<1>2. ASSUME ~HandleNext, uncounted'[i] = uncounted[i], slot'[i].triggers = slot[i].triggers,
             Ticks(i)' = Ticks(i), stalled' = stalled
      PROVE  Counted(i)'
  BY <1>1, <1>2 DEF Counted
<1>3. ASSUME UNCHANGED <<now, entries>> PROVE Ticks(i)' = Ticks(i)
  BY <1>3 DEF Ticks, Outstanding
<1>4. ASSUME NEW j, NEW e, j # i, entries' = With(j, e) \/ entries' = Without(j), UNCHANGED now
      PROVE  Ticks(i)' = Ticks(i)
  BY <1>4 DEF Ticks, Outstanding, With, Without
<1>5. ASSUME NEW e, entries' = With(i, e), UNCHANGED now
      PROVE  Ticks(i)' = IF e.paused THEN 0 ELSE TicksBy(now, e.next, e.period)
  BY <1>5 DEF Ticks, Outstanding, With
<1>6. ASSUME NEW j, NEW next, NEW period, NEW counted, Phased(j, next, period, counted)
      PROVE  /\ UNCHANGED stalled
             /\ j # i => uncounted'[i] = uncounted[i]
             /\ j = i => uncounted'[i] = uncounted[i] - counted + TicksBy(now, next, period)
  BY <1>0, <1>6 DEF Phased
<1>a. CASE HandleNext
  <2>1. UNCHANGED <<now, slot, entries, uncounted, stalled>>
    BY <1>a, HandleEffects DEF ghostVars
  <2>2. CASE handle[i] = "none"
    <3>1. uncounted[i] = 0 /\ slot[i].triggers = 0 /\ Ticks(i) = 0
      BY <2>2 DEF LifeInv, EmptySlot, Ticks
    <3> QED
      BY <1>3, <2>1, <3>1 DEF Counted
  <2>3. CASE handle[i] # "none"
    <3>1. Counted(i)
      BY <2>3, AliveBefore DEF CountInv
    <3> QED
      BY <1>3, <2>1, <3>1 DEF Counted
  <2> QED
    BY <2>2, <2>3
<1>b. ASSUME ~HandleNext, CallNext PROVE Counted(i)'
  <2>1. ASSUME NEW c \in Callers, NEW j \in Items, Written(c, j) PROVE Counted(i)'
    <3>1. PICK value \in Slots :
            /\ slot' = [slot EXCEPT ![j] = value]
            /\ \/ /\ value.triggers = slot[j].triggers + 1
                  /\ uncounted' = [uncounted EXCEPT ![j] = @ + 1]
               \/ value.triggers = slot[j].triggers /\ UNCHANGED uncounted
      BY <2>1 DEF Written
    <3>2. Ticks(i)' = Ticks(i) /\ UNCHANGED stalled
      BY <2>1, <1>3 DEF Written
    <3>3. CASE j # i
      BY <1>0, <1>2, <1>b, <3>1, <3>2, <3>3
    <3>4. CASE j = i
      <4>1. \/ slot'[i].triggers = slot[i].triggers + 1 /\ uncounted'[i] = uncounted[i] + 1
            \/ slot'[i].triggers = slot[i].triggers /\ uncounted'[i] = uncounted[i]
        BY <1>0, <3>1, <3>4
      <4> QED
        BY <1>0, <1>1, <1>b, <3>2, <4>1 DEF Counted
    <3> QED
      BY <3>3, <3>4
  <2> QED
    BY <1>2, <1>3, <1>b, <2>1, CallEffects DEF ghostVars
<1>c. ASSUME ~HandleNext, CloseLink PROVE Counted(i)'
  BY <1>2, <1>3, <1>c, CloseLinkEffects DEF ghostVars
<1>d. ASSUME ~HandleNext, Elapse PROVE Counted(i)'
  <2>1. /\ UNCHANGED <<slot, entries>> /\ now' = now + 1 /\ (~stalled' => ~stalled)
        /\ uncounted'[i] =
             IF i \in Running /\ IsTick(i, now + 1) THEN uncounted[i] + 1 ELSE uncounted[i]
    BY <1>d DEF Elapse
  <2>2. CASE i \in Running
    <3>1. /\ phase[i] \in Nat /\ entries[i].next \in Nat /\ entries[i].period \in Nat \ {0}
          /\ phase[i] <= entries[i].next /\ (entries[i].next - phase[i]) % entries[i].period = 0
          /\ entries[i].next = phase[i] \/ entries[i].next - entries[i].period <= now
      BY <2>2, EntryParts DEF Running, PhaseInv, OnPhase, IsTick
    <3>2. TicksBy(now + 1, entries[i].next, entries[i].period)
            = TicksBy(now, entries[i].next, entries[i].period)
              + IF IsTick(i, now + 1) THEN 1 ELSE 0
      <4> DEFINE from == phase[i]
                 next == entries[i].next
                 period == entries[i].period
                 u == now + 1
      <4>1. /\ from \in Nat /\ next \in Nat /\ period \in Nat \ {0} /\ u \in Nat /\ u = now + 1
            /\ next = from \/ next - period <= now
        BY <1>0, <3>1
      <4>2. Stands(next, from, period)
        BY <3>1 DEF Stands
      <4>3. IsTick(i, u) = Stands(u, from, period)
        BY DEF IsTick, Stands
      <4> HIDE DEF from, next, period, u
      <4>4. /\ Stands(u, from, period)
                 => TicksBy(u, next, period) = TicksBy(now, next, period) + 1
            /\ ~Stands(u, from, period) => TicksBy(u, next, period) = TicksBy(now, next, period)
        BY <1>0, <4>1, <4>2, TickComes
      <4>5. TicksBy(now, next, period) \in Nat
        BY <1>0, <4>1, TickCounts
      <4>6. TicksBy(u, next, period)
              = TicksBy(now, next, period) + IF IsTick(i, u) THEN 1 ELSE 0
        BY <4>3, <4>4, <4>5
      <4> QED
        BY <4>6 DEF next, period, u
    <3>3. Ticks(i)' = Ticks(i) + IF IsTick(i, now + 1) THEN 1 ELSE 0
      BY <2>1, <2>2, <3>2 DEF Running, Ticks, Outstanding
    <3> QED
      BY <1>0, <1>1, <1>d, <2>1, <2>2, <3>3 DEF Counted
  <2>3. CASE i \notin Running
    <3>1. Ticks(i) = 0 /\ Ticks(i)' = 0
      BY <2>1, <2>3 DEF Running, Ticks, Outstanding
    <3> QED
      BY <1>1, <1>d, <2>1, <2>3, <3>1 DEF Counted
  <2> QED
    BY <2>2, <2>3
<1>e. ASSUME ~HandleNext, NEW c \in Callers, WakeNext(c) PROVE Counted(i)'
  <2>1. PICK j \in Items :
          /\ \/ UNCHANGED slot
             \/ \E flag \in BOOLEAN : slot' = [slot EXCEPT ![j].queued = flag]
          /\ UNCHANGED <<now, entries, uncounted, stalled>>
    BY <1>e, WakeEffects DEF ghostVars
  <2>2. slot'[i].triggers = slot[i].triggers
    BY <1>0, <2>1 DEF Slots
  <2> QED
    BY <1>2, <1>3, <1>e, <2>1, <2>2
<1>f. ASSUME ~HandleNext, TakeAdd PROVE Counted(i)'
  <2>1. PICK j \in Items, e \in Entries :
          /\ commands # <<>> /\ commands[1].kind = "Add" /\ commands[1].item = j
          /\ ~e.paused /\ entries' = With(j, e) /\ Phased(j, e.next, e.period, 0)
          /\ UNCHANGED <<now, slot>>
    BY <1>f, AddEffects
  <2>2. CASE j # i
    BY <1>2, <1>4, <1>6, <1>f, <2>1, <2>2
  <2>3. CASE j = i
    <3>1. Ticks(i) = 0
      <4>1. Coming(i)
        BY <2>1, <2>3, NoNodesYet DEF HandleShape
      <4> QED
        BY <4>1 DEF LifeInv, Ticks
    <3>2. /\ uncounted'[i] = uncounted[i] - 0 + Ticks(i)' /\ UNCHANGED <<slot, stalled>>
          /\ Ticks(i)' \in Nat
      <4>1. e.next \in Nat /\ e.period \in Nat \ {0}
        BY CyclicAssumption DEF Entries
      <4>2. Ticks(i)' = TicksBy(now, e.next, e.period) /\ TicksBy(now, e.next, e.period) \in Nat
        BY <1>0, <1>5, <2>1, <2>3, <4>1, TickCounts
      <4> QED
        BY <1>6, <2>1, <2>3, <4>2
    <3> QED
      BY <1>0, <1>1, <1>f, <3>1, <3>2 DEF Counted
  <2> QED
    BY <2>2, <2>3
<1>g. ASSUME ~HandleNext, TakeUpdate PROVE Counted(i)'
  BY <1>2, <1>3, <1>g, UpdateEffects DEF ghostVars
<1>h. ASSUME ~HandleNext, TakeStop PROVE Counted(i)'
  <2>1. PICK j \in Items :
           /\ Shrunk /\ commands # <<>> /\ commands[1].kind = "Stop" /\ commands[1].item = j
           /\ entries' = Without(j) /\ Forget(j) /\ UNCHANGED <<now, slot>>
    BY <1>h, StopEffects
  <2>2. j # i
    <3>1. j = i => ~Coming(i)'
      BY <2>1, HeadComesLater DEF ItemKinds
    <3> QED
      BY <2>1, <3>1 DEF Alive, Without
  <2>3. uncounted'[i] = uncounted[i] /\ UNCHANGED stalled
    BY <1>0, <2>1, <2>2 DEF Forget
  <2> QED
    BY <1>2, <1>4, <1>h, <2>1, <2>2, <2>3
<1>i. CASE EndNext
  BY <1>i, EndEffects DEF SchedulerEnds, Alive, Coming, Queued
<1>j. ASSUME ~HandleNext, ClearFlag \/ TakeState PROVE Counted(i)'
  <2>1. sched.item \in Items /\ UNCHANGED <<now, entries, uncounted, stalled>>
    BY <1>j, SchedStates DEF ClearFlag, TakeState, ghostVars
  <2>2. slot'[i].triggers = slot[i].triggers
    BY <1>0, <1>j, <2>1 DEF ClearFlag, TakeState, Slots
  <2> QED
    BY <1>2, <1>3, <1>j, <2>1, <2>2
<1>k. ASSUME ~HandleNext, TakeTriggers PROVE Counted(i)'
  <2>1. PICK j \in Items, e \in Entries :
           /\ j \in DOMAIN entries /\ entries' = With(j, e)
           /\ slot' = [slot EXCEPT ![j].triggers = 0] /\ UNCHANGED now
           /\ \/ /\ Phased(j, e.next, e.period, slot[j].triggers + Outstanding(j))
                 /\ e.next = now + e.period
              \/ /\ e.next = entries[j].next /\ UNCHANGED stalled
                 /\ \/ /\ e.paused
                       /\ uncounted' =
                            [uncounted EXCEPT ![j] = @ - slot[j].triggers - Outstanding(j)]
                    \/ /\ e.paused = entries[j].paused /\ e.period = entries[j].period
                       /\ uncounted' = [uncounted EXCEPT ![j] = @ - slot[j].triggers - 0]
    BY <1>k, TriggersEffects
  <2>2. CASE j # i
    <3>1. slot'[i].triggers = slot[i].triggers
      BY <1>0, <2>1, <2>2
    <3>2. uncounted'[i] = uncounted[i] /\ UNCHANGED stalled
      BY <1>0, <1>6, <2>1, <2>2
    <3>3. Ticks(i)' = Ticks(i)
      BY <1>4, <2>1, <2>2
    <3> QED
      BY <1>2, <1>k, <3>1, <3>2, <3>3
  <2>3. CASE j = i
    <3> DEFINE ticks == Outstanding(i)
               triggers == slot[i].triggers
    <3>1. /\ slot'[i].triggers = 0 /\ Ticks(i) = ticks /\ ticks \in Nat /\ triggers \in Nat
          /\ e.next \in Nat /\ e.period \in Nat \ {0} /\ e.paused \in BOOLEAN
      BY <1>0, <2>1, <2>3, CyclicAssumption DEF Slots, Ticks, Entries
    <3>2. /\ uncounted[i] <= triggers + ticks
          /\ ~stalled => uncounted[i] = triggers + ticks
      BY <1>1, <1>k, <3>1 DEF Counted
    <3>3. CASE Phased(i, e.next, e.period, triggers + ticks) /\ e.next = now + e.period
      <4>1. now < e.next
        BY <1>0, <3>1, <3>3
      <4>2. TicksBy(now, e.next, e.period) = 0
        BY <1>0, <3>1, <4>1, TickCounts
      <4>3. Ticks(i)' = 0
        BY <1>5, <2>1, <2>3, <4>2
      <4>4. uncounted'[i] = uncounted[i] - (triggers + ticks) + 0 /\ UNCHANGED stalled
        BY <1>6, <3>3, <4>2
      <4> HIDE DEF ticks, triggers
      <4> QED
        BY <1>0, <3>1, <3>2, <4>3, <4>4 DEF Counted
    <3>4. CASE /\ e.next = entries[i].next /\ UNCHANGED stalled /\ e.paused
               /\ uncounted' = [uncounted EXCEPT ![i] = @ - triggers - ticks]
      <4>1. Ticks(i)' = 0
        BY <1>5, <2>1, <2>3, <3>4
      <4>2. uncounted'[i] = uncounted[i] - triggers - ticks
        BY <1>0, <3>4
      <4> HIDE DEF ticks, triggers
      <4> QED
        BY <1>0, <3>1, <3>2, <3>4, <4>1, <4>2 DEF Counted
    <3>5. CASE /\ e.next = entries[i].next /\ UNCHANGED stalled
               /\ e.paused = entries[i].paused /\ e.period = entries[i].period
               /\ uncounted' = [uncounted EXCEPT ![i] = @ - triggers - 0]
      <4>1. Ticks(i)' = ticks
        BY <1>5, <2>1, <2>3, <3>5 DEF Outstanding
      <4>2. uncounted'[i] = uncounted[i] - triggers - 0
        BY <1>0, <3>5
      <4> HIDE DEF ticks, triggers
      <4> QED
        BY <1>0, <3>1, <3>2, <3>5, <4>1, <4>2 DEF Counted
    <3> QED
      BY <2>1, <2>3, <3>3, <3>4, <3>5
  <2> QED
    BY <2>2, <2>3
<1>l. ASSUME ~HandleNext, TickStarts \/ TickEnds \/ \E n \in heap : PopStale(n)
      PROVE  Counted(i)'
  BY <1>2, <1>3, <1>l DEF TickStarts, TickEnds, Loop, PopStale, ghostVars
<1>m. ASSUME ~HandleNext, NEW n \in heap, PopDue(n) PROVE Counted(i)'
  <2>1. PICK j \in Items :
           /\ j \in DOMAIN entries /\ ~entries[j].paused /\ entries[j].next <= sched.now
           /\ \/ \E e \in Entries : /\ e.period = entries[j].period /\ Advances(j, e) /\ ~e.paused
                                    /\ entries' = With(j, e)
              \/ entries' = Without(j) /\ Forget(j)
           /\ sched.at = "ticking" /\ UNCHANGED <<now, slot, commands>>
    BY <1>m, PopEffects
  <2>2. CASE entries' = Without(j) /\ Forget(j)
    <3>1. j # i
      <4>1. Coming(i)' => Coming(i)
        BY <2>1, SameQueued DEF Coming
      <4> QED
        BY <2>1, <2>2, <4>1 DEF Alive, LifeInv, Without
    <3>2. uncounted'[i] = uncounted[i] /\ UNCHANGED stalled
      BY <1>0, <2>2, <3>1 DEF Forget
    <3> QED
      BY <1>2, <1>4, <1>m, <2>1, <2>2, <3>1, <3>2
  <2>3. ASSUME NEW e \in Entries, e.period = entries[j].period, Advances(j, e), ~e.paused,
               entries' = With(j, e)
        PROVE  Counted(i)'
    <3>1. PICK late \in Nat, steps \in Nat \ {0} :
            /\ late + 1 <= Outstanding(j)
            /\ steps = late + 1 \/ (steps = CountMax /\ steps <= late)
            /\ \/ /\ TicksBy(now, e.next, e.period) = Outstanding(j) - steps
                  /\ uncounted' = [uncounted EXCEPT ![j] = @ - (late + 1)]
                  /\ UNCHANGED stalled
               \/ /\ late + 1 = Outstanding(j)
                  /\ Phased(j, e.next, e.period, late + 1)
      BY <2>1, <2>3, Advancing
    <3>2. CASE j # i
      <4>1. uncounted'[i] = uncounted[i] /\ UNCHANGED stalled
        BY <1>0, <1>6, <3>1, <3>2
      <4> QED
        BY <1>2, <1>4, <1>m, <2>1, <2>3, <3>2, <4>1
    <3>3. CASE j = i
      <4> DEFINE ticks == Outstanding(i)
                 left == TicksBy(now, e.next, e.period)
                 triggers == slot[i].triggers
      <4>1. /\ ticks \in Nat /\ Ticks(i) = ticks /\ triggers \in Nat
            /\ slot'[i].triggers = triggers /\ e.next \in Nat /\ e.period \in Nat \ {0}
        BY <1>0, <2>1, <3>3, CyclicAssumption DEF Ticks, Entries
      <4>2. /\ uncounted[i] <= triggers + ticks
            /\ ~stalled => uncounted[i] = triggers + ticks /\ ticks <= CountMax
        BY <1>1, <1>m, <2>1, <3>3, <4>1 DEF Counted, StallInv, Running
      <4>3. Ticks(i)' = left /\ left \in Nat
        BY <1>0, <1>5, <2>1, <2>3, <3>3, <4>1, TickCounts
      <4>4. CASE /\ left = ticks - steps
                 /\ uncounted' = [uncounted EXCEPT ![i] = @ - (late + 1)]
                 /\ UNCHANGED stalled
        <5>1. uncounted'[i] = uncounted[i] - (late + 1)
          BY <1>0, <4>4
        <5>2. late + 1 <= ticks /\ (steps = late + 1 \/ (steps = CountMax /\ steps <= late))
          BY <3>1, <3>3
        <5> HIDE DEF ticks, left, triggers
        <5>3. steps <= late + 1 /\ (~stalled => steps = late + 1)
          BY <1>0, <4>1, <4>2, <5>2
        <5> QED
          BY <1>0, <4>1, <4>2, <4>3, <4>4, <5>1, <5>3 DEF Counted
      <4>5. CASE late + 1 = ticks /\ Phased(i, e.next, e.period, late + 1)
        <5>1. uncounted'[i] = uncounted[i] - ticks + left /\ UNCHANGED stalled
          BY <1>6, <4>5
        <5> HIDE DEF ticks, left, triggers
        <5> QED
          BY <1>0, <4>1, <4>2, <4>3, <5>1 DEF Counted
      <4> QED
        BY <3>1, <3>3, <4>4, <4>5
    <3> QED
      BY <3>2, <3>3
  <2> QED
    BY <2>1, <2>2, <2>3
<1> QED
  BY <1>a, <1>b, <1>c, <1>d, <1>e, <1>f, <1>g, <1>h, <1>i, <1>j, <1>k, <1>l, <1>m, NextSteps
     DEF OutsideNext

(* The budget.                                                             *)

Ordered(i) == \E k \in Queued(ItemKinds) : commands[k].item = i

LEMMA LeaseParts ==
  ASSUME NEW i \in Items
  PROVE  Leased(i) <=> \/ handle[i] \in {"held", "waiting"} \/ i \in DOMAIN entries
                       \/ Ordered(i) \/ Held(i)
  BY DEF Leased, Ordered, Held

\* An item is in the channel because it was, or because a command of it was sent.
LEMMA OrderedBefore ==
  ASSUME NEW i \in Items, Ordered(i)',
         \/ UNCHANGED commands \/ Shrunk
         \/ \E command : Grown(command) /\ ~(command.kind \in ItemKinds /\ command.item = i)
  PROVE  Ordered(i)
<1>1. PICK k \in Queued(ItemKinds)' : commands'[k].item = i
  BY DEF Ordered
<1>2. CASE UNCHANGED commands
  BY <1>1, <1>2, SameQueued DEF Ordered
<1>3. CASE Shrunk
  <2>1. k + 1 \in Queued(ItemKinds) /\ commands'[k] = commands[k + 1]
    BY <1>1, <1>3, ShrunkQueued
  <2> QED
    BY <1>1, <2>1 DEF Ordered
<1>4. ASSUME NEW command, Grown(command), ~(command.kind \in ItemKinds /\ command.item = i)
      PROVE  Ordered(i)
  <2>1. k \in Queued(ItemKinds) /\ commands'[k] = commands[k]
    BY <1>1, <1>4, GrownQueued
  <2> QED
    BY <1>1, <2>1 DEF Ordered
<1> QED
  BY <1>2, <1>3, <1>4

\* The first command of the channel holds a lease for its item.
LEMMA HeadIsLeased ==
  ASSUME HandleShape, commands # <<>>, commands[1].kind \in ItemKinds,
         NEW i \in Items, commands[1].item = i
  PROVE  Leased(i)
<1>1. 1 \in Queued(ItemKinds)
  BY EmptySeq, LenProperties DEF HandleShape, Queued
<1> QED
  BY <1>1 DEF Leased

\* Only Schedule leases an item that had no lease.
LEMMA LeasedBefore ==
  ASSUME HandleShape, SchedShape, GhostShape, LiveInv, NodeInv, LifeInv, CyclicNext,
         NEW i \in Items, Leased(i)'
  PROVE  Leased(i) \/ (handle[i] = "none" /\ HandleNext)
<1>0. /\ handle \in [Items -> {"none", "held", "waiting", "stopped", "gone"}]
      /\ caller \in [Callers -> {Idle} \cup Callings]
  BY DEF HandleShape
<1>1. \/ handle'[i] \in {"held", "waiting"} \/ i \in DOMAIN entries' \/ Ordered(i)' \/ Held(i)'
  BY DEF Leased, Ordered, Held
<1>2. ASSUME UNCHANGED <<handle, entries, sched>>, UNCHANGED commands \/ Shrunk
      PROVE  Leased(i)
  BY <1>1, <1>2, LeaseParts, OrderedBefore DEF Held
<1>3. ASSUME NEW command, Grown(command), UNCHANGED <<handle, entries, sched>>,
             command.kind \in ItemKinds /\ command.item = i => Leased(i)
      PROVE  Leased(i)
  BY <1>1, <1>3, LeaseParts, OrderedBefore DEF Held
<1>4. ASSUME HandleNext, handle[i] # "none" PROVE Leased(i)
  <2>1. PICK j \in Items :
           /\ \/ /\ handle[j] = "none" /\ handle' = [handle EXCEPT ![j] = "held"]
                 /\ \E config \in Configs : Grown(Add(j, config))
              \/ /\ handle[j] = "held"
                 /\ \E how \in {"waiting", "gone"} : handle' = [handle EXCEPT ![j] = how]
                 /\ \/ UNCHANGED commands
                    \/ \E reply \in BOOLEAN : Grown(Stop(j, reply))
              \/ /\ handle[j] = "waiting" /\ handle' = [handle EXCEPT ![j] = "gone"]
                 /\ UNCHANGED commands
           /\ UNCHANGED <<entries, sched>>
    BY <1>4, HandleEffects
  <2>2. CASE i = j
    BY <1>4, <2>1, <2>2, LeaseParts
  <2>3. CASE i # j
    <3>1. handle'[i] = handle[i] /\ (Held(i)' <=> Held(i))
      BY <1>0, <2>1, <2>3 DEF Held
    <3>2. Ordered(i)' => Ordered(i)
      BY <2>1, <2>3, OrderedBefore DEF Add, Stop
    <3> QED
      BY <1>1, <2>1, <3>1, <3>2, LeaseParts
  <2> QED
    BY <2>2, <2>3
<1>5. CASE CallNext \/ Elapse
  BY <1>5, <1>2, CallEffects DEF Elapse, Written
<1>6. CASE CloseLink
  BY <1>6, <1>3, CloseLinkEffects DEF Close, ItemKinds
<1>7. ASSUME NEW c \in Callers, WakeNext(c) PROVE Leased(i)
  <2>1. PICK j \in Items :
           /\ caller[c].item = j /\ caller[c].at \in {"wake", "send"}
           /\ UNCHANGED commands \/ Grown(ApplyUpdate(j))
           /\ UNCHANGED <<handle, entries, sched>>
    BY <1>7, WakeEffects
  <2>2. handle[j] = "held"
    BY <2>1 DEF LifeInv, Using
  <2> QED
    BY <1>2, <1>3, <2>1, <2>2, LeaseParts DEF ApplyUpdate
<1>8. CASE TakeAdd
  <2>1. PICK j \in Items, e \in Entries :
          /\ Shrunk /\ commands # <<>> /\ commands[1].kind = "Add" /\ commands[1].item = j
          /\ sched' = Selecting /\ entries' = With(j, e) /\ UNCHANGED handle
    BY <1>8, AddEffects
  <2>2. ~Held(i)' /\ (i \in DOMAIN entries' => i \in DOMAIN entries \/ i = j)
    BY <2>1 DEF Held, Selecting, With
  <2>3. Leased(j)
    BY <2>1, HeadIsLeased DEF ItemKinds
  <2> QED
    BY <1>1, <2>1, <2>2, <2>3, LeaseParts, OrderedBefore
<1>9. CASE TakeUpdate
  <2>1. PICK j \in Items :
           /\ Shrunk /\ commands # <<>>
           /\ commands[1].kind = "ApplyUpdate" /\ commands[1].item = j
           /\ sched' = [at |-> "received", item |-> j] \/ sched' = Selecting
           /\ UNCHANGED <<handle, entries>>
    BY <1>9, UpdateEffects
  <2>2. Held(i)' => i = j
    BY <2>1 DEF Held, Selecting
  <2>3. Leased(j)
    BY <2>1, HeadIsLeased DEF ItemKinds
  <2> QED
    BY <1>1, <2>1, <2>2, <2>3, LeaseParts, OrderedBefore
<1>a. CASE TakeStop
  <2>1. PICK j \in Items :
           /\ Shrunk /\ sched' = Selecting /\ entries' = Without(j)
           /\ \/ handle' = handle
              \/ handle[j] = "waiting" /\ handle' = [handle EXCEPT ![j] = "stopped"]
    BY <1>a, StopEffects
  <2>2. ~Held(i)' /\ (i \in DOMAIN entries' => i \in DOMAIN entries)
    BY <2>1 DEF Held, Selecting, Without
  <2>3. handle'[i] \in {"held", "waiting"} => handle[i] \in {"held", "waiting"}
    BY <1>0, <2>1
  <2> QED
    BY <1>1, <2>1, <2>2, <2>3, LeaseParts, OrderedBefore
<1>b. CASE EndNext
  <2>1. /\ ~Held(i)' /\ i \notin DOMAIN entries' /\ ~Ordered(i)'
        /\ handle' = [j \in Items |-> IF handle[j] = "waiting" THEN "gone" ELSE handle[j]]
    BY <1>b, EndEffects DEF SchedulerEnds, Held, Ordered, Queued
  <2> QED
    BY <1>1, <2>1, LeaseParts
<1>c. CASE ClearFlag \/ TakeState
  <2>1. Held(i)' => Held(i)
    BY <1>c, SchedStates DEF ClearFlag, TakeState, Held
  <2>2. UNCHANGED <<handle, entries, commands>>
    BY <1>c DEF ClearFlag, TakeState
  <2> QED
    BY <1>1, <2>1, <2>2, LeaseParts, OrderedBefore
<1>d. CASE TakeTriggers
  <2>1. PICK j \in Items, e \in Entries :
           /\ j \in DOMAIN entries /\ sched' = Selecting /\ entries' = With(j, e)
           /\ UNCHANGED <<handle, commands>>
    BY <1>d, TriggersEffects
  <2>2. ~Held(i)' /\ (i \in DOMAIN entries' => i \in DOMAIN entries)
    BY <2>1 DEF Held, Selecting, With
  <2> QED
    BY <1>1, <2>1, <2>2, LeaseParts, OrderedBefore
<1>e. CASE TickStarts \/ TickEnds \/ \E n \in heap : PopStale(n)
  <2>1. /\ sched'.at \in {"select", "ticking"} /\ UNCHANGED <<handle, entries, commands>>
    BY <1>e DEF TickStarts, TickEnds, PopStale, Loop, Selecting
  <2> QED
    BY <1>1, <2>1, LeaseParts, OrderedBefore DEF Held
<1>f. ASSUME NEW n \in heap, PopDue(n) PROVE Leased(i)
  <2>1. PICK j \in Items :
           /\ j \in DOMAIN entries
           /\ (\E e \in Entries : entries' = With(j, e)) \/ entries' = Without(j)
           /\ sched.at = "ticking" /\ UNCHANGED <<handle, commands, sched>>
    BY <1>f, PopEffects
  <2>2. ~Held(i)' /\ (i \in DOMAIN entries' => i \in DOMAIN entries)
    BY <2>1 DEF Held, With, Without
  <2> QED
    BY <1>1, <2>1, <2>2, LeaseParts, OrderedBefore
<1> QED
  BY <1>4, <1>5, <1>6, <1>7, <1>8, <1>9, <1>a, <1>b, <1>c, <1>d, <1>e, <1>f, NextSteps
     DEF OutsideNext

LEMMA QueuedIsFinite ==
  ASSUME commands \in Seq(Commands), NEW kinds
  PROVE  /\ IsFiniteSet(Queued(kinds)) /\ Cardinality(Queued(kinds)) \in Nat
         /\ Queued(kinds) \subseteq Nat
<1>1. Len(commands) \in Nat
  BY LenProperties
<1>2. IsFiniteSet(1..Len(commands))
  BY <1>1, FS_Interval
<1>3. Queued(kinds) \in SUBSET (1..Len(commands))
  BY DEF Queued
<1>4. IsFiniteSet(Queued(kinds))
  BY <1>2, <1>3, FS_Subset
<1> QED
  BY <1>1, <1>3, <1>4, FS_CardinalityType

\* Taking a command leaves no more of any kind.
LEMMA FewerQueued ==
  ASSUME commands \in Seq(Commands), Shrunk, NEW kinds
  PROVE  Cardinality(Queued(kinds)') <= Cardinality(Queued(kinds))
<1> DEFINE S == Queued(kinds)'
           T == Queued(kinds)
           f == [k \in S |-> k + 1]
<1>1. \A k \in S : k \in Nat /\ k + 1 \in T
  BY ShrunkQueued
<1>2. IsFiniteSet(T)
  BY QueuedIsFinite
<1> HIDE DEF S, T
<1>3. f \in [S -> T] /\ \A a, b \in S : f[a] = f[b] => a = b
  BY <1>1
<1>4. f \in Injection(S, T)
  <2> HIDE DEF f
  <2> QED
    BY <1>3, Fun_IsInj
<1>5. Cardinality(S) <= Cardinality(T)
  BY <1>2, <1>4, FS_Injection
<1> QED
  BY <1>5 DEF S, T

LEMMA Leases ==
  /\ IsFiniteSet(Items) /\ IsFiniteSet({i \in Items : Leased(i)})
  /\ Cardinality({i \in Items : Leased(i)}) \in Nat
<1>1. IsFiniteSet(Items)
  <2>1. 1 \in Int /\ MaxItems \in Int
    BY CyclicAssumption
  <2>2. IsFiniteSet(1..MaxItems)
    BY <2>1, FS_Interval
  <2> QED
    BY <2>2 DEF Items
<1>2. {i \in Items : Leased(i)} \in SUBSET Items
  OBVIOUS
<1>3. IsFiniteSet({i \in Items : Leased(i)})
  BY <1>1, <1>2, FS_Subset
<1> QED
  BY <1>1, <1>3, FS_CardinalityType

LEMMA LeasesKept ==
  ASSUME HandleShape, SchedShape, GhostShape, LiveInv, NodeInv, LifeInv, BudgetInv, CyclicNext
  PROVE  Cardinality({i \in Items : Leased(i)'}) <= Capacity
<1> DEFINE S == {i \in Items : Leased(i)}
           T == {i \in Items : Leased(i)'}
<1>1. IsFiniteSet(S) /\ Cardinality(S) \in Nat /\ Cardinality(S) <= Capacity /\ Capacity \in Nat
  BY Leases, CyclicAssumption DEF BudgetInv
<1>2. ASSUME T \subseteq S PROVE Cardinality(T) <= Capacity
  <2> HIDE DEF S, T
  <2>1. Cardinality(T) <= Cardinality(S) /\ IsFiniteSet(T)
    BY <1>1, <1>2, FS_Subset
  <2>2. Cardinality(T) \in Nat
    BY <2>1, FS_CardinalityType
  <2> QED
    BY <1>1, <2>1, <2>2
<1>3. ASSUME NEW j \in Items, T \subseteq S \cup {j}, Cardinality(S) < Capacity
      PROVE  Cardinality(T) <= Capacity
  <2> HIDE DEF S, T
  <2>1. IsFiniteSet(S \cup {j}) /\ Cardinality(S \cup {j}) <= Cardinality(S) + 1
    <3>1. /\ IsFiniteSet(S \cup {j})
          /\ Cardinality(S \cup {j}) = IF j \in S THEN Cardinality(S) ELSE Cardinality(S) + 1
      BY <1>1, FS_AddElement
    <3> QED
      BY <1>1, <3>1
  <2>2. Cardinality(T) <= Cardinality(S \cup {j}) /\ IsFiniteSet(T)
    BY <1>3, <2>1, FS_Subset
  <2>3. Cardinality(T) \in Nat /\ Cardinality(S \cup {j}) \in Nat
    BY <2>1, <2>2, FS_CardinalityType
  <2> QED
    BY <1>1, <1>3, <2>1, <2>2, <2>3
<1>4. CASE ~HandleNext
  <2>1. T \subseteq S
    BY <1>4, LeasedBefore
  <2> QED
    BY <1>2, <2>1
<1>5. CASE HandleNext
  <2>1. PICK j \in Items :
          /\ \/ Admitted
             \/ handle[j] # "none" /\ \E how \in {"waiting", "gone"} :
                                         handle' = [handle EXCEPT ![j] = how]
          /\ \A i \in Items : i # j => handle'[i] = handle[i]
    BY <1>5, HandleEffects DEF HandleShape
  <2>2. ASSUME NEW i \in Items, i # j, handle[i] = "none", Leased(i)' PROVE Leased(i)
    <3>1. PICK l \in Items :
            /\ \/ /\ handle[l] = "none" /\ handle' = [handle EXCEPT ![l] = "held"]
                  /\ \E config \in Configs : Grown(Add(l, config))
               \/ /\ handle[l] = "held"
                  /\ \/ UNCHANGED commands
                     \/ \E reply \in BOOLEAN : Grown(Stop(l, reply))
               \/ handle[l] = "waiting" /\ UNCHANGED commands
            /\ UNCHANGED <<entries, sched>>
      BY <1>5, HandleEffects
    <3>2. i # l
      BY <2>1, <2>2, <3>1 DEF HandleShape
    <3>3. Ordered(i)' => Ordered(i)
      BY <3>1, <3>2, OrderedBefore DEF Add, Stop
    <3> QED
      BY <2>1, <2>2, <3>1, <3>3 DEF Leased, Ordered
  <2>3. T \subseteq S \cup {j}
    BY <2>2, LeasedBefore
  <2>4. CASE Admitted
    BY <1>3, <2>3, <2>4 DEF Admitted
  <2>5. CASE handle[j] # "none"
    <3>1. T \subseteq S
      BY <2>2, <2>5, LeasedBefore
    <3> QED
      BY <1>2, <3>1
  <2> QED
    BY <2>1, <2>4, <2>5
<1> QED
  BY <1>4, <1>5

LEMMA AddsKept ==
  ASSUME HandleShape, SchedShape, GhostShape, LiveInv, NodeInv, BudgetInv, CyclicNext
  PROVE  Cardinality(Queued({"Add"})') <= AddSlots
<1> DEFINE S == Queued({"Add"})
           T == Queued({"Add"})'
<1>1. /\ commands \in Seq(Commands) /\ Len(commands) \in Nat
      /\ IsFiniteSet(S) /\ Cardinality(S) \in Nat /\ Cardinality(S) <= AddSlots /\ AddSlots \in Nat
  BY QueuedIsFinite, LenProperties, CyclicAssumption DEF BudgetInv, HandleShape
<1>2. ASSUME UNCHANGED commands PROVE Cardinality(T) <= AddSlots
  BY <1>1, <1>2, SameQueued
<1>3. ASSUME Shrunk PROVE Cardinality(T) <= AddSlots
  <2>1. Cardinality(T) <= Cardinality(S)
    BY <1>1, <1>3, FewerQueued
  <2>2. commands' \in Seq(Commands)
    BY <1>3 DEF Shrunk
  <2>3. IsFiniteSet(T) /\ Cardinality(T) \in Nat
    <3>1. T \in SUBSET (1..Len(commands')) /\ Len(commands') \in Nat
      BY <2>2, LenProperties DEF Queued
    <3>2. IsFiniteSet(1..Len(commands'))
      BY <3>1, FS_Interval
    <3>3. IsFiniteSet(T)
      BY <3>1, <3>2, FS_Subset
    <3> QED
      BY <3>3, FS_CardinalityType
  <2> HIDE DEF S, T
  <2> QED
    BY <1>1, <2>1, <2>3
<1>4. ASSUME NEW command, Grown(command), command.kind # "Add" \/ Admitted
      PROVE  Cardinality(T) <= AddSlots
  <2>1. T \subseteq S \cup {Len(commands) + 1} /\ (command.kind # "Add" => T \subseteq S)
    BY <1>4, GrownQueued
  <2>2. command.kind = "Add" => Cardinality(S) < AddSlots
    BY <1>4 DEF Admitted
  <2> DEFINE U == S \cup {Len(commands) + 1}
  <2> HIDE DEF S, T
  <2>3. IsFiniteSet(U) /\ Cardinality(U) <= Cardinality(S) + 1
    <3>1. /\ IsFiniteSet(U)
          /\ Cardinality(U) = IF Len(commands) + 1 \in S THEN Cardinality(S)
                                                       ELSE Cardinality(S) + 1
      BY <1>1, FS_AddElement
    <3> QED
      BY <1>1, <3>1
  <2>4. IsFiniteSet(T) /\ Cardinality(T) <= Cardinality(U)
        /\ (command.kind # "Add" => Cardinality(T) <= Cardinality(S))
    BY <1>1, <2>1, <2>3, FS_Subset
  <2>5. Cardinality(T) \in Nat /\ Cardinality(U) \in Nat
    BY <2>3, <2>4, FS_CardinalityType
  <2> QED
    BY <1>1, <2>2, <2>3, <2>4, <2>5
<1> SUFFICES Cardinality(T) <= AddSlots
  OBVIOUS
<1> HIDE DEF S, T
<1>a. CASE CallNext \/ Elapse
  BY <1>a, <1>2, CallEffects DEF Elapse, Written
<1>b. CASE HandleNext
  <2>1. PICK j \in Items :
          \/ Admitted /\ \E config \in Configs : Grown(Add(j, config))
          \/ UNCHANGED commands
          \/ \E reply \in BOOLEAN : Grown(Stop(j, reply))
    BY <1>b, HandleEffects
  <2> QED
    BY <1>2, <1>4, <2>1 DEF Stop
<1>c. CASE CloseLink
  BY <1>c, <1>4, CloseLinkEffects DEF Close
<1>d. ASSUME NEW c \in Callers, WakeNext(c) PROVE Cardinality(T) <= AddSlots
  <2>1. PICK j \in Items : UNCHANGED commands \/ Grown(ApplyUpdate(j))
    BY <1>d, WakeEffects
  <2> QED
    BY <1>2, <1>4, <2>1 DEF ApplyUpdate
<1>e. CASE TakeAdd \/ TakeUpdate \/ TakeStop
  BY <1>e, <1>3, AddEffects, UpdateEffects, StopEffects
<1>f. CASE EndNext
  <2>1. T = {}
    BY <1>f, EndEffects DEF SchedulerEnds, Queued, T
  <2> QED
    BY <1>1, <2>1, FS_EmptySet
<1>g. CASE ClearFlag \/ TakeState \/ TickStarts \/ TickEnds
  BY <1>g, <1>2 DEF ClearFlag, TakeState, TickStarts, TickEnds
<1>h. CASE TakeTriggers
  BY <1>h, <1>2, TriggersEffects
<1>i. ASSUME NEW n \in heap, PopStale(n) \/ PopDue(n) PROVE Cardinality(T) <= AddSlots
  BY <1>i, <1>2 DEF PopStale, PopDue
<1> QED
  BY <1>a, <1>b, <1>c, <1>d, <1>e, <1>f, <1>g, <1>h, <1>i, NextSteps DEF OutsideNext

\* Two commands of one kind and one item are one command.
LEMMA OneOfEach ==
  ASSUME HandleShape, LiveInv, OrderInv, FlagInv,
         NEW j \in Queued(ItemKinds), NEW k \in Queued(ItemKinds),
         commands[j].kind = commands[k].kind, commands[j].item = commands[k].item
  PROVE  j = k
<1>0. commands \in Seq(Commands)
  BY DEF HandleShape
<1>1. /\ j \in Nat /\ k \in Nat /\ j \in 1..Len(commands) /\ k \in 1..Len(commands)
      /\ commands[j] \in Commands /\ commands[j].kind \in ItemKinds
  BY <1>0, QueuedIndexes DEF Queued
<1>2. CASE commands[j].kind = "Add"
  <2>1. j \in Queued({"Add"}) /\ k \in Queued({"Add"})
    BY <1>1, <1>2 DEF Queued
  <2>2. j <= k /\ k <= j
    BY <2>1 DEF OrderInv
  <2> QED
    BY <1>1, <2>2
<1>3. CASE commands[j].kind = "Stop"
  <2>1. j \in Queued({"Stop"}) /\ k \in Queued({"Stop"})
    BY <1>1, <1>3 DEF Queued
  <2> QED
    BY <2>1 DEF OrderInv
<1>4. CASE commands[j].kind = "ApplyUpdate"
  <2>1. j \in Queued({"ApplyUpdate"}) /\ k \in Queued({"ApplyUpdate"})
    BY <1>1, <1>4 DEF Queued
  <2>2. commands[j].item \in Items
    BY <1>1, <1>4 DEF Commands, Orders
  <2>3. ~Ended
    <3>1. commands # <<>>
      BY <1>1, EmptySeq
    <3> QED
      BY <3>1 DEF LiveInv
  <2> QED
    BY <2>1, <2>2, <2>3 DEF FlagInv, FlagHolds, OneWakeUp, OnceInChannel
<1> QED
  BY <1>1, <1>2, <1>3, <1>4 DEF ItemKinds

LEMMA ThreeKinds ==
  IsFiniteSet(ItemKinds) /\ Cardinality(ItemKinds) = 3
<1>1. IsFiniteSet({"Add"}) /\ Cardinality({"Add"}) = 1
  BY FS_Singleton
<1>2. IsFiniteSet({"Add"} \cup {"ApplyUpdate"}) /\ Cardinality({"Add"} \cup {"ApplyUpdate"}) = 2
  BY <1>1, FS_AddElement
<1>3. /\ IsFiniteSet({"Add"} \cup {"ApplyUpdate"} \cup {"Stop"})
      /\ Cardinality({"Add"} \cup {"ApplyUpdate"} \cup {"Stop"}) = 3
  BY <1>2, FS_AddElement
<1>4. ItemKinds = {"Add"} \cup {"ApplyUpdate"} \cup {"Stop"}
  BY DEF ItemKinds
<1> QED
  BY <1>3, <1>4

\* Each item that holds a lease has at most one command of each kind.
LEMMA BudgetBoundsCommands ==
  ASSUME CyclicInv
  PROVE  CommandsAreBounded
<1> USE DEF CyclicInv
<1>0. commands \in Seq(Commands) /\ Capacity \in Nat
  BY CyclicAssumption DEF HandleShape
<1>1. Cardinality(Queued(ItemKinds)) <= 3 * Capacity
  <2> DEFINE L == {i \in Items : Leased(i)}
             Q == Queued(ItemKinds)
             P == ItemKinds \X L
             f == [k \in Q |-> <<commands[k].kind, commands[k].item>>]
  <2>1. \A k \in Q : commands[k].kind \in ItemKinds /\ commands[k].item \in L
    <3>1. ASSUME NEW k \in Q PROVE commands[k].kind \in ItemKinds /\ commands[k].item \in Items
      BY <1>0, QueuedIndexes DEF Commands, Orders, ItemKinds
    <3>2. ASSUME NEW k \in Q PROVE Leased(commands[k].item)
      BY DEF Leased
    <3> QED
      BY <3>1, <3>2
  <2>2. \A a, b \in Q : commands[a].kind = commands[b].kind /\ commands[a].item = commands[b].item
                        => a = b
    BY OneOfEach
  <2>3. IsFiniteSet(L) /\ Cardinality(L) \in Nat /\ Cardinality(L) <= Capacity
    BY Leases DEF BudgetInv
  <2> HIDE DEF L, Q
  <2>4. IsFiniteSet(P) /\ Cardinality(P) = 3 * Cardinality(L)
    BY <2>3, ThreeKinds, FS_Product
  <2>5. f \in [Q -> P] /\ \A a, b \in Q : f[a] = f[b] => a = b
    BY <2>1, <2>2
  <2>6. Cardinality(Q) <= Cardinality(P)
    <3> HIDE DEF f, P
    <3>1. f \in Injection(Q, P)
      BY <2>5, Fun_IsInj
    <3> QED
      BY <2>4, <3>1, FS_Injection
  <2>7. Cardinality(Q) \in Nat
    BY <1>0, QueuedIsFinite DEF Q
  <2> HIDE DEF P
  <2>8. 3 * Cardinality(L) <= 3 * Capacity
    BY <1>0, <2>3
  <2>9. Cardinality(Q) <= 3 * Capacity
    BY <1>0, <2>3, <2>4, <2>6, <2>7, <2>8
  <2> QED
    BY <2>9 DEF Q
<1>2. Cardinality(Queued({"Add"})) <= AddSlots
  BY DEF BudgetInv
<1>3. ASSUME NEW i \in Items
      PROVE  Cardinality({k \in Queued({"ApplyUpdate"}) : commands[k].item = i}) <= 1
  <2> DEFINE S == {k \in Queued({"ApplyUpdate"}) : commands[k].item = i}
  <2>1. \A j, k \in S : j = k
    <3>1. \A k \in S : k \in Queued(ItemKinds) /\ commands[k].kind = "ApplyUpdate"
      BY DEF Queued, ItemKinds
    <3> QED
      BY <3>1, OneOfEach
  <2> HIDE DEF S
  <2>2. CASE S = {}
    BY <2>2, FS_EmptySet DEF S
  <2>3. ASSUME NEW k \in S PROVE Cardinality(S) = 1
    <3>1. S = {k}
      BY <2>1, <2>3
    <3> QED
      BY <3>1, FS_Singleton
  <2> QED
    BY <2>2, <2>3 DEF S
<1> QED
  BY <1>1, <1>2, <1>3 DEF CommandsAreBounded

LEMMA TypesHold ==
  ASSUME CyclicInv
  PROVE  CyclicTypeOK
<1> USE DEF CyclicInv
<1>1. /\ now \in 0..MaxTime /\ calls \in 0..MaxCalls /\ slot \in [Items -> Slots]
      /\ handle \in [Items -> {"none", "held", "waiting", "stopped", "gone"}]
      /\ caller \in [Callers -> {Idle} \cup [at : {"wake", "send"}, item : Items]]
  BY DEF HandleShape, Callings
<1>2. ASSUME NEW k \in 1..Len(commands)
      PROVE  commands[k] \in {Close} \cup {ApplyUpdate(i) : i \in Items}
                            \cup {Stop(i, reply) : i \in Items, reply \in BOOLEAN}
                            \cup {Add(i, config) : i \in Items, config \in Configs}
  <2>1. commands[k] \in Commands
    BY ElementOfSeq DEF HandleShape
  <2>2. CASE commands[k] \in [kind : {"Add"}, item : Items, config : Configs]
    <3>1. commands[k] = Add(commands[k].item, commands[k].config)
      BY <2>2 DEF Add
    <3> QED
      BY <2>2, <3>1
  <2>3. CASE commands[k] \in [kind : {"ApplyUpdate"}, item : Items]
    <3>1. commands[k] = ApplyUpdate(commands[k].item)
      BY <2>3 DEF ApplyUpdate
    <3> QED
      BY <2>3, <3>1
  <2>4. CASE commands[k] \in [kind : {"Stop"}, item : Items, reply : BOOLEAN]
    <3>1. commands[k] = Stop(commands[k].item, commands[k].reply)
      BY <2>4 DEF Stop
    <3> QED
      BY <2>4, <3>1
  <2>5. CASE commands[k] \in [kind : {"Close"}]
    BY <2>5 DEF Close
  <2> QED
    BY <2>1, <2>2, <2>3, <2>4, <2>5 DEF Commands, Orders
<1>3. /\ DOMAIN entries \subseteq Items
      /\ \A i \in DOMAIN entries :
           entries[i] \in [frame : Nat, period : Periods, next : Nat, paused : BOOLEAN,
                           remaining : Nat, generation : Nat, overrun : {"Skip", "Burst"}]
      /\ heap \subseteq [at : Nat, item : Items, generation : Nat]
      /\ sched \in {Selecting, [at |-> "ended"]}
              \cup [at : {"received", "cleared"}, item : Items]
              \cup [at : {"taken"}, item : Items, frame : Nat,
                    period : {Unset} \cup Periods, paused : {"unset", "yes", "no"}]
              \cup [at : {"ticking"}, now : 0..MaxTime]
  BY DEF SchedShape, Entries, Nodes, TakenStates
<1>4. phase \in [Items -> Nat] /\ uncounted \in [Items -> Int] /\ stalled \in BOOLEAN
  BY DEF GhostShape
<1> QED
  BY <1>1, <1>2, <1>3, <1>4, BudgetBoundsCommands DEF CyclicTypeOK

(* The invariant.                                                          *)

LEMMA CyclicStarts ==
  ASSUME CyclicInit
  PROVE  CyclicInv
<1> USE DEF CyclicInit
<1>1. HandleShape
  <2>1. commands \in Seq(Commands) /\ EmptySlot \in Slots
    BY EmptySeq, CyclicAssumption DEF EmptySlot, Slots
  <2> QED
    BY <2>1, CyclicAssumption DEF HandleShape
<1>2. SchedShape /\ GhostShape
  <2>1. SchedShape
    BY DEF SchedShape
  <2>2. phase \in [Items -> Nat] /\ uncounted \in [Items -> Int]
    OBVIOUS
  <2>3. stalled \in BOOLEAN
    OBVIOUS
  <2> QED
    BY <2>1, <2>2, <2>3 DEF GhostShape
<1>3. Len(commands) = 0 /\ \A kinds : Queued(kinds) = {}
  BY EmptySeq DEF Queued
<1>4. /\ DOMAIN entries = {} /\ sched.at = "select"
      /\ \A c \in Callers : caller[c] = Idle
  BY DEF Selecting
<1>5. LiveInv /\ LifeInv /\ OrderInv
  BY <1>3, <1>4 DEF LiveInv, LifeInv, OrderInv, Held, Ended, Coming, Using, Idle
<1>6. \A i \in Items : ~Carried(i)
  BY <1>3, <1>4 DEF Carried, InChannel, Sender, Received, Idle
<1>7. FlagInv
  BY <1>3, <1>6 DEF FlagInv, FlagHolds, OneWakeUp, OnceInChannel, Carried
<1>8. \A i \in Items : ~Alive(i)
  BY <1>3, <1>4 DEF Alive, Coming
<1>9. EscortInv /\ NodeInv /\ TickInv /\ PhaseInv /\ StallInv /\ CountInv
  BY <1>4, <1>8 DEF EscortInv, NodeInv, TickInv, PhaseInv, StallInv, CountInv, Running
<1>10. BudgetInv
  <2>1. \A i \in Items : ~Leased(i)
    BY <1>3, <1>4 DEF Leased
  <2>2. {i \in Items : Leased(i)} = {}
    BY <2>1
  <2>3. Cardinality({i \in Items : Leased(i)}) = 0 /\ Cardinality(Queued({"Add"})) = 0
    BY <1>3, <2>2, FS_EmptySet
  <2> QED
    BY <2>3, CyclicAssumption DEF BudgetInv
<1> QED
  BY <1>1, <1>2, <1>5, <1>7, <1>9, <1>10 DEF CyclicInv

LEMMA CyclicMoves ==
  ASSUME CyclicInv, CyclicNext
  PROVE  CyclicInv'
<1>0. /\ HandleShape /\ SchedShape /\ GhostShape
      /\ LiveInv /\ LifeInv /\ OrderInv /\ FlagInv /\ EscortInv
      /\ NodeInv /\ TickInv /\ PhaseInv /\ StallInv /\ CountInv /\ BudgetInv
  BY DEF CyclicInv
<1>1. HandleShape' /\ SchedShape' /\ GhostShape'
  BY <1>0, HandleShapeKept, SchedShapeKept, GhostShapeKept
<1>2. LiveInv' /\ LifeInv' /\ OrderInv'
  BY <1>0, LiveKept, LifeKept, OrderKept
<1>3. FlagInv'
  BY <1>0, FlagsKept DEF FlagInv
<1>4. EscortInv'
  BY <1>0, EscortKept DEF EscortInv
<1>5. NodeInv' /\ TickInv' /\ PhaseInv' /\ StallInv'
  BY <1>0, NodesKept, TickKept, PhaseKept, StallKept
<1>6. CountInv'
  BY <1>0, CountKept DEF CountInv
<1>7. BudgetInv'
  BY <1>0, LeasesKept, AddsKept DEF BudgetInv
<1> QED
  BY <1>1, <1>2, <1>3, <1>4, <1>5, <1>6, <1>7 DEF CyclicInv

LEMMA CyclicRests ==
  ASSUME CyclicInv, UNCHANGED cyclicVars
  PROVE  CyclicInv'
<1>1. UNCHANGED <<now, slot, handle, caller, commands, entries, heap, sched, calls,
                  phase, uncounted, stalled>>
  BY DEF cyclicVars, ghostVars
<1>2. HandleShape' /\ SchedShape' /\ GhostShape'
  BY <1>1 DEF CyclicInv, HandleShape, SchedShape, GhostShape
<1>3. \A kinds : Queued(kinds)' = Queued(kinds)
  BY <1>1 DEF Queued
<1>4. \A i \in Items : /\ Held(i)' = Held(i) /\ Coming(i)' = Coming(i) /\ Using(i)' = Using(i)
                       /\ FrameOf(i)' = FrameOf(i)
  BY <1>1, <1>3 DEF Held, Coming, Using, FrameOf
<1>5. LiveInv' /\ LifeInv' /\ OrderInv' /\ NodeInv' /\ TickInv'
  BY <1>1, <1>3, <1>4 DEF CyclicInv, LiveInv, LifeInv, OrderInv, NodeInv, TickInv, Ended
<1>a. PhaseInv' /\ StallInv'
  BY <1>1 DEF CyclicInv, PhaseInv, StallInv, Running, OnPhase, IsTick, Outstanding
<1>b. \A i \in Items : Alive(i)' = Alive(i) /\ Ticks(i)' = Ticks(i)
  BY <1>1, <1>4 DEF Alive, Ticks, Outstanding
<1>c. CountInv'
  BY <1>1, <1>b DEF CyclicInv, CountInv, Counted
<1>6. FlagInv'
  BY <1>1, <1>3 DEF CyclicInv, FlagInv, FlagHolds, OneWakeUp, OnceInChannel, Carried, InChannel,
     Sender, Received, Ended
<1>7. EscortInv'
  BY <1>1, <1>3, <1>4 DEF CyclicInv, EscortInv, Alive, WellEscorted, Carried,
     InChannel, Sender, Received, Escorted, FrameTaken, Ended
<1>8. \A i \in Items : Leased(i)' = Leased(i)
  BY <1>1, <1>3 DEF Leased
<1>9. BudgetInv'
  BY <1>1, <1>3, <1>8 DEF CyclicInv, BudgetInv
<1> QED
  BY <1>2, <1>5, <1>6, <1>7, <1>9, <1>a, <1>c DEF CyclicInv

\* cyclic.rs:604-763: the inductive invariant of cyclic transmission.
THEOREM CyclicInvariance == CyclicSpec => []CyclicInv
<1>1. CyclicInit => CyclicInv
  BY CyclicStarts
<1>2. CyclicInv /\ [CyclicNext]_cyclicVars => CyclicInv'
  BY CyclicMoves, CyclicRests
<1> QED
  BY <1>1, <1>2, PTL DEF CyclicSpec

\* cyclic.rs:151-210, 457-494: every variable of the scheduler, of its handles and of
\* its channel keeps its range, and the channel its bound.
THEOREM CyclicTypesAlways == CyclicSpec => []CyclicTypeOK
<1>1. CyclicInv => CyclicTypeOK
  BY TypesHold
<1> QED
  BY <1>1, CyclicInvariance, PTL

\* concepts.md:96-112, control.rs:6-31: the unbounded control channel never holds more
\* than three commands of each item of the budget, nor more Adds than their slots, nor
\* two updates of one item, whatever the callers do.
THEOREM CommandsAlwaysBounded == CyclicSpec => []CommandsAreBounded
<1>1. CyclicInv => CommandsAreBounded
  BY BudgetBoundsCommands
<1> QED
  BY <1>1, CyclicInvariance, PTL

\* wake and take (cyclic.rs:314-319, 650-654): the caller writes and then sets the flag,
\* the scheduler clears the flag and then reads, so no value is left in a slot without
\* a command, a caller or the scheduler that will see it.
THEOREM UpdateAlwaysEscorted == CyclicSpec => []UpdateIsEscorted
<1>1. ASSUME CyclicInv PROVE UpdateIsEscorted
  <2>1. SUFFICES ASSUME ~Ended, NEW i \in Items, i \in DOMAIN entries
                 PROVE  /\ StatePending(i) => Escorted(i)
                        /\ slot[i].triggers > 0 => Escorted(i) \/ Held(i)
    BY DEF UpdateIsEscorted
  <2>2. WellEscorted(i)
    BY <1>1, <2>1 DEF CyclicInv, EscortInv, Alive
  <2>3. /\ slot[i].frame # entries[i].frame
        /\ ~(Held(i) /\ sched.at = "taken" /\ sched.frame = slot[i].frame)
        => slot[i].frame # FrameTaken(i)
    BY <2>1 DEF FrameTaken, FrameOf
  <2> QED
    BY <2>2, <2>3 DEF WellEscorted, StatePending
<1> QED
  BY <1>1, CyclicInvariance, PTL

\* cyclic.rs:703-757: the next due time of an entry that runs stays a whole number of
\* periods after the one it was phased with, however late the scheduler wakes.
THEOREM PhaseAlwaysKept == CyclicSpec => []PhaseIsKept
<1>1. CyclicInv => PhaseIsKept
  BY DEF CyclicInv, PhaseInv, OnPhase, PhaseIsKept
<1> QED
  BY <1>1, CyclicInvariance, PTL

\* cyclic.rs:233-247, 395-405, 655-676, 700-757: as long as an entry lives, every tick
\* that came due while it ran and every trigger called for has been sent or skipped, or
\* is still to be, or was outstanding when an update took the node of the entry away; and
\* none was counted twice, unless an entry was once behind by more than u32::MAX ticks.
THEOREM EverythingAlwaysCounted == CyclicSpec => []EverythingIsCounted
<1>1. ASSUME CyclicInv PROVE EverythingIsCounted
  <2>1. SUFFICES ASSUME NEW i \in DOMAIN entries PROVE Counted(i) /\ Ticks(i) = Outstanding(i)
    BY DEF EverythingIsCounted, Counted
  <2> QED
    BY <1>1 DEF CyclicInv, CountInv, Alive, SchedShape, Ticks
<1> QED
  BY <1>1, CyclicInvariance, PTL

(* The due times.                                                          *)

HasNode(i) == ~entries[i].paused => Node(i, entries[i]) \in heap
DueInv == \A i \in DOMAIN entries : HasNode(i)

\* The heap that is built anew has a node of each entry that runs.
LEMMA LoopKeepsNodes ==
  ASSUME NEW nodes, NEW live, Loop(nodes, live),
         \A i \in DOMAIN live : ~live[i].paused => Node(i, live[i]) \in nodes
  PROVE  DueInv'
<1>1. entries' = live /\ heap' = Compact(nodes, live)
  BY DEF Loop
<1>2. \A i \in DOMAIN live : ~live[i].paused => Node(i, live[i]) \in Compact(nodes, live)
  BY DEF Compact
<1>3. \A i : Node(i, entries[i])' = Node(i, entries'[i])
  BY DEF Node
<1> QED
  BY <1>1, <1>2, <1>3 DEF DueInv, HasNode

LEMMA DueMoves ==
  ASSUME HandleShape, SchedShape, GhostShape, LiveInv, NodeInv, DueInv, CyclicNext
  PROVE  DueInv'
<1>1. ASSUME UNCHANGED <<entries, heap>> PROVE DueInv'
  BY <1>1 DEF DueInv, HasNode, Node
<1>2. \A i \in DOMAIN entries : ~entries[i].paused => Node(i, entries[i]) \in heap
  BY DEF DueInv, HasNode
<1>a. CASE OutsideNext \/ ClearFlag \/ TakeState \/ TickStarts
  BY <1>a, <1>1, OutsideEffects DEF ClearFlag, TakeState, TickStarts
<1>b. CASE TakeAdd
  <2>1. PICK i \in Items, e \in Entries : Loop(heap \cup {Node(i, e)}, With(i, e))
    BY <1>b, AddEffects
  <2>2. \A j \in DOMAIN With(i, e) :
          ~With(i, e)[j].paused => Node(j, With(i, e)[j]) \in heap \cup {Node(i, e)}
    BY <1>2 DEF With
  <2> QED
    BY <2>1, <2>2, LoopKeepsNodes
<1>c. CASE TakeUpdate
  BY <1>c, <1>1, <1>2, UpdateEffects, LoopKeepsNodes
<1>d. CASE TakeStop
  <2>1. PICK i \in Items : Loop(heap, Without(i))
    BY <1>d, StopEffects
  <2>2. \A j \in DOMAIN Without(i) :
          ~Without(i)[j].paused => Node(j, Without(i)[j]) \in heap
    BY <1>2 DEF Without
  <2> QED
    BY <2>1, <2>2, LoopKeepsNodes
<1>e. CASE EndNext
  BY <1>e, EndEffects DEF SchedulerEnds, DueInv
<1>f. CASE TakeTriggers
  <2>1. PICK i \in Items, e \in Entries :
          /\ i \in DOMAIN entries
          /\ ~Rephases(sched) =>
               /\ e.next = entries[i].next
               /\ e.paused \/ (e.paused = entries[i].paused /\ e.generation = entries[i].generation)
          /\ Loop(IF Rephases(sched) THEN heap \cup {Node(i, e)} ELSE heap, With(i, e))
    BY <1>f, TriggersEffects
  <2> DEFINE nodes == IF Rephases(sched) THEN heap \cup {Node(i, e)} ELSE heap
  <2>2. ~e.paused => Node(i, e) \in nodes
    BY <1>2, <2>1 DEF Node
  <2>3. \A j \in DOMAIN With(i, e) :
          ~With(i, e)[j].paused => Node(j, With(i, e)[j]) \in nodes
    BY <1>2, <2>1, <2>2 DEF With
  <2> HIDE DEF nodes
  <2> QED
    BY <2>1, <2>3, LoopKeepsNodes DEF nodes
<1>g. CASE TickEnds
  BY <1>g, <1>2, LoopKeepsNodes DEF TickEnds
<1>h. ASSUME NEW n \in heap, PopStale(n) PROVE DueInv'
  <2>1. heap' = heap \ {n} /\ UNCHANGED entries /\ ~IsCurrent(n)
    BY <1>h DEF PopStale
  <2>2. ASSUME NEW i \in DOMAIN entries, ~entries[i].paused PROVE Node(i, entries[i]) # n
    BY <2>1, <2>2 DEF IsCurrent, Node
  <2> QED
    BY <1>2, <2>1, <2>2 DEF DueInv, HasNode, Node
<1>i. ASSUME NEW n \in heap, PopDue(n) PROVE DueInv'
  <2>1. PICK i \in Items :
           /\ n.item = i /\ i \in DOMAIN entries
           /\ \/ \E e \in Entries : /\ entries' = With(i, e)
                                    /\ heap' = (heap \ {n}) \cup {Node(i, e)}
              \/ entries' = Without(i) /\ heap' = heap \ {n}
    BY <1>i, PopEffects
  <2>2. ASSUME NEW j \in DOMAIN entries, j # i PROVE Node(j, entries[j]) # n
    BY <2>1, <2>2 DEF Node
  <2>3. ASSUME NEW e \in Entries, entries' = With(i, e), heap' = (heap \ {n}) \cup {Node(i, e)}
        PROVE  DueInv'
    BY <1>2, <2>2, <2>3 DEF DueInv, HasNode, With, Node
  <2>4. ASSUME entries' = Without(i), heap' = heap \ {n} PROVE DueInv'
    BY <1>2, <2>2, <2>4 DEF DueInv, HasNode, Without, Node
  <2> QED
    BY <2>1, <2>3, <2>4
<1> QED
  BY <1>a, <1>b, <1>c, <1>d, <1>e, <1>f, <1>g, <1>h, <1>i, NextSteps

\* compact_heap and the generations (cyclic.rs:580-602, 665-677, 697-702): an entry that
\* runs always has one node of its own in the heap, so the timer never forgets it and
\* never fires it twice.
THEOREM EntriesAlwaysDue == CyclicSpec => []EntriesStayDue
<1>1. CyclicInit => DueInv
  BY DEF CyclicInit, DueInv
<1>2. CyclicInv /\ DueInv /\ [CyclicNext]_cyclicVars => DueInv'
  <2>1. ASSUME UNCHANGED cyclicVars, DueInv PROVE DueInv'
    BY <2>1 DEF cyclicVars, DueInv, HasNode, Node
  <2> QED
    BY <2>1, DueMoves DEF CyclicInv
<1>3. CyclicInv /\ DueInv => EntriesStayDue
  <2>1. SUFFICES ASSUME CyclicInv, DueInv, NEW i \in DOMAIN entries, ~entries[i].paused
                 PROVE  {n \in heap : n.item = i /\ IsCurrent(n)} = {Node(i, entries[i])}
    BY DEF EntriesStayDue
  <2>2. Node(i, entries[i]) \in heap /\ IsCurrent(Node(i, entries[i]))
    BY <2>1 DEF DueInv, HasNode, IsCurrent, Node
  <2>3. ASSUME NEW n \in heap, n.item = i, IsCurrent(n) PROVE n = Node(i, entries[i])
    <3>1. n \in Nodes /\ n.generation = entries[i].generation /\ n.at = entries[i].next
      BY <2>1, <2>3 DEF CyclicInv, SchedShape, NodeInv, IsCurrent
    <3> QED
      BY <2>3, <3>1 DEF Nodes, Node
  <2> QED
    BY <2>2, <2>3 DEF Node
<1> QED
  BY <1>1, <1>2, <1>3, CyclicInvariance, PTL DEF CyclicSpec

\* cyclic.rs 584-602, 655-677, 694-758: both together, what a running entry counts on.
THEOREM DeadlinesAlwaysKept == CyclicSpec => []DeadlinesAreKept
BY PhaseAlwaysKept, EntriesAlwaysDue, PTL DEF DeadlinesAreKept
==============================================================================
