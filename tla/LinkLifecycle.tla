---------------------------- MODULE LinkLifecycle ----------------------------
(***************************************************************************)
(* What one Link promises about its connection, without its tasks: the     *)
(* life of the logical state, of the attempt budget and of the transports  *)
(* the factory hands out.  LinkSupervisor implements it.                   *)
(***************************************************************************)
EXTENDS LinkMachine

CONSTANT Transports

VARIABLES
  state,    \* LinkState
  attempt,  \* failures since the last stable connection
  live,     \* the transports that are open or being closed
  used      \* the transports that have been closed

lifecycleVars == <<state, attempt, live, used>>

LifecycleInit ==
  /\ state = Disconnected
  /\ attempt = 0
  /\ live = {} /\ used = {}

\* Connecting starts only when nothing of the previous connection is left.
Begin ==
  /\ state = Disconnected \/ state.name = "Backoff"
  /\ live = {}
  /\ state' = Connecting
  /\ UNCHANGED <<attempt, live, used>>

Acquire(t) ==
  /\ state = Connecting
  /\ live = {} /\ t \notin used
  /\ live' = {t}
  /\ UNCHANGED <<state, attempt, used>>

Establish ==
  /\ state = Connecting
  /\ live # {}
  /\ state' = Connected
  /\ UNCHANGED <<attempt, live, used>>

\* A transport is never released under a link that says Connected.
Release(t) ==
  /\ state # Connected
  /\ t \in live
  /\ live' = {} /\ used' = used \cup {t}
  /\ UNCHANGED <<state, attempt>>

FailTo(n) ==
  /\ state \in {Connecting, Connected}
  /\ state = Connecting => live = {}
  /\ n = Saturate(attempt) /\ ~Exhausted(n)
  /\ state' = Backoff(n) /\ attempt' = n
  /\ UNCHANGED <<live, used>>

Stable ==
  /\ state = Connected
  /\ attempt' = 0
  /\ UNCHANGED <<state, live, used>>

End ==
  /\ state # Closed
  /\ state' = Closed
  /\ UNCHANGED <<attempt, live, used>>

LifecycleNext ==
  \/ Begin \/ Establish \/ Stable \/ End
  \/ \E t \in Transports : Acquire(t) \/ Release(t)
  \/ \E n \in 1..AttemptMax : FailTo(n)

LifecycleSpec == LifecycleInit /\ [][LifecycleNext]_lifecycleVars
=============================================================================
