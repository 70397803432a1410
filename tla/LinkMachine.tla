---------------------------- MODULE LinkMachine ----------------------------
(***************************************************************************)
(* The pure reconnect state machine of pcan-link (supervisor/machine.rs).  *)
(* It owns no clock and performs no I/O: Step maps a machine and an input  *)
(* to the next machine and to the ordered list of actions the supervisor   *)
(* has to execute.  The backoff delay and the wording of the events are    *)
(* abstracted: an armed timer may fire at any later time.                  *)
(***************************************************************************)
EXTENDS Naturals, Sequences

CONSTANTS
  MaxAttempts,   \* BackoffPolicy.max_attempts, Unlimited when it is None
  Unlimited,     \* stands for None
  AttemptMax     \* the value at which the u32 attempt counter saturates

ASSUME MachineAssumption ==
  /\ AttemptMax \in Nat \ {0}
  /\ Unlimited \notin Nat
  /\ MaxAttempts \in Nat \cup {Unlimited}

FaultKinds == {"Transient", "Recoverable", "Fatal", "Permanent"}

-----------------------------------------------------------------------------
(* LinkState, LinkInput and LinkAction *)

Disconnected == [name |-> "Disconnected", attempt |-> 0]
Connecting   == [name |-> "Connecting",   attempt |-> 0]
Connected    == [name |-> "Connected",    attempt |-> 0]
Closed       == [name |-> "Closed",       attempt |-> 0]
Backoff(n)   == [name |-> "Backoff",      attempt |-> n]

LinkStates == {Disconnected, Connecting, Connected, Closed}
                \cup {Backoff(n) : n \in 1..AttemptMax}

Machines == [state : LinkStates, attempt : 0..AttemptMax]

Input(name)       == [name |-> name, kind |-> "none"]
OpenFailed(k)     == [name |-> "OpenFailed", kind |-> k]
TransportFault(k) == [name |-> "TransportFault", kind |-> k]

LinkInputs ==
  {Input(n) : n \in {"Start", "OpenSucceeded", "BusOff", "HealthTimeout",
                     "BackoffElapsed", "StableElapsed", "Close"}}
    \cup {OpenFailed(k) : k \in FaultKinds}
    \cup {TransportFault(k) : k \in FaultKinds}

Do(op)           == [op |-> op, arg |-> "none"]
Emit(event)      == [op |-> "Emit", arg |-> event]
ApplyTxPolicy(g) == [op |-> "ApplyTxPolicy", arg |-> g]

TxGates == {"Open", "Hold", "FailAll"}

LinkActions ==
  {Do(o) : o \in {"OpenTransport", "CloseTransport", "ArmBackoff", "CancelBackoff",
                  "ArmHealthCheck", "CancelHealthCheck"}}
    \cup {Emit(e) : e \in {"Connecting", "Connected", "Reconnecting", "BusOff",
                           "Warning", "Closed", "Failed"}}
    \cup {ApplyTxPolicy(g) : g \in TxGates}

-----------------------------------------------------------------------------
(* Transitions *)

\* Mutant of Saturate: a plain increment.
SaturateNever(n) == n + 1

\* attempt.saturating_add(1)
Saturate(n) == IF n < AttemptMax THEN n + 1 ELSE n

Exhausted(next) == MaxAttempts # Unlimited /\ next > MaxAttempts

Result(state, attempt, actions) ==
  [machine |-> [state |-> state, attempt |-> attempt], actions |-> actions]

\* A transition that changes nothing and asks for nothing.
Ignore(m) == Result(m.state, m.attempt, <<>>)

FailOrBackoff(m) ==
  LET next == Saturate(m.attempt)
  IN  IF Exhausted(next)
      THEN Result(Closed, m.attempt, <<ApplyTxPolicy("FailAll"), Emit("Failed")>>)
      ELSE Result(Backoff(next), next, <<Do("ArmBackoff"), Emit("Reconnecting")>>)

\* Mutants of ConnectedFault: the transport is not closed; it is closed too early.
FaultWithoutClose(m, event) ==
  LET next == Saturate(m.attempt)
  IN  IF Exhausted(next)
      THEN Result(Closed, m.attempt,
             <<Do("CancelHealthCheck"), ApplyTxPolicy("FailAll"), Emit("Failed")>>)
      ELSE Result(Backoff(next), next,
             <<Do("CancelHealthCheck"), ApplyTxPolicy("Hold"), Emit(event), Do("ArmBackoff")>>)

CloseBeforeGate(m, event) ==
  LET next == Saturate(m.attempt)
  IN  IF Exhausted(next)
      THEN Result(Closed, m.attempt,
             <<Do("CancelHealthCheck"), Do("CloseTransport"),
               ApplyTxPolicy("FailAll"), Emit("Failed")>>)
      ELSE Result(Backoff(next), next,
             <<Do("CancelHealthCheck"), Do("CloseTransport"),
               ApplyTxPolicy("Hold"), Emit(event), Do("ArmBackoff")>>)

ConnectedFault(m, event) ==
  LET next == Saturate(m.attempt)
  IN  IF Exhausted(next)
      THEN Result(Closed, m.attempt,
             <<Do("CancelHealthCheck"), ApplyTxPolicy("FailAll"),
               Do("CloseTransport"), Emit("Failed")>>)
      ELSE Result(Backoff(next), next,
             <<Do("CancelHealthCheck"), ApplyTxPolicy("Hold"),
               Do("CloseTransport"), Emit(event), Do("ArmBackoff")>>)

\* Mutant of CloseByUser: nothing is announced.
CloseSilently(m) ==
  Result(Closed, m.attempt,
    <<Do("CancelBackoff"), Do("CancelHealthCheck"), ApplyTxPolicy("FailAll"),
      Do("CloseTransport")>>)

CloseByUser(m) ==
  Result(Closed, m.attempt,
    <<Do("CancelBackoff"), Do("CancelHealthCheck"), ApplyTxPolicy("FailAll"),
      Do("CloseTransport"), Emit("Closed")>>)

BeginOpen(m) ==
  Result(Connecting, m.attempt, <<Emit("Connecting"), Do("OpenTransport")>>)

OpenedOk(m) ==
  Result(Connected, m.attempt,
    <<Do("ArmHealthCheck"), Emit("Connected"), ApplyTxPolicy("Open")>>)

OpenDenied(m) ==
  Result(Closed, m.attempt, <<Emit("Failed"), ApplyTxPolicy("FailAll")>>)

FaultDenied(m) ==
  Result(Closed, m.attempt,
    <<Do("CancelHealthCheck"), ApplyTxPolicy("FailAll"),
      Do("CloseTransport"), Emit("Failed")>>)

StepConnected(m, in) ==
  CASE in.name = "BusOff"           -> ConnectedFault(m, "BusOff")
    [] in = TransportFault("Fatal") -> ConnectedFault(m, "Reconnecting")
    [] in.name = "HealthTimeout"    -> ConnectedFault(m, "Reconnecting")
    [] in = TransportFault("Permanent")   -> FaultDenied(m)
    [] in = TransportFault("Recoverable") -> Result(m.state, m.attempt, <<Emit("Warning")>>)
    [] in.name = "StableElapsed"    -> Result(m.state, 0, <<>>)
    [] OTHER -> Ignore(m)

Step(m, in) ==
  CASE m.state = Closed   -> Ignore(m)
    [] m.state # Closed /\ in.name = "Close" -> CloseByUser(m)
    [] m.state = Disconnected /\ in.name = "Start" -> BeginOpen(m)
    [] m.state.name = "Backoff" /\ in.name = "BackoffElapsed" -> BeginOpen(m)
    [] m.state = Connecting /\ in.name = "OpenSucceeded" -> OpenedOk(m)
    [] m.state = Connecting /\ in = OpenFailed("Permanent") -> OpenDenied(m)
    [] m.state = Connecting /\ in.name = "OpenFailed" /\ in.kind # "Permanent"
         -> FailOrBackoff(m)
    [] m.state = Connected /\ in.name # "Close" -> StepConnected(m, in)
    [] OTHER -> Ignore(m)
=============================================================================
