------------------------------ MODULE AnyTransport ------------------------------
(***************************************************************************)
(* AnyTransport of pcan-kit (any.rs): the backend chosen when the link is  *)
(* opened, and every call of the Transport trait passed on to it.  What    *)
(* the link relies on is stated here for both backends at once.            *)
(***************************************************************************)
EXTENDS PcanChannel, SocketCan

VARIABLE backend  \* "Basic" or "SocketCan"

anyVars == <<backend, pcanVars, socketVars>>

AnyInit ==
  /\ backend \in {"Basic", "SocketCan"}
  /\ PcanInit /\ SocketInit
  /\ backend = "SocketCan" => setup = CHOOSE b \in Setups : TRUE

Basic == backend = "Basic" /\ PcanNext /\ UNCHANGED <<backend, socketVars>>
Socket == backend = "SocketCan" /\ SocketNext /\ UNCHANGED <<backend, pcanVars>>

\* Unfolded so that each action of the backends is an action of this specification.
AnyNext == Basic \/ Socket

(* Fairness: synchronous code and threads run on, a task that is ready is polled, the   *)
(* reactor turns; calls are made, given up and answered by the bus as they like.        *)

Passes(PcanStep, SocketStep) ==
  \/ backend = "Basic" /\ PcanStep /\ UNCHANGED <<backend, socketVars>>
  \/ backend = "SocketCan" /\ SocketStep /\ UNCHANGED <<backend, pcanVars>>

Opening == \E o \in Opens : Acquire(o) \/ CloseStep(o) \/ (asker[o] = "left" /\ BeginClose(o))
Reading == TasksRun /\ ReaderStep /\ UNCHANGED chanVars
Turning == TasksRun /\ Reactor /\ UNCHANGED chanVars

AnyFairness ==
  /\ WF_anyVars(Passes(Opening, SignalShutdown))
  /\ WF_anyVars(Passes(JobStep, FALSE))
  /\ WF_anyVars(Passes(\E c \in Callers : CallStep(c), FALSE))
  /\ WF_anyVars(Passes(ThreadStep /\ UNCHANGED chanVars, FALSE))
  /\ WF_anyVars(Passes(Reading, \E t \in SocketTasks : Direction[t] = "recv" /\ IoStep(t)))
  /\ WF_anyVars(Passes(Turning, \E d \in Directions : SocketReactor(d)))

AnySpec == AnyInit /\ [][AnyNext]_anyVars
AnyFairSpec == AnySpec /\ AnyFairness

AnyTypeOK == PcanTypeOK /\ SocketTypeOK

\* transport.rs: recv() reports the end of a transport that was closed, wherever it
\* waited; the supervisor has no other way out of it.
RecvHearsClose ==
  /\ (source # 0 /\ stop = "stopped") ~> reader.pc = "idle"
  /\ \A t \in SocketTasks :
       Direction[t] = "recv" => (closeCall = "returned" ~> io[t].pc = "idle")

\* Nobody sleeps over a message: the edges the reactor or the driver raises are lost to
\* no clearing of a readiness and to no event that was taken too early.
NothingSleeps == SourceSleepsOverNothing /\ SocketSleepsOverNothing
=============================================================================
