------------------------------- MODULE SocketCan -------------------------------
(***************************************************************************)
(* CanSocket of pcan-socketcan (socket.rs): recv() and send() as loops of  *)
(* look at closed, call the kernel, wait for readiness or the shutdown,    *)
(* look again, call under try_io.  The two differ in the direction only.   *)
(***************************************************************************)
EXTENDS Naturals

CONSTANTS
  SocketTasks,   \* tasks that receive or send
  Direction,     \* of each task: "recv" or "send"
  SocketFrames,  \* bound: frames that arrive, and frames that are sent
  SendRoom       \* frames the socket takes before it is full

ASSUME SocketAssumption ==
  /\ Direction \in [SocketTasks -> {"recv", "send"}]
  /\ SocketFrames \in Nat /\ SendRoom \in Nat \ {0}

Directions == {"recv", "send"}

VARIABLES
  sockClosed,    \* closed
  shutdown,      \* the watch channel's value
  closeCall,     \* close(): "no", "begun" (closed is set), "returned"
  able,          \* frames the kernel can hand over, and frames it can take
  passed,        \* frames received and frames sent
  edge,          \* the kernel has raised an edge the reactor has not seen
  sockReady,     \* AsyncFd's readiness in each direction
  io             \* where each task is, and whether its guard saw the present tick

socketVars == <<sockClosed, shutdown, closeCall, able, passed, edge, sockReady, io>>

SocketTypeOK ==
  /\ sockClosed \in BOOLEAN /\ shutdown \in BOOLEAN
  /\ closeCall \in {"no", "begun", "returned"}
  /\ able \in [recv : 0..SocketFrames, send : 0..SendRoom]
  /\ passed \in [Directions -> Nat]
  /\ edge \in [Directions -> BOOLEAN]
  /\ sockReady \in [Directions -> BOOLEAN]
  /\ io \in [SocketTasks -> [pc : {"idle", "look", "call", "wait", "check", "retry", "clear"},
                             seen : BOOLEAN]]

SocketInit ==
  /\ sockClosed = FALSE /\ shutdown = FALSE /\ closeCall = "no"
  /\ able = [recv |-> 0, send |-> SendRoom]
  /\ passed = [d \in Directions |-> 0]
  /\ edge = [recv |-> FALSE, send |-> TRUE]
  /\ sockReady = [d \in Directions |-> FALSE]
  /\ io = [t \in SocketTasks |-> [pc |-> "idle", seen |-> FALSE]]

Goes(t, from, to) ==
  /\ io[t].pc = from
  /\ io' = [io EXCEPT ![t] = [pc |-> to, seen |-> @.seen /\ to \in {"retry", "clear"}]]
KernelStays == UNCHANGED <<sockClosed, shutdown, closeCall, able, passed, edge, sockReady>>

-----------------------------------------------------------------------------
(* recv() and send() *)

BeginIo(t) ==
  /\ passed[Direction[t]] < SocketFrames
  /\ Goes(t, "idle", "look") /\ KernelStays

\* mutant of LookAtClosed: closed is read at the head of a round only.
LookAtClosedOnce(t) ==
  /\ \/ Goes(t, "look", IF sockClosed THEN "idle" ELSE "call")
     \/ Goes(t, "check", "retry")
  /\ KernelStays
\* closed is read at the head of every round, and again after every wait.
LookAtClosed(t) ==
  /\ \/ Goes(t, "look", IF sockClosed THEN "idle" ELSE "call")
     \/ Goes(t, "check", IF sockClosed THEN "idle" ELSE "retry")
  /\ KernelStays

\* recvmsg and send; EAGAIN and ENOBUFS when there is nothing to take, or no room.
CallKernel(t) ==
  LET d == Direction[t] IN
  /\ \/ /\ able[d] > 0
        /\ able' = [able EXCEPT ![d] = @ - 1]
        /\ passed' = [passed EXCEPT ![d] = @ + 1]
        /\ Goes(t, "call", "idle") \/ Goes(t, "retry", "idle")
     \/ /\ able[d] = 0
        /\ Goes(t, "call", "wait") \/ Goes(t, "retry", "clear")
        /\ UNCHANGED <<able, passed>>
  /\ UNCHANGED <<sockClosed, shutdown, closeCall, edge, sockReady>>

\* Any other errno, and a frame that does not parse, end the call.
KernelFails(t) ==
  /\ Goes(t, "call", "idle") \/ Goes(t, "retry", "idle")
  /\ KernelStays

\* mutant of Alarmed: a watch that took the sender's value for seen.
AlarmedWhileOpen == shutdown /\ ~sockClosed
\* Every wait clones the receiver that never saw a value, so it is told of a past one.
Alarmed == shutdown

\* select!, biased to the shutdown.
EndWait(t) ==
  /\ io[t].pc = "wait"
  /\ \/ Alarmed /\ Goes(t, "wait", "idle")
     \/ /\ ~Alarmed /\ sockReady[Direction[t]]
        /\ io' = [io EXCEPT ![t] = [pc |-> "check", seen |-> TRUE]]
  /\ KernelStays

\* try_io clears the readiness of the tick its guard saw.
Cleared(t) == sockReady' = [sockReady EXCEPT ![Direction[t]] = @ /\ ~io[t].seen]

ClearIo(t) ==
  /\ Goes(t, "clear", "look")
  /\ Cleared(t)
  /\ UNCHANGED <<sockClosed, shutdown, closeCall, able, passed, edge>>

CancelIo(t) == Goes(t, "wait", "idle") /\ KernelStays

IoStep(t) == LookAtClosed(t) \/ CallKernel(t) \/ EndWait(t) \/ ClearIo(t)

-----------------------------------------------------------------------------
(* close(), and the kernel *)

\* The flag first: whoever the signal wakes finds it set.
CloseSocket ==
  /\ closeCall = "no"
  /\ closeCall' = "begun" /\ sockClosed' = TRUE
  /\ UNCHANGED <<shutdown, able, passed, edge, sockReady, io>>

SignalShutdown ==
  /\ closeCall = "begun"
  /\ closeCall' = "returned" /\ shutdown' = TRUE
  /\ UNCHANGED <<sockClosed, able, passed, edge, sockReady, io>>

\* A frame arrives, or one that was sent leaves the socket.
KernelMoves(d) ==
  /\ IF d = "recv" THEN passed[d] + able[d] < SocketFrames ELSE able[d] < SendRoom
  /\ able' = [able EXCEPT ![d] = @ + 1]
  /\ edge' = [edge EXCEPT ![d] = TRUE]
  /\ UNCHANGED <<sockClosed, shutdown, closeCall, passed, sockReady, io>>

SocketReactor(d) ==
  /\ edge[d]
  /\ edge' = [edge EXCEPT ![d] = FALSE]
  /\ sockReady' = [sockReady EXCEPT ![d] = TRUE]
  /\ io' = [t \in SocketTasks |-> [io[t] EXCEPT !.seen = @ /\ Direction[t] # d]]
  /\ UNCHANGED <<sockClosed, shutdown, closeCall, able, passed>>

SocketNext ==
  \/ \E t \in SocketTasks : BeginIo(t) \/ IoStep(t) \/ KernelFails(t) \/ CancelIo(t)
  \/ \E d \in Directions : KernelMoves(d) \/ SocketReactor(d)
  \/ CloseSocket \/ SignalShutdown

SocketSpec == SocketInit /\ [][SocketNext]_socketVars

-----------------------------------------------------------------------------
(* Properties *)

\* A task asleep on the socket has nothing to wait for: what it could take, or the room
\* it could fill, has an edge or a readiness that will wake it.
SocketSleepsOverNothing ==
  \A t \in SocketTasks :
    io[t].pc = "wait" /\ ~sockReady[Direction[t]] /\ ~edge[Direction[t]]
      => able[Direction[t]] = 0

\* Who has found closed unset and goes on to recvmsg or send.
Decided == {t \in SocketTasks : io[t].pc \in {"call", "retry"}}

\* socket.rs 682-686 and 736-740: closed is final in both directions.  Once it is set nobody
\* decides to call the kernel any more, wherever the close fell in a round, and who had
\* decided crosses with one frame at most: that is all that may still be sent or received.
ClosedIsFinal ==
  [][sockClosed =>
       /\ sockClosed'
       /\ \/ passed' = passed /\ Decided' \subseteq Decided
          \/ \E t \in Decided : /\ Decided' = Decided \ {t}
                               /\ passed' = [passed EXCEPT ![Direction[t]] = @ + 1]]_socketVars
=============================================================================
