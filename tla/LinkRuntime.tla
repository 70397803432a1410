----------------------------- MODULE LinkRuntime -----------------------------
(***************************************************************************)
(* One Link at run time: the supervisor and the tx worker over the watch   *)
(* and command channels they share, their guards, and the application.     *)
(* Each takes its own steps; this module only says what the other keeps.   *)
(***************************************************************************)
EXTENDS LinkSupervisor, TxWorker

ASSUME RuntimeAssumption == TxMayPanic = ("tx" \in Losable)

runtimeVars == <<supervisorVars, workerVars>>

RuntimeInit == ChannelInit /\ SupInit /\ TxInit

\* The supervisor, the scheduler's end, and the clients that command them.
SupervisorSide ==
  /\ \/ Task \/ Receive \/ SupervisorLost \/ CyclicEnds \/ CyclicLost
     \/ Clients
  /\ handles' # handles => \A s \in Senders : sender[s] = "idle"
  /\ UNCHANGED workerVars

\* The worker and the clients that send.
WorkerSide ==
  /\ WorkerRuns \/ TxClients
  /\ UNCHANGED <<closer, supVars>>

WorkerLost ==
  /\ Panics
  /\ lastEvent' = "WorkerLost"
  /\ UNCHANGED <<closer, control, conn, filters, timers, quiet>>

RuntimeNext == SupervisorSide \/ WorkerSide \/ WorkerLost
RuntimeSpec == RuntimeInit /\ [][RuntimeNext]_runtimeVars

(* Fairness: that of the supervisor's branches, and a worker that runs.  *)

RuntimeFairness ==
  /\ WF_runtimeVars(Progress /\ UNCHANGED workerVars)
  /\ SF_runtimeVars(Command /\ UNCHANGED workerVars)
  /\ SF_runtimeVars(BackoffFires /\ UNCHANGED workerVars)
  /\ SF_runtimeVars(HandlesGone /\ UNCHANGED workerVars)
  /\ SF_runtimeVars(StateSeenClosed /\ UNCHANGED workerVars)
  /\ \A c \in Closers : SF_runtimeVars(CloseQueued(c) /\ UNCHANGED workerVars)
  /\ WF_runtimeVars(WorkerRuns /\ UNCHANGED <<closer, supVars>>)
  /\ \A i \in Frames : WF_runtimeVars(Age(i) /\ UNCHANGED <<closer, supVars>>)

RuntimeFairSpec == RuntimeSpec /\ RuntimeFairness

-----------------------------------------------------------------------------
(* Properties *)

\* Every variable of the link keeps its range with both tasks at work: the
\* capacities of both queues, the retry limit and the attempt counter's width.
RuntimeTypeOK == SupervisorTypeOK /\ TxTypeOK

\* Each side keeps the contract the other is specified against: the tx worker and
\* its clients do to the supervisor what LinkSupervisor lets its neighbours do, and
\* the supervisor and its guards do to the worker what TxWorker lets them do.
KeepsContracts == SupervisorSpec /\ TxWorkerSpec

\* guard.rs 20-24 and concepts.md 59-61: the loss of the tx worker leaves the
\* link closed, whatever the supervisor was doing.
LossIsFinal == worker = "lost" ~> [](linkState = Closed)
=============================================================================
