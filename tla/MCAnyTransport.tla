---------------------------- MODULE MCAnyTransport ----------------------------
(* Small instances of AnyTransport.  Each setup holds what one question needs:  *)
(* a slow receiver, an open that is given up on, calls against a close.         *)
EXTENDS AnyTransport

CONSTANTS c1, rx, tx

MCDirection == [t \in SocketTasks |-> IF t = tx THEN "send" ELSE "recv"]

Channel(platform, policy, capacity, workers, kinds, opens, messages, callers) ==
  [platform |-> platform, policy |-> policy, capacity |-> capacity, workers |-> workers,
   kinds |-> kinds, opens |-> opens, messages |-> messages, callers |-> callers]

MCSetups ==
  { Channel("event",   "Backpressure", 1, 2, {"event", "fail"}, 1, 3, {}),
    Channel("event",   "Backpressure", 1, 1, {"event", "odd"},  2, 1, {}),
    Channel("event",   "Backpressure", 1, 2, {},                2, 0, {c1}),
    Channel("poll",    "Backpressure", 1, 1, {"event"},         1, 3, {}),
    Channel("poll",    "DropOnFull",   0, 2, {"event", "fail"}, 1, 3, {}),
    Channel("poll",    "DropOnFull",   0, 1, {"fail"},          2, 1, {}),
    Channel("windows", "Backpressure", 1, 1, {"event", "fail"}, 1, 3, {}),
    Channel("windows", "DropOnFull",   1, 2, {"event"},         1, 3, {}) }

\* A driver that also delivers messages read_one makes nothing of.
OddSetups == { Channel("event", "Backpressure", 1, 2, {"event", "odd"}, 1, 4, {}) }
=============================================================================
