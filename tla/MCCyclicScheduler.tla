-------------------------- MODULE MCCyclicScheduler --------------------------
(***************************************************************************)
(* CyclicScheduler on small instances: an entry that catches up and ends   *)
(* after two frames, one that skips what is late and goes on for ever, and *)
(* one whose delay leads past the last instant of the first instance.      *)
(***************************************************************************)
EXTENDS CyclicScheduler

Entry(period, delay, repeat, overrun) ==
  [period |-> period, delay |-> delay, repeat |-> repeat, overrun |-> overrun]

MCConfigs ==
  {Entry(1, 0, 2, "Burst"), Entry(2, 1, Forever, "Skip"), Entry(2, 4, Forever, "Skip")}
=============================================================================
