-------------------------- MODULE MCLinkSupervisor --------------------------
(* The supervisor and its clients, for TLC: the tx worker is its contract.  *)
(* The cfg files give the constants; nothing of the specification changes.  *)
EXTENDS LinkSupervisor
=============================================================================
