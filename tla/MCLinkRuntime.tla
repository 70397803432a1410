--------------------------- MODULE MCLinkRuntime ---------------------------
(* The supervisor and the tx worker of one link together, for TLC.          *)
EXTENDS LinkRuntime
=============================================================================
