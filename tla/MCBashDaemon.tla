---------------------------- MODULE MCBashDaemon ----------------------------
(* Model values for the TLC runs of BashDaemon. *)
EXTENDS BashDaemon

CONSTANTS prewarm, first, c1, c2

=============================================================================
