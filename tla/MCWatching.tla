----------------------------- MODULE MCWatching -----------------------------
(* A daemon and one terminal UI for TLC.                                   *)
EXTENDS Watching

=============================================================================
