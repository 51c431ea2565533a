---- MODULE MCFederation ----
(* A small federation for TLC.                                             *)
EXTENDS Federation

=============================
