----------------------------- MODULE MCHandoff -----------------------------
(* Instances of Handoff for TLC.                                           *)
EXTENDS Handoff, TLC

(* Attempts are interchangeable: every one starts idle and no definition   *)
(* names one.                                                              *)
AttemptSymmetry == Permutations(Attempt)
=============================================================================
