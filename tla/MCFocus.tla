------------------------------ MODULE MCFocus ------------------------------
(* Activations for TLC.                                                    *)
EXTENDS Focus, TLC

(* The panes are interchangeable: no definition names one.                 *)
PaneSymmetry == Permutations(Pane)
============================================================================
