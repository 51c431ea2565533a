---------------------------- MODULE MCAttention ----------------------------
EXTENDS Attention, TLC

CONSTANTS achieved, unmet

(* Two outcomes that differ; six stamps, one more than an agent's records, *)
(* acknowledgements and files can hold.                                    *)
MCOutcome == {achieved, unmet}
MCStamp == 1..6

=============================================================================
