--------------------------- MODULE MCObservation ---------------------------
EXTENDS Observation, TLC

CONSTANTS first, second

=============================================================================
