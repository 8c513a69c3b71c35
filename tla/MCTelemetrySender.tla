------------------------- MODULE MCTelemetrySender -------------------------
(* TelemetrySender with interchangeable data points and collectors.        *)
EXTENDS TelemetrySender, TLC

MCTimes4 == 1 .. 4
MCTimes5 == 1 .. 5
PointSymmetry == Permutations(Points)
=============================================================================
