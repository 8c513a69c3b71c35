-------------------------- MODULE MCOfflineBuffer --------------------------
(* OfflineBuffer with batches of one and two bytes.                        *)
EXTENDS OfflineBuffer

MCBatches == {1, 2}
MCSizeOf(b) == b
MCTimes == 1 .. 5
=============================================================================
