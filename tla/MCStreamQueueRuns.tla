------------------------- MODULE MCStreamQueueRuns -------------------------
(* StreamQueueRuns for TLC. *)
EXTENDS MCStreamQueue, StreamQueueRuns

=============================================================================
