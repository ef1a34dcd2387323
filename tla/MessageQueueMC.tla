--------------------------- MODULE MessageQueueMC ---------------------------
(* TLC instances of MessageQueue: two messages are every pair of a primary   *)
(* and a merged message, and every pair of a queued and a steered one.       *)
EXTENDS MessageQueue

=============================================================================
