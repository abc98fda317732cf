--------------------------- MODULE MCMessageQueue ---------------------------
(* A small instance of MessageQueue: the log with its one receiver, an     *)
(* ordinary and an urgent sender, and two blocks.                          *)
EXTENDS MessageQueue
=============================================================================
