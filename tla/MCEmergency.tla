----------------------------- MODULE MCEmergency -----------------------------
(* Emergency with two threads that send, one of which is restarted.        *)
EXTENDS Emergency, TLC

CONSTANTS stopper, handle, handleY, idle

MCThreads == {stopper, handle, handleY, idle}
MCPriority == stopper :> 1 @@ handle :> 2 @@ handleY :> 3 @@ idle :> 4
MCRestarted == <<handle>>
=============================================================================
