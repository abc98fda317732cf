------------------------------ MODULE MCKernel ------------------------------
(* Kernel with three threads, two of them of the same priority, and the    *)
(* idle thread; a program uses one kind of object, the clock wraps at 5.   *)
EXTENDS Kernel, TLC

CONSTANTS high, midA, midB, idle, b1, b2

MCThreads == {high, midA, midB, idle}
MCPrio == high :> 1 @@ midA :> 2 @@ midB :> 2 @@ idle :> 3
MCBoot == 1 :> <<high>> @@ 2 :> <<midA, midB>> @@ 3 :> <<idle>>
MCPrograms == {{Sem, "sleep", "yield", "lock"}, {Mutex, "sleep"}, {Event}}
MCAsks ==
  {[want |-> {b1, b2}, and |-> TRUE, clear |-> TRUE, asked |-> {b1, b2}],
   [want |-> {b1, b2}, and |-> FALSE, clear |-> FALSE, asked |-> {b1, b2}]}
MCTimes == {-1,0,1}
MCSymmetry == Permutations({midA, midB}) \cup Permutations({b1, b2})
=============================================================================
