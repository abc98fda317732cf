--------------------------- MODULE KernelInvariant ---------------------------
(***************************************************************************)
(* The inductive invariants of Kernel.  Most predicates take the kernel's  *)
(* state c, the program counters q, the calls cl, the mutex m and the      *)
(* holds h as parameters, so that the lemmas about them need no actions.   *)
(***************************************************************************)
EXTENDS Kernel, SchedulerContract

(* A suspended thread is inside a call and has a reason to wake. *)
Reasons(c, q) ==
  \A t \in Threads :
    c.stat[t] = "suspend" =>
      /\ q[t] # "run"
      /\ t \in Range(c.timers) \/ \E o \in Objects : t \in Range(c.waiting[o])

(* The running thread is suspended only on its way to rt_schedule. *)
Running(c, q) == c.stat[c.current] = "suspend" => q[c.current] = "sched" /\ c.lock = 0

(* The loops that run with interrupts off. *)
Loops ==
  /\ busy \in [loop : {"none", "timers", "reset", "send"}, by : Threads \cup {Isr},
               rest : Seq(Threads), need : BOOLEAN]
  /\ busy.by \in Threads => pc[busy.by] = "run" /\ k.current = busy.by
  /\ busy.loop = "timers" => k.timers # <<>>
  /\ busy.loop = "reset" => busy.by \in Threads /\ call[busy.by] \in {Sem, Event}
  /\ busy.loop = "send" => \A u \in Range(busy.rest) : u \notin Range(k.waiting[Mutex])

Control ==
  /\ pc \in [Threads -> {"run", "sched", "back"}]
  /\ call \in [Threads -> Objects \cup {"other"}]
  /\ Loops

(* Thread t has been given the mutex and has yet to return. *)
Given(c, cl, t) == cl[t] = Mutex /\ c.stat[t] = "ready" /\ c.error[t] = "EOK"

MutexType(m, h) ==
  /\ m \in [value : {0, 1}, owner : Threads \cup {Null}, original : Nat, hold : Nat]
  /\ h \in [Threads -> Nat]
  /\ m.owner # Null => m.original \in Prios

(* MutexExclusive of Kernel, with what it rests on: who is in the suspend  *)
(* list of the mutex, and which of the threads in rt_mutex_take own it.    *)
Exclusive(c, q, cl, m, h) ==
  /\ \A t \in Threads : h[t] > 0 => m.owner = t
  /\ \A t \in Range(c.waiting[Mutex]) : cl[t] = Mutex /\ c.error[t] = "EOK" /\ t # m.owner
  /\ \A t \in Threads : cl[t] = Mutex =>
       /\ q[t] # "run"
       /\ c.stat[t] = "suspend" => t \in Range(c.waiting[Mutex])
       /\ Given(c, cl, t) => t = m.owner
  /\ m.owner # Null => m.hold = h[m.owner] + (IF Given(c, cl, m.owner) THEN 1 ELSE 0)
  /\ m.owner = Null <=> m.value = 1
  /\ m.owner = Null => m.hold = 0 /\ Range(c.waiting[Mutex]) = {}

(* Inheritance of Kernel, with the order of the suspend list. *)
Inherits(c, m) ==
  /\ \A t \in Threads : t # m.owner => c.prio[t] = InitPrio[t]
  /\ m.owner # Null => m.original = InitPrio[m.owner]
  /\ Flag = "PRIO" =>
       /\ m.owner # Null => \A t \in Range(c.waiting[Mutex]) : c.prio[m.owner] <= c.prio[t]
       /\ Sorted(c.waiting[Mutex], InitPrio)

(* The inductive invariant. *)
IInv ==
  /\ Good(k) /\ Control /\ Reasons(k, pc) /\ Running(k, pc)
  /\ MutexType(mutex, held) /\ Exclusive(k, pc, call, mutex, held) /\ Inherits(k, mutex)

(* The timers are in time: at a tick that rt_timer_check is still to       *)
(* handle, as they were at the tick before.                                *)
Clock == InTime(k, IF busy.loop = "timers" THEN Minus(k.tick, 1) ELSE k.tick)

(* The running thread runs its own code, and any more urgent thread that   *)
(* is ready should run instead.                                            *)
Open == busy.loop \in {"none", "send"} /\ ~busy.need /\ k.lock = 0 /\ pc[k.current] # "sched"

(* What a step does, beside keeping the invariant, to the timers and to    *)
(* preemption.                                                             *)
Timely == Clock => Clock'

Preempts == Open' => Urgent(k') \/ (Open /\ (Urgent(k) => Urgent(k')))

(* The running thread, which owned the mutex, becomes less urgent as it    *)
(* frees it.                                                               *)
Lowered ==
  /\ k'.current = k.current /\ k'.prio[k.current] > k.prio[k.current]
  /\ mutex.owner = k.current /\ mutex'.owner = Null

-----------------------------------------------------------------------------
(* Thread u is in the loop of rt_ipc_list_resume_all; the loop of          *)
(* rt_event_send has yet to look at u; u has been given object o and has   *)
(* yet to return.                                                          *)
Resets(u) == busy.loop = "reset" /\ busy.by = u

InRest(u) == busy.loop = "send" /\ u \in Range(busy.rest)

Grant(u, o) == pc[u] # "run" /\ call[u] = o /\ k.stat[u] = "ready" /\ k.error[u] = "EOK"

(* The call of thread u agrees with the suspend list it is in, and what    *)
(* it has left in event_set with the event set.                            *)
Place(u) ==
  /\ \A o \in {Sem, Event} : u \in Range(k.waiting[o]) => call[u] = o /\ k.error[u] = "EOK"
  /\ pc[u] = "run" /\ ~Resets(u) => call[u] = "other"
  /\ u \in Range(k.waiting[Event]) =>
       /\ info[u].want # {} /\ info[u].asked = info[u].want
       /\ InRest(u) \/ ~Satisfied(info[u], set)
  /\ Grant(u, Event) =>
       /\ info[u].want # {} /\ info[u].want \subseteq info[u].asked
       /\ info[u].and => info[u].want = info[u].asked

Grants == {u \in Threads : Grant(u, Sem)}

Sound ==
  /\ info \in [Threads -> Infos] /\ set \subseteq Bits
  /\ busy.loop = "send" => Distinct(busy.rest) /\ Range(busy.rest) \subseteq Range(k.waiting[Event])
  /\ value \in 0..MaxValue /\ tokens \in Int
  /\ value > 0 => Range(k.waiting[Sem]) = {}
  /\ k.lock <= MaxLock /\ mutex.hold <= MaxHold

JInv ==
  /\ \A u \in Threads : Place(u)
  /\ Sound
  /\ tokens = value + Cardinality(Grants)
=============================================================================
