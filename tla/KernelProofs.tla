----------------------------- MODULE KernelProofs -----------------------------
(***************************************************************************)
(* Every step of Kernel keeps the inductive invariant IInv, for any number *)
(* of threads, any priorities, any tick counter and any timeouts.  What an *)
(* operation does to the lists is taken from SchedulerContract; here the   *)
(* state of the threads' calls and of the mutex is related to the lists.   *)
(***************************************************************************)
EXTENDS KernelInvariant, TLAPS

(* The leaves are for Zenon, unless they name SMT. *)
USE Zenon

(* From c to r nothing happens to the mutex but that threads give up       *)
(* waiting for it.                                                         *)
Apart(c, r, q, cl, cl2) ==
  /\ r.prio = c.prio
  /\ \A u \in Threads : cl2[u] = Mutex <=> cl[u] = Mutex
  /\ \A u \in Threads : cl[u] = Mutex => q[u] # "run"
  /\ Range(r.waiting[Mutex]) \subseteq Range(c.waiting[Mutex])
  /\ \A priority : Sorted(c.waiting[Mutex], priority) => Sorted(r.waiting[Mutex], priority)
  /\ \A u \in Threads : cl[u] = Mutex =>
       \/ /\ r.stat[u] = c.stat[u] /\ r.error[u] = c.error[u]
          /\ u \in Range(c.waiting[Mutex]) => u \in Range(r.waiting[Mutex])
       \/ /\ u \in Range(c.waiting[Mutex]) /\ u \notin Range(r.waiting[Mutex])
          /\ r.stat[u] = "ready" /\ r.error[u] # "EOK"

-----------------------------------------------------------------------------
(* Threads that stay suspended keep their reasons if their timers and      *)
(* lists do.                                                               *)
LEMMA ReasonsKept ==
  ASSUME NEW c \in KState, NEW r, NEW q, NEW q2, Reasons(c, q),
         \A u \in Threads : q2[u] = "run" => q[u] = "run" \/ r.stat[u] = "ready",
         \A u \in Threads : r.stat[u] = "suspend" =>
           /\ c.stat[u] = "suspend"
           /\ u \in Range(c.timers) => u \in Range(r.timers)
           /\ \A o \in Objects : u \in Range(c.waiting[o]) => u \in Range(r.waiting[o])
  PROVE  Reasons(r, q2)
<1> SUFFICES ASSUME NEW u \in Threads, r.stat[u] = "suspend"
             PROVE  /\ q2[u] # "run"
                    /\ u \in Range(r.timers) \/ \E o \in Objects : u \in Range(r.waiting[o])
  BY DEF Reasons
<1>1. c.stat[u] = "suspend"
  OBVIOUS
<1>2. q[u] # "run" /\ (u \in Range(c.timers) \/ \E o \in Objects : u \in Range(c.waiting[o]))
  BY DEF Reasons
<1>. QED BY <1>2

(* The same of a step. *)
LEMMA ReasonsStep ==
  ASSUME k \in KState, Reasons(k, pc),
         \A u \in Threads : pc'[u] = "run" => pc[u] = "run" \/ k'.stat[u] = "ready",
         \A u \in Threads : k'.stat[u] = "suspend" =>
           /\ k.stat[u] = "suspend"
           /\ u \in Range(k.timers) => u \in Range(k'.timers)
           /\ \A o \in Objects : u \in Range(k.waiting[o]) => u \in Range(k'.waiting[o])
  PROVE  Reasons(k', pc')
<1> DEFINE r == k'
           q2 == pc'
<1>1. /\ \A u \in Threads : q2[u] = "run" => pc[u] = "run" \/ r.stat[u] = "ready"
      /\ \A u \in Threads : r.stat[u] = "suspend" =>
           /\ k.stat[u] = "suspend"
           /\ u \in Range(k.timers) => u \in Range(r.timers)
           /\ \A o \in Objects : u \in Range(k.waiting[o]) => u \in Range(r.waiting[o])
  OBVIOUS
<1> HIDE DEF r, q2
<1>2. Reasons(r, q2)
  BY <1>1, ReasonsKept, SMT
<1>. QED BY <1>2 DEF r, q2

(* Waking a thread takes no reason from the others. *)
LEMMA WokenReasons ==
  ASSUME NEW c \in KState, NEW r, NEW t \in Threads, NEW q, NEW q2, Reasons(c, q), Woken(c, r, t),
         \A u \in Threads : q2[u] = "run" => q[u] = "run"
  PROVE  Reasons(r, q2)
<1>1. ASSUME NEW u \in Threads, r.stat[u] = "suspend"
      PROVE  /\ c.stat[u] = "suspend"
             /\ u \in Range(c.timers) => u \in Range(r.timers)
             /\ \A o \in Objects : u \in Range(c.waiting[o]) => u \in Range(r.waiting[o])
  <2>1. c.stat \in [Threads -> {"ready", "suspend"}] /\ r.stat = [c.stat EXCEPT ![t] = "ready"]
    BY DEF KState, Woken
  <2>2. u # t /\ c.stat[u] = "suspend"
    BY <1>1, <2>1
  <2>. QED BY <2>2 DEF Woken
<1>. QED BY <1>1, ReasonsKept, SMT

(* A step that stays apart from the mutex keeps its invariants. *)
LEMMA ApartKeeps ==
  ASSUME SchedulerContract, NEW c \in KState, NEW r \in KState, NEW q, NEW q2, NEW cl, NEW cl2, NEW m,
         NEW h, MutexType(m, h),
         Exclusive(c, q, cl, m, h), Inherits(c, m), Apart(c, r, q2, cl, cl2)
  PROVE  Exclusive(r, q2, cl2, m, h) /\ Inherits(r, m)
<1>0. /\ Mutex \in Objects /\ Range(c.waiting[Mutex]) \subseteq Threads
      /\ Range(r.waiting[Mutex]) \subseteq Range(c.waiting[Mutex])
      /\ m.owner \in Threads \cup {Null}
  BY ObjectsAssumption DEF Apart, MutexType, SchedulerContract, ListsTyped
<1>1. ASSUME NEW t \in Range(r.waiting[Mutex])
      PROVE  cl2[t] = Mutex /\ r.error[t] = "EOK" /\ t # m.owner
  <2>1. t \in Threads /\ cl[t] = Mutex /\ c.error[t] = "EOK" /\ t # m.owner
    BY <1>0 DEF Exclusive
  <2>2. r.error[t] = c.error[t]
    BY <2>1 DEF Apart
  <2>. QED BY <2>1 DEF Apart
<1>2. ASSUME NEW t \in Threads, cl2[t] = Mutex
      PROVE  /\ q2[t] # "run"
             /\ r.stat[t] = "suspend" => t \in Range(r.waiting[Mutex])
             /\ Given(r, cl2, t) => t = m.owner
  <2>1. cl[t] = Mutex /\ q2[t] # "run"
    BY <1>2 DEF Apart
  <2>2. /\ c.stat[t] = "suspend" => t \in Range(c.waiting[Mutex])
        /\ Given(c, cl, t) => t = m.owner
    BY <2>1 DEF Exclusive
  <2>. QED BY <2>1, <2>2 DEF Apart, Given
<1>3. ASSUME m.owner # Null
      PROVE  m.hold = h[m.owner] + (IF Given(r, cl2, m.owner) THEN 1 ELSE 0)
  <2>1. Given(r, cl2, m.owner) <=> Given(c, cl, m.owner)
    <3>1. m.owner \in Threads /\ m.owner \notin Range(c.waiting[Mutex])
      BY <1>0, <1>3 DEF Exclusive
    <3>. QED BY <3>1 DEF Apart, Given
  <2>. QED BY <1>3, <2>1 DEF Exclusive
<1>4. Exclusive(r, q2, cl2, m, h)
  BY <1>0, <1>1, <1>2, <1>3 DEF Exclusive
<1>5. Inherits(r, m)
  BY DEF Inherits, Apart
<1>. QED BY <1>4, <1>5

(* A thread in no suspend list of the mutex wakes. *)
LEMMA WokenApart ==
  ASSUME NEW c \in KState, NEW r \in KState, NEW t \in Threads, NEW q, NEW q2, NEW cl, NEW cl2, NEW m,
         NEW h,
         Exclusive(c, q, cl, m, h), Woken(c, r, t),
         \A u \in Threads : cl2[u] = Mutex <=> cl[u] = Mutex,
         \A u \in Threads : cl[u] = Mutex => q2[u] # "run",
         \A u \in Threads \ {t} : r.error[u] = c.error[u],
         \/ r.error[t] # "EOK" /\ c.stat[t] = "suspend"
         \/ r.error[t] = c.error[t] /\ t \notin Range(c.waiting[Mutex])
  PROVE  Apart(c, r, q2, cl, cl2)
<1>0. Mutex \in Objects
  BY ObjectsAssumption
<1>1. /\ Range(r.waiting[Mutex]) = Range(c.waiting[Mutex]) \ {t}
      /\ \A priority : Sorted(c.waiting[Mutex], priority) => Sorted(r.waiting[Mutex], priority)
      /\ r.prio = c.prio
  BY <1>0 DEF Woken
<1>2. ASSUME NEW u \in Threads, cl[u] = Mutex
      PROVE  \/ /\ r.stat[u] = c.stat[u] /\ r.error[u] = c.error[u]
                /\ u \in Range(c.waiting[Mutex]) => u \in Range(r.waiting[Mutex])
             \/ /\ u \in Range(c.waiting[Mutex]) /\ u \notin Range(r.waiting[Mutex])
                /\ r.stat[u] = "ready" /\ r.error[u] # "EOK"
  <2>1. c.stat \in [Threads -> {"ready", "suspend"}] /\ r.stat = [c.stat EXCEPT ![t] = "ready"]
    BY DEF KState, Woken
  <2>2. CASE u # t
    <3>1. r.stat[u] = c.stat[u]
      BY <2>1, <2>2
    <3>. QED BY <1>1, <2>2, <3>1
  <2>3. CASE u = t
    <3>1. r.stat[t] = "ready"
      BY <2>1
    <3>2. c.stat[t] = "suspend" => t \in Range(c.waiting[Mutex])
      BY <1>2, <2>3 DEF Exclusive
    <3>3. c.stat[t] \in {"ready", "suspend"}
      BY <2>1
    <3>. QED BY <1>1, <2>3, <3>1, <3>2, <3>3
  <2>. QED BY <2>2, <2>3
<1>. QED BY <1>1, <1>2 DEF Apart

(* Nothing happens to a thread in rt_mutex_take. *)
LEMMA StillApart ==
  ASSUME NEW c \in KState, NEW r \in KState, NEW q2, NEW cl, NEW cl2,
         r.prio = c.prio,
         Range(r.waiting[Mutex]) = Range(c.waiting[Mutex]),
         \A priority : Sorted(c.waiting[Mutex], priority) => Sorted(r.waiting[Mutex], priority),
         \A u \in Threads : cl2[u] = Mutex <=> cl[u] = Mutex,
         \A u \in Threads : cl[u] = Mutex =>
           q2[u] # "run" /\ r.stat[u] = c.stat[u] /\ r.error[u] = c.error[u]
  PROVE  Apart(c, r, q2, cl, cl2)
BY DEF Apart

(* Outside the loops with interrupts off there is nothing to say of them. *)
LEMMA NoLoopLoops ==
  ASSUME busy' = NoLoop
  PROVE  Loops'
<1>1. NoLoop \in [loop : {"none", "timers", "reset", "send"}, by : Threads \cup {Isr},
                  rest : Seq(Threads), need : BOOLEAN]
  BY SMT DEF NoLoop
<1>2. NoLoop.by \notin Threads /\ NoLoop.loop = "none"
  BY NobodyAssumption DEF NoLoop
<1>. QED BY <1>1, <1>2 DEF Loops

(* Steps that do not concern the timers. *)
LEMMA TimelySame ==
  ASSUME SchedulerContract, SameTimers(k, k') \/ (InTime(k, k.tick) => InTime(k', k.tick)),
         k'.tick = k.tick,
         busy.loop # "timers", busy'.loop # "timers"
  PROVE  Timely
<1>1. InTime(k, k.tick) => InTime(k', k.tick)
  BY DEF SchedulerContract, InTimeKept
<1>. QED BY <1>1 DEF Timely, Clock

(* Steps after which the running thread calls rt_schedule, and steps that  *)
(* leave the threads alone.                                                *)
LEMMA PreemptsSched ==
  ASSUME pc'[k'.current] = "sched"
  PROVE  Preempts
BY DEF Preempts, Open

LEMMA PreemptsSame ==
  ASSUME Open' => Open, k'.current = k.current, k'.stat = k.stat, k'.prio = k.prio
  PROVE  Preempts
BY DEF Preempts, Urgent

(* A running thread is ready and in no call. *)
LEMMA RunsReady ==
  ASSUME IInv, NEW t \in Threads, Runs(t)
  PROVE  k.stat[t] = "ready" /\ call[t] # Mutex /\ t # Idle /\ k.current = t /\ busy = NoLoop /\ pc[t] = "run"
<1>1. k.stat \in [Threads -> {"ready", "suspend"}]
  BY DEF IInv, Good, KState
<1>2. k.stat[t] # "suspend" /\ call[t] # Mutex
  BY DEF IInv, Runs, Reasons, Exclusive
<1>. QED BY <1>1, <1>2 DEF Runs

-----------------------------------------------------------------------------
(* The call of rt_schedule at the end of a suspending call keeps the       *)
(* invariant.                                                              *)
LEMMA ScheduleStep ==
  ASSUME SchedulerContract, IInv, NEW t \in Threads, Schedule(t)
  PROVE  IInv' /\ Timely /\ Preempts
<1>0. k \in KState /\ Good(k) /\ k.lock \in Nat
  BY DEF IInv, Good, KState
<1>1. k' = rt_schedule(k) /\ pc' = [pc EXCEPT ![t] = "back"] /\ k.current = t /\ busy' = NoLoop
      /\ busy = NoLoop /\ UNCHANGED <<call, mutex, held>>
  BY DEF Schedule, ipc
<1>2. /\ k' \in KState /\ SameLists(k, k') /\ SameTimers(k, k')
      /\ k'.error = k.error /\ k'.lock = k.lock /\ k'.tick = k.tick
      /\ k.lock # 0 => k' = k
      /\ k.lock = 0 => k'.stat[k'.current] = "ready" /\ Urgent(k')
  BY <1>0, <1>1 DEF Good, SchedulerContract, Schedules
<1>3. Good(k')
  BY <1>0, <1>2 DEF SchedulerContract, GoodKept
<1>4. pc \in [Threads -> {"run", "sched", "back"}]
  BY DEF IInv, Control
<1>5. \A u \in Threads : pc'[u] = "run" => pc[u] = "run"
  BY <1>1, SMT
<1>6. Control'
  <2>1. pc' \in [Threads -> {"run", "sched", "back"}]
    BY <1>1, <1>4
  <2>2. call' \in [Threads -> Objects \cup {"other"}]
    BY <1>1 DEF IInv, Control
  <2>. QED BY <1>1, <2>1, <2>2, NoLoopLoops DEF Control
<1>7. Reasons(k', pc')
  <2>1. k'.stat = k.stat /\ k'.timers = k.timers /\ k'.waiting = k.waiting
    BY <1>2 DEF SameLists, SameTimers
  <2>2. Reasons(k, pc)
    BY DEF IInv
  <2>. QED BY <1>0, <1>5, <2>1, <2>2, ReasonsStep
<1>8. Running(k', pc')
  <2>1. CASE k.lock = 0
    BY <1>2, <2>1 DEF Running
  <2>2. CASE k.lock # 0
    <3>1. k.stat[t] # "suspend"
      BY <1>1, <2>2 DEF IInv, Running
    <3>. QED BY <1>1, <1>2, <3>1 DEF Running
  <2>. QED BY <2>1, <2>2
<1>9. Exclusive(k', pc', call', mutex, held) /\ Inherits(k', mutex)
  <2>1. Apart(k, k', pc', call, call')
    <3>1. \A u \in Threads : call[u] = Mutex => pc[u] # "run"
      BY DEF IInv, Exclusive
    <3>2. k'.prio = k.prio /\ k'.waiting = k.waiting /\ k'.stat = k.stat
      BY <1>2 DEF SameLists
    <3>. QED BY <1>0, <1>1, <1>2, <1>5, <3>1, <3>2, StillApart
  <2>. QED BY <1>0, <1>2, <2>1, ApartKeeps DEF IInv
<1>10. Timely
  BY <1>1, <1>2, TimelySame DEF NoLoop
<1>11. Preempts
  BY <1>2 DEF Preempts, Open
<1>. QED BY <1>1, <1>3, <1>6, <1>7, <1>8, <1>9, <1>10, <1>11 DEF IInv

(* The return of rt_mutex_take turns the mutex that was given to the       *)
(* thread into one that it holds.                                          *)
LEMMA ReturnStep ==
  ASSUME SchedulerContract, IInv, NEW t \in Threads, Return(t)
  PROVE  IInv' /\ Timely /\ Preempts
<1> DEFINE ok == k.error[t] = "EOK"
<1>0. /\ Good(k) /\ k \in KState /\ Mutex \in Objects /\ Mutex # "other"
      /\ k.stat \in [Threads -> {"ready", "suspend"}]
      /\ k.error \in [Threads -> {"EOK", "ETIMEOUT", "ERROR"}]
      /\ pc \in [Threads -> {"run", "sched", "back"}]
      /\ call \in [Threads -> Objects \cup {"other"}] /\ MutexType(mutex, held)
  BY ObjectsAssumption DEF IInv, Good, KState, Control
<1>1. /\ k' = [k EXCEPT !.error[t] = "EOK"] /\ k.current = t /\ pc[t] = "back"
      /\ pc' = [pc EXCEPT ![t] = "run"] /\ call' = [call EXCEPT ![t] = "other"]
      /\ held' = (IF call[t] = Mutex /\ ok THEN [held EXCEPT ![t] = @ + 1] ELSE held)
      /\ busy = NoLoop /\ busy' = NoLoop /\ mutex' = mutex
  BY DEF Return
<1>2. /\ k' \in KState /\ SameLists(k, k') /\ SameTimers(k, k')
      /\ k'.error = [k.error EXCEPT ![t] = "EOK"] /\ k'.current = k.current /\ k'.lock = k.lock
  BY <1>0, <1>1 DEF KState, SameLists, SameTimers
<1>3. Good(k')
  BY <1>0, <1>2 DEF SchedulerContract, GoodKept
<1>4. k.stat[t] = "ready"
  BY <1>0, <1>1 DEF IInv, Running
<1>5. k'.stat = k.stat /\ k'.prio = k.prio /\ k'.waiting = k.waiting /\ k'.timers = k.timers
      /\ k'.error[t] = "EOK" /\ \A u \in Threads \ {t} : k'.error[u] = k.error[u]
  BY <1>0, <1>2 DEF SameLists, SameTimers
<1>6. /\ \A u \in Threads \ {t} : pc'[u] = pc[u] /\ call'[u] = call[u]
      /\ pc'[t] = "run" /\ call'[t] = "other"
  BY <1>0, <1>1
<1>7. Control'
  <2>1. pc' \in [Threads -> {"run", "sched", "back"}]
    BY <1>0, <1>1
  <2>2. call' \in [Threads -> Objects \cup {"other"}]
    BY <1>0, <1>1
  <2>. QED BY <1>1, <2>1, <2>2, NoLoopLoops DEF Control
<1>8. Reasons(k', pc')
  BY <1>4, <1>5, <1>6 DEF IInv, Reasons
<1>9. Running(k', pc')
  BY <1>1, <1>4, SMT DEF Running
<1>10. MutexType(mutex', held')
  BY <1>0, <1>1, SMT DEF MutexType
<1>11. Inherits(k', mutex')
  BY <1>1, SMT DEF IInv, Inherits
<1>12. Exclusive(k', pc', call', mutex', held')
  <2>0. /\ Exclusive(k, pc, call, mutex, held) /\ mutex' = mutex /\ mutex.owner \in Threads \cup {Null}
        /\ held \in [Threads -> Nat]
    BY <1>1 DEF IInv, MutexType
  <2>1. call[t] = Mutex /\ ok => mutex.owner = t
    BY <1>4, <2>0 DEF Exclusive, Given
  <2>2. t \notin Range(k.waiting[Mutex]) /\ Range(k.waiting[Mutex]) \subseteq Threads
    BY <1>0, <1>4 DEF SchedulerContract, ReadyUnlisted, ListsTyped
  <2>3. \A u \in Threads \ {t} : held'[u] = held[u]
    BY <1>1, SMT
  <2>4. held'[t] = held[t] + (IF Given(k, call, t) THEN 1 ELSE 0) /\ held[t] \in Nat
    BY <1>1, <1>4, <2>0, SMT DEF Given
  <2>5. \A u \in Threads \ {t} : Given(k', call', u) <=> Given(k, call, u)
    BY <1>5, <1>6 DEF Given
  <2>6. ~Given(k', call', t)
    BY <1>0, <1>6 DEF Given
  <2>7. \A u \in Threads : held'[u] > 0 => mutex.owner = u
    BY <2>0, <2>3, <2>4, SMT DEF Exclusive, Given
  <2>8. mutex.owner # Null =>
          mutex.hold = held'[mutex.owner] + (IF Given(k', call', mutex.owner) THEN 1 ELSE 0)
    <3>1. mutex.owner # Null =>
            mutex.hold = held[mutex.owner] + (IF Given(k, call, mutex.owner) THEN 1 ELSE 0)
      BY <2>0 DEF Exclusive
    <3>2. CASE mutex.owner = t
      BY <2>4, <2>6, <3>1, <3>2, SMT
    <3>3. CASE mutex.owner # t
      BY <2>0, <2>3, <2>5, <3>1, <3>3
    <3>. QED BY <3>2, <3>3
  <2>9. ASSUME NEW u \in Threads, call'[u] = Mutex
        PROVE  /\ pc'[u] # "run"
               /\ k'.stat[u] = "suspend" => u \in Range(k'.waiting[Mutex])
               /\ Given(k', call', u) => u = mutex.owner
    <3>1. u # t /\ call[u] = Mutex
      BY <1>0, <1>6, <2>9
    <3>. QED BY <1>5, <1>6, <2>0, <2>5, <3>1, SMT DEF Exclusive
  <2>10. \A u \in Range(k'.waiting[Mutex]) : call'[u] = Mutex /\ k'.error[u] = "EOK" /\ u # mutex.owner
    BY <1>5, <1>6, <2>0, <2>2, SMTT(20) DEF Exclusive
  <2>. QED BY <1>5, <2>0, <2>7, <2>8, <2>9, <2>10 DEF Exclusive
<1>13. k'.tick = k.tick /\ k'.lock = k.lock /\ SameLists(k, k') /\ SameTimers(k, k') /\ k'.current = k.current
  BY <1>0, <1>1 DEF KState, SameLists, SameTimers
<1>14. Timely
  BY <1>1, <1>13, TimelySame DEF NoLoop
<1>15. Preempts
  <2>1. Open' => Open
    BY <1>1, <1>13 DEF Open
  <2>. QED BY <1>13, <2>1, PreemptsSame DEF SameLists
<1>. QED BY <1>3, <1>7, <1>8, <1>9, <1>10, <1>11, <1>12, <1>14, <1>15 DEF IInv

(* Calls that end at once and change nothing the invariant is about. *)
LEMMA QuietStep ==
  ASSUME IInv, UNCHANGED <<k, busy, pc, call, mutex, held>>
  PROVE  IInv' /\ Timely /\ Preempts
<1>1. Loops'
  BY DEF IInv, Control, Loops
<1>2. Control'
  BY <1>1 DEF IInv, Control
<1>3. Timely /\ Preempts
  BY DEF Timely, Clock, Preempts, Open
<1>. QED BY <1>2, <1>3 DEF IInv

(* The running thread t is suspended by a call. *)
LEMMA SuspendsControl ==
  ASSUME IInv, NEW t \in Threads, Runs(t), k.lock = 0, NEW x \in Objects \cup {"other"},
         Reschedules(t, x), Good(k'), k'.stat = [k.stat EXCEPT ![t] = "suspend"],
         k'.current = k.current, k'.lock = k.lock,
         t \in Range(k'.timers) \/ \E o \in Objects : t \in Range(k'.waiting[o]),
         Range(k.timers) \subseteq Range(k'.timers),
         \A o \in Objects : Range(k.waiting[o]) \subseteq Range(k'.waiting[o])
  PROVE  /\ Control' /\ Reasons(k', pc') /\ Running(k', pc')
         /\ \A u \in Threads \ {t} : pc'[u] = pc[u] /\ call'[u] = call[u] /\ k'.stat[u] = k.stat[u]
         /\ pc'[t] = "sched" /\ call'[t] = x /\ k'.stat[t] = "suspend"
<1>0. /\ k.stat \in [Threads -> {"ready", "suspend"}]
      /\ pc \in [Threads -> {"run", "sched", "back"}]
      /\ call \in [Threads -> Objects \cup {"other"}]
  BY DEF IInv, Good, KState, Control
<1>1. /\ pc' = [pc EXCEPT ![t] = "sched"] /\ call' = [call EXCEPT ![t] = x] /\ busy' = NoLoop
      /\ k.current = t
  BY RunsReady DEF Reschedules
<1>2. /\ \A u \in Threads \ {t} : pc'[u] = pc[u] /\ call'[u] = call[u] /\ k'.stat[u] = k.stat[u]
      /\ pc'[t] = "sched" /\ call'[t] = x /\ k'.stat[t] = "suspend"
  BY <1>0, <1>1
<1>3. Control'
  <2>1. pc' \in [Threads -> {"run", "sched", "back"}]
    BY <1>0, <1>1
  <2>2. call' \in [Threads -> Objects \cup {"other"}]
    BY <1>0, <1>1
  <2>. QED BY <1>1, <2>1, <2>2, NoLoopLoops DEF Control
<1>4. Reasons(k', pc')
  <2>1. ASSUME NEW u \in Threads, k'.stat[u] = "suspend", u # t
        PROVE  /\ pc'[u] # "run"
               /\ u \in Range(k'.timers) \/ \E o \in Objects : u \in Range(k'.waiting[o])
    <3>1. k.stat[u] = "suspend" /\ pc'[u] = pc[u]
      BY <1>2, <2>1
    <3>2. pc[u] # "run" /\ (u \in Range(k.timers) \/ \E o \in Objects : u \in Range(k.waiting[o]))
      BY <3>1 DEF IInv, Reasons
    <3>. QED BY <3>1, <3>2
  <2>. QED BY <1>2, <2>1 DEF Reasons
<1>5. Running(k', pc')
  BY <1>1, <1>2 DEF Running
<1>. QED BY <1>2, <1>3, <1>4, <1>5

(* Likewise, if the call has nothing to do with the mutex. *)
LEMMA Suspends ==
  ASSUME SchedulerContract, IInv, NEW t \in Threads, Runs(t), k.lock = 0,
         NEW x \in Objects \cup {"other"}, x # Mutex,
         Reschedules(t, x), UNCHANGED <<mutex, held>>, Good(k'),
         k'.stat = [k.stat EXCEPT ![t] = "suspend"], k'.prio = k.prio,
         k'.current = k.current, k'.lock = k.lock,
         \A u \in Threads \ {t} : k'.error[u] = k.error[u],
         t \in Range(k'.timers) \/ \E o \in Objects : t \in Range(k'.waiting[o]),
         Range(k.timers) \subseteq Range(k'.timers),
         \A o \in Objects : Range(k.waiting[o]) \subseteq Range(k'.waiting[o]),
         Range(k'.waiting[Mutex]) = Range(k.waiting[Mutex]),
         \A priority : Sorted(k.waiting[Mutex], priority) => Sorted(k'.waiting[Mutex], priority),
         k'.tick = k.tick, InTime(k, k.tick) => InTime(k', k.tick)
  PROVE  IInv' /\ Timely /\ Preempts
<1>0. k \in KState /\ k' \in KState
  BY DEF IInv, Good
<1>1. /\ Control' /\ Reasons(k', pc') /\ Running(k', pc')
      /\ \A u \in Threads \ {t} : pc'[u] = pc[u] /\ call'[u] = call[u] /\ k'.stat[u] = k.stat[u]
      /\ pc'[t] = "sched" /\ call'[t] = x
  BY SuspendsControl
<1>2. call[t] # Mutex /\ k.current = t /\ busy = NoLoop
  BY RunsReady
<1>5. Preempts
  BY <1>1, <1>2, PreemptsSched
<1>6. Timely
  BY <1>2, TimelySame DEF Reschedules, NoLoop
<1>3. Apart(k, k', pc', call, call')
  <2>1. \A u \in Threads : call'[u] = Mutex <=> call[u] = Mutex
    BY <1>1, <1>2
  <2>2. \A u \in Threads : call[u] = Mutex =>
          pc'[u] # "run" /\ k'.stat[u] = k.stat[u] /\ k'.error[u] = k.error[u]
    <3>1. \A u \in Threads : call[u] = Mutex => pc[u] # "run"
      BY DEF IInv, Exclusive
    <3>. QED BY <1>1, <1>2, <3>1
  <2>. QED BY <1>0, <2>1, <2>2, StillApart
<1>4. Exclusive(k', pc', call', mutex, held) /\ Inherits(k', mutex)
  BY <1>0, <1>3, ApartKeeps DEF IInv
<1>. QED BY <1>1, <1>4, <1>5, <1>6 DEF IInv

(* rt_thread_sleep keeps the invariant. *)
LEMMA SleepStep ==
  ASSUME SchedulerContract, IInv, NEW t \in Threads, NEW time \in Times, time >= 0, rt_thread_sleep(t, time)
  PROVE  IInv' /\ Timely /\ Preempts
<1>1. /\ Runs(t) /\ k.lock = 0 /\ k' = Sleep(k, t, time) /\ Reschedules(t, "other")
      /\ UNCHANGED <<mutex, held>>
  BY DEF rt_thread_sleep, MayWait, Calls, ipc
<1>2. k.stat[t] = "ready" /\ t \in Threads \ {Idle} /\ Good(k)
  BY <1>1, RunsReady DEF IInv
<1>3. time \in Nat /\ Half(time)
  BY TimesAssumption, SMT
<1>4. /\ Good(k') /\ k'.stat = [k.stat EXCEPT ![t] = "suspend"] /\ k'.prio = k.prio
      /\ SameWaiting(k, k') /\ SameRest(k, k') /\ Range(k'.timers) = Range(k.timers) \cup {t}
      /\ InTime(k, k.tick) => InTime(k', k.tick)
  BY <1>1, <1>2, <1>3 DEF SchedulerContract, Sleeps
<1>5. Mutex \in Objects /\ "other" # Mutex
  BY ObjectsAssumption
<1>6. k'.current = k.current /\ k'.lock = k.lock /\ k'.error = k.error /\ k'.tick = k.tick
  BY <1>4 DEF SameRest
<1>7. /\ \A o \in Objects : Range(k.waiting[o]) \subseteq Range(k'.waiting[o])
      /\ Range(k'.waiting[Mutex]) = Range(k.waiting[Mutex])
      /\ \A priority : Sorted(k.waiting[Mutex], priority) => Sorted(k'.waiting[Mutex], priority)
  BY <1>4, <1>5 DEF SameWaiting
<1>. QED BY <1>1, <1>4, <1>5, <1>6, <1>7, Suspends

(* The waiting branches of rt_sem_take and rt_event_recv. *)
LEMMA WaitStep ==
  ASSUME SchedulerContract, IInv, NEW t \in Threads, Runs(t), k.lock = 0, NEW o \in {Sem, Event},
         NEW time \in Times,
         k' = Wait(k, t, o, Flag, time), Reschedules(t, o), UNCHANGED <<mutex, held>>
  PROVE  IInv' /\ Timely /\ Preempts
<1>1. k.stat[t] = "ready" /\ t \in Threads \ {Idle} /\ Good(k) /\ k \in KState
  BY RunsReady DEF IInv, Good
<1>2. time \in Int /\ Half(time)
  BY TimesAssumption
<1>3. o \in Objects /\ o # Mutex /\ Mutex \in Objects
  BY ObjectsAssumption
<1>4. Good(k') /\ Waits(k, k', t, o)
  BY <1>1, <1>2, <1>3 DEF SchedulerContract, WaitsFor
<1>5. /\ \A q \in Objects : Range(k.waiting[q]) \subseteq Range(k'.waiting[q])
      /\ Range(k'.waiting[Mutex]) = Range(k.waiting[Mutex])
      /\ \A priority : Sorted(k.waiting[Mutex], priority) => Sorted(k'.waiting[Mutex], priority)
      /\ \E q \in Objects : t \in Range(k'.waiting[q])
  BY <1>3, <1>4 DEF Waits
<1>6. /\ k'.stat = [k.stat EXCEPT ![t] = "suspend"] /\ k'.prio = k.prio
      /\ k'.current = k.current /\ k'.lock = k.lock
      /\ k'.tick = k.tick /\ (InTime(k, k.tick) => InTime(k', k.tick))
  BY <1>4 DEF Waits
<1>7. \A u \in Threads \ {t} : k'.error[u] = k.error[u]
  BY <1>1, <1>4 DEF Waits, KState
<1>8. Range(k.timers) \subseteq Range(k'.timers)
  BY <1>4 DEF Waits
<1>. QED BY <1>3, <1>4, <1>5, <1>6, <1>7, <1>8, Suspends

(* The processor goes to another ready thread, or back to the same one. *)
LEMMA TurnsKept ==
  ASSUME SchedulerContract, IInv, Good(k'), Turns(k, k'), Control', UNCHANGED <<mutex, held>>,
         \A u \in Threads : pc'[u] = pc[u] \/ pc'[u] = "sched",
         \A u \in Threads : call'[u] = Mutex <=> call[u] = Mutex
  PROVE  IInv'
<1>0. k \in KState /\ k' \in KState /\ Mutex \in Objects /\ k.current \in Threads
  BY ObjectsAssumption DEF IInv, Good, KState
<1>1. /\ k'.stat = k.stat /\ k'.prio = k.prio /\ k'.error = k.error /\ k'.lock = k.lock
      /\ k'.timers = k.timers
      /\ \A o \in Objects : Range(k'.waiting[o]) = Range(k.waiting[o])
      /\ \A priority : Sorted(k.waiting[Mutex], priority) => Sorted(k'.waiting[Mutex], priority)
      /\ k'.current = k.current \/ (k'.lock = 0 /\ k'.stat[k'.current] = "ready")
  BY <1>0 DEF Turns, SameWaiting, SameTimers
<1>2. Reasons(k', pc')
  <2>1. Reasons(k, pc)
    BY DEF IInv
  <2>2. \A u \in Threads : pc'[u] = "run" => pc[u] = "run"
    OBVIOUS
  <2>. QED BY <1>0, <1>1, <2>1, <2>2, ReasonsStep
<1>3. Running(k', pc')
  BY <1>0, <1>1 DEF IInv, Running
<1>4. Apart(k, k', pc', call, call')
  <2>1. \A u \in Threads : call[u] = Mutex => pc[u] # "run"
    BY DEF IInv, Exclusive
  <2>2. \A u \in Threads : call[u] = Mutex => pc'[u] # "run"
    BY <2>1
  <2>. QED BY <1>0, <1>1, <2>2, StillApart
<1>5. Exclusive(k', pc', call', mutex, held) /\ Inherits(k', mutex)
  BY <1>0, <1>4, ApartKeeps DEF IInv
<1>. QED BY <1>2, <1>3, <1>5 DEF IInv

(* Likewise, in a step of no thread. *)
LEMMA TurnsStep ==
  ASSUME SchedulerContract, IInv, Good(k'), Turns(k, k'), Control', UNCHANGED <<pc, call, mutex, held>>,
         busy = NoLoop \/ (k.lock = 0 => Urgent(k'))
  PROVE  IInv' /\ Preempts
<1>1. /\ k'.stat = k.stat /\ k'.prio = k.prio /\ k'.lock = k.lock
      /\ k'.current = k.current \/ Urgent(k')
  BY DEF Turns
<1>2. Preempts
  <2>1. CASE k.lock = 0 => Urgent(k')
    BY <1>1, <2>1 DEF Preempts, Open
  <2>2. CASE busy = NoLoop /\ k'.current = k.current
    <3>1. Open' => Open
      BY <1>1, <2>2 DEF Open, NoLoop
    <3>. QED BY <1>1, <2>2, <3>1, PreemptsSame
  <2>3. CASE Urgent(k')
    BY <2>3 DEF Preempts
  <2>. QED BY <1>1, <2>1, <2>2, <2>3
<1>. QED BY <1>2, TurnsKept

(* The loop of rt_timer_check begins, or goes on, only with a timer in the *)
(* list.                                                                   *)
LEMMA TimersLoops ==
  ASSUME IInv, Timers(k'), UNCHANGED <<pc, call>>
  PROVE  Control'
<1>1. CASE busy' = NoLoop
  BY <1>1, NoLoopLoops DEF IInv, Control
<1>2. CASE Due(k') /\ Looping("timers", Isr, <<>>)
  <2>1. busy' = [loop |-> "timers", by |-> Isr, rest |-> <<>>, need |-> FALSE]
    BY <1>2 DEF Looping
  <2>2. k'.timers # <<>>
    BY <1>2 DEF Due
  <2>3. /\ busy' \in [loop : {"none", "timers", "reset", "send"}, by : Threads \cup {Isr},
                      rest : Seq(Threads), need : BOOLEAN]
        /\ busy'.loop = "timers" /\ busy'.by = Isr
    BY <2>1, SMT
  <2>4. Loops'
    BY <2>2, <2>3, NobodyAssumption DEF Loops
  <2>. QED BY <2>4 DEF IInv, Control
<1>. QED BY <1>1, <1>2 DEF Timers

(* Timers that were in time at the tick before are so when the loop of     *)
(* rt_timer_check goes on; and when it ends, at this tick.                 *)
LEMMA TimersTimely ==
  ASSUME SchedulerContract, Good(k'), Timers(k'), Clock => InTime(k', Minus(k'.tick, 1))
  PROVE  Timely
<1>1. CASE Due(k') /\ busy'.loop = "timers"
  BY <1>1 DEF Timely, Clock
<1>2. CASE ~Due(k') /\ busy'.loop = "none"
  <2> DEFINE r == k'
  <2>1. r \in KState /\ ~Due(r)
    BY <1>2 DEF Good
  <2> HIDE DEF r
  <2>2. InTime(r, Minus(r.tick, 1)) => InTime(r, r.tick)
    BY <2>1 DEF SchedulerContract, NoneDue
  <2>. QED BY <2>2 DEF Timely, Clock, r
<1>. QED BY <1>1, <1>2, SMT DEF Timers, Looping, NoLoop

(* rt_tick_increase, with the time slice, keeps the invariant. *)
LEMMA TickStep ==
  ASSUME SchedulerContract, IInv, Tick
  PROVE  IInv' /\ Timely /\ Preempts
<1>1. k' = rt_tick_increase(k) /\ Timers(k') /\ busy = NoLoop /\ UNCHANGED <<pc, call, mutex, held>>
  BY DEF Tick, ipc
<1>2. Good(k') /\ Turns(k, k') /\ k'.tick = Plus(k.tick, 1)
  BY <1>1 DEF IInv, SchedulerContract, TicksOn
<1>3. Control'
  BY <1>1, TimersLoops
<1>4. Clock => InTime(k', Minus(k'.tick, 1))
  <2>1. k.tick \in 0..Ticks-1
    BY DEF IInv, Good, KState
  <2>2. Minus(k'.tick, 1) = k.tick
    BY <1>2, <2>1 DEF SchedulerContract, TickBefore
  <2>3. InTime(k, k.tick) => InTime(k', k.tick)
    BY <1>2 DEF Turns, SchedulerContract, InTimeKept
  <2>. QED BY <1>1, <2>2, <2>3 DEF Clock, NoLoop
<1>5. Timely
  BY <1>1, <1>2, <1>4, TimersTimely
<1>. QED BY <1>1, <1>2, <1>3, <1>5, TurnsStep

(* rt_enter_critical and rt_exit_critical. *)
LEMMA LockStep ==
  ASSUME SchedulerContract, IInv, NEW t \in Threads, Runs(t), k' \in KState, SameLists(k, k'),
         SameTimers(k, k'),
         k'.current = k.current, k'.error = k.error, k'.tick = k.tick,
         (Ends /\ k'.lock # 0) \/ Reschedules(t, "other"), UNCHANGED <<mutex, held>>
  PROVE  IInv' /\ Timely /\ Preempts
<1>0. /\ Good(k) /\ k \in KState /\ pc \in [Threads -> {"run", "sched", "back"}]
      /\ call \in [Threads -> Objects \cup {"other"}] /\ Mutex # "other"
  BY ObjectsAssumption DEF IInv, Good, Control
<1>1. k.stat[t] = "ready" /\ call[t] # Mutex /\ k.current = t /\ busy = NoLoop
  BY RunsReady
<1>2. Good(k')
  BY <1>0 DEF SchedulerContract, GoodKept
<1>3. k'.stat = k.stat /\ k'.prio = k.prio /\ k'.waiting = k.waiting /\ k'.timers = k.timers
  BY DEF SameLists, SameTimers
<1>4. /\ pc' \in [Threads -> {"run", "sched", "back"}] /\ call' \in [Threads -> Objects \cup {"other"}]
      /\ \A u \in Threads : call'[u] = Mutex <=> call[u] = Mutex
      /\ \A u \in Threads : pc'[u] = "run" => pc[u] = "run"
      /\ busy' = NoLoop
  <2>1. CASE Ends
    BY <1>0, <1>1, <2>1 DEF Ends
  <2>2. CASE Reschedules(t, "other")
    BY <1>0, <1>1, <2>2 DEF Reschedules
  <2>. QED BY <2>1, <2>2
<1>5. Control'
  BY <1>4, NoLoopLoops DEF Control
<1>6. Reasons(k', pc')
  <2>1. Reasons(k, pc)
    BY DEF IInv
  <2>. QED BY <1>0, <1>3, <1>4, <2>1, ReasonsStep
<1>7. Running(k', pc')
  BY <1>1, <1>3 DEF Running
<1>8. Apart(k, k', pc', call, call')
  <2>1. \A u \in Threads : call[u] = Mutex => pc[u] # "run"
    BY DEF IInv, Exclusive
  <2>. QED BY <1>0, <1>3, <1>4, <2>1, StillApart
<1>9. Exclusive(k', pc', call', mutex, held) /\ Inherits(k', mutex)
  BY <1>0, <1>8, ApartKeeps DEF IInv
<1>10. Timely
  BY <1>1, <1>4, TimelySame DEF NoLoop
<1>11. Preempts
  <2>1. CASE k'.lock # 0
    BY <2>1 DEF Preempts, Open
  <2>2. CASE Reschedules(t, "other")
    BY <1>0, <1>1, <2>2, PreemptsSched DEF Reschedules
  <2>. QED BY <2>1, <2>2
<1>. QED BY <1>2, <1>5, <1>6, <1>7, <1>9, <1>10, <1>11 DEF IInv

(* rt_enter_critical and rt_exit_critical keep the invariant. *)
LEMMA CriticalStep ==
  ASSUME SchedulerContract, IInv, NEW t \in Threads, rt_enter_critical(t) \/ rt_exit_critical(t)
  PROVE  IInv' /\ Timely /\ Preempts
<1>0. k \in KState /\ k.lock \in Nat
  BY DEF IInv, Good, KState
<1>1. /\ Runs(t) /\ UNCHANGED <<mutex, held>>
      /\ \E n \in Nat : k' = [k EXCEPT !.lock = n] /\ ((Ends /\ n # 0) \/ Reschedules(t, "other"))
  <2>1. CASE rt_enter_critical(t)
    <3>1. Runs(t) /\ Ends /\ UNCHANGED <<mutex, held>> /\ k' = [k EXCEPT !.lock = k.lock + 1]
      BY <2>1 DEF rt_enter_critical, Calls, ipc
    <3>2. k.lock + 1 \in Nat /\ k.lock + 1 # 0
      BY <1>0, SMT
    <3>. QED BY <3>1, <3>2
  <2>2. CASE rt_exit_critical(t)
    <3>1. /\ Runs(t) /\ UNCHANGED <<mutex, held>>
          /\ IF k.lock = 1 THEN Reschedules(t, "other") ELSE Ends
          /\ k' = [k EXCEPT !.lock = k.lock - 1] /\ k.lock > 0
      BY <2>2 DEF rt_exit_critical, Calls, ipc
    <3>2. k.lock - 1 \in Nat /\ (k.lock # 1 => k.lock - 1 # 0)
      BY <1>0, <3>1, SMT
    <3>. QED BY <3>1, <3>2
  <2>. QED BY <2>1, <2>2
<1>2. PICK n \in Nat : k' = [k EXCEPT !.lock = n] /\ ((Ends /\ n # 0) \/ Reschedules(t, "other"))
  BY <1>1
<1>3. /\ k' \in KState /\ SameLists(k, k') /\ SameTimers(k, k')
      /\ k'.current = k.current /\ k'.error = k.error /\ k'.tick = k.tick /\ k'.lock = n
  BY <1>0, <1>2 DEF KState, SameLists, SameTimers
<1>. QED BY <1>1, <1>3, LockStep, SMT

(* A thread wakes; it does not get the mutex by that. *)
LEMMA WakeStep ==
  ASSUME SchedulerContract, IInv, NEW t \in Threads, Good(k'), Woken(k, k', t), Control',
         UNCHANGED <<mutex, held>>,
         k'.current = k.current \/ k'.stat[k'.current] = "ready",
         \A u \in Threads \ {t} : k'.error[u] = k.error[u],
         \/ k'.error[t] # "EOK" /\ k.stat[t] = "suspend"
         \/ k'.error[t] = k.error[t] /\ t \notin Range(k.waiting[Mutex]),
         \A u \in Threads : pc'[u] = pc[u] \/ pc'[u] = "sched",
         \A u \in Threads : call'[u] = Mutex <=> call[u] = Mutex
  PROVE  IInv'
<1>0. k \in KState /\ k' \in KState /\ k.stat \in [Threads -> {"ready", "suspend"}] /\ k.current \in Threads
  BY DEF IInv, Good, KState
<1>1. Reasons(k', pc')
  <2>1. Reasons(k, pc)
    BY DEF IInv
  <2>2. \A u \in Threads : pc'[u] = "run" => pc[u] = "run"
    OBVIOUS
  <2>. QED BY ONLY <1>0, <2>1, <2>2, Woken(k, k', t), t \in Threads, WokenReasons
<1>2. Running(k', pc')
  <2>1. k'.stat = [k.stat EXCEPT ![t] = "ready"] /\ k'.lock = k.lock
    BY DEF Woken
  <2>2. CASE k'.current = k.current
    <3>1. k'.stat[k.current] = "suspend" => k.stat[k.current] = "suspend"
      BY <2>1, SMT
    <3>2. pc[k.current] = "sched" => pc'[k.current] = "sched"
      BY <1>0
    <3>. QED BY <2>1, <3>1, <3>2 DEF IInv, Running
  <2>3. CASE k'.stat[k'.current] = "ready"
    BY <2>3 DEF Running
  <2>. QED BY <2>2, <2>3
<1>3. Apart(k, k', pc', call, call')
  <2>1. Exclusive(k, pc, call, mutex, held)
    BY DEF IInv
  <2>2. \A u \in Threads : call[u] = Mutex => pc'[u] # "run"
    BY <2>1 DEF Exclusive
  <2>. QED BY <1>0, <2>1, <2>2, WokenApart
<1>4. Exclusive(k', pc', call', mutex, held) /\ Inherits(k', mutex)
  BY <1>0, <1>3, ApartKeeps DEF IInv
<1>. QED BY <1>1, <1>2, <1>4 DEF IInv

(* A thread that wakes stops its timer. *)
LEMMA WokenTimely ==
  ASSUME SchedulerContract, NEW t, Woken(k, k', t), busy.loop # "timers", busy'.loop # "timers"
  PROVE  Timely
BY TimelySame DEF Woken

(* A timer of rt_timer_check runs out. *)
LEMMA TimerStep ==
  ASSUME SchedulerContract, IInv, rt_timer_check
  PROVE  IInv' /\ Timely /\ Preempts
<1> DEFINE t == Head(k.timers)
<1>0. /\ Good(k) /\ k.timers \in Seq(Threads) /\ Range(k.timers) \subseteq Threads
      /\ k.error \in [Threads -> {"EOK", "ETIMEOUT", "ERROR"}] /\ TimersLinked(k)
  BY DEF IInv, Good, KState, SchedulerContract, ListsTyped
<1>1. /\ k' = rt_thread_timeout(k, t) /\ Timers(k') /\ UNCHANGED <<pc, call, mutex, held>>
      /\ k.timers # <<>> /\ busy.loop = "timers"
  BY DEF rt_timer_check, ipc, IInv, Control, Loops
<1>2. t \in Range(k.timers) /\ t \in Threads /\ k.stat[t] = "suspend"
  BY <1>0, <1>1 DEF TimersLinked, SchedulerContract, HeadTaken
<1> HIDE DEF t
<1>3. /\ Good(k') /\ Woken(k, k', t) /\ k'.error = [k.error EXCEPT ![t] = "ETIMEOUT"]
      /\ IF k.lock # 0 THEN k'.current = k.current ELSE k'.stat[k'.current] = "ready" /\ Urgent(k')
  BY <1>0, <1>1, <1>2, SMT DEF SchedulerContract, TimesOut
<1>4. Control'
  BY <1>1, TimersLoops
<1>5. k'.error[t] # "EOK" /\ \A u \in Threads \ {t} : k'.error[u] = k.error[u]
  BY <1>0, <1>2, <1>3
<1>6. IInv'
  BY <1>1, <1>2, <1>3, <1>4, <1>5, WakeStep
<1>7. Timely
  <2>1. Clock => InTime(k', Minus(k'.tick, 1))
    BY <1>1, <1>3 DEF Clock, Woken
  <2>. QED BY <1>1, <1>3, <2>1, TimersTimely
<1>8. Preempts
  BY <1>3 DEF Preempts, Open, Woken
<1>. QED BY <1>6, <1>7, <1>8

-----------------------------------------------------------------------------
(* rt_sem_take keeps the invariant. *)
LEMMA SemTakeStep ==
  ASSUME SchedulerContract, IInv, NEW t \in Threads, NEW time \in Times, rt_sem_take(t, time)
  PROVE  IInv' /\ Timely /\ Preempts
<1>1. CASE Ends /\ UNCHANGED <<k, mutex, held>>
  BY <1>1, QuietStep DEF Ends
<1>2. CASE k' = Wait(k, t, Sem, Flag, time) /\ Reschedules(t, Sem) /\ UNCHANGED ipc
  <2>1. Runs(t) /\ k.lock = 0
    BY DEF rt_sem_take, MayWait, Calls
  <2>2. UNCHANGED <<mutex, held>>
    BY <1>2 DEF ipc
  <2>. QED BY <1>2, <2>1, <2>2, WaitStep
<1>. QED BY <1>1, <1>2 DEF rt_sem_take, ipc

(* The thread at the head of a suspend list. *)
LEMMA HeadWaits ==
  ASSUME SchedulerContract, IInv, NEW o \in Objects, k.waiting[o] # <<>>
  PROVE  /\ Head(k.waiting[o]) \in Range(k.waiting[o]) /\ Head(k.waiting[o]) \in Threads
         /\ k.stat[Head(k.waiting[o])] = "suspend"
         /\ \A q \in Objects \ {o} : Head(k.waiting[o]) \notin Range(k.waiting[q])
<1>1. /\ k.waiting[o] \in Seq(Threads) /\ Range(k.waiting[o]) \subseteq Threads
      /\ Linked(k)
  BY DEF IInv, Good, SchedulerContract, ListsTyped
<1>2. Head(k.waiting[o]) \in Range(k.waiting[o])
  BY <1>1 DEF Linked, SchedulerContract, HeadTaken
<1>. QED BY <1>1, <1>2 DEF Linked

(* rt_schedule after a thread was woken. *)
LEMMA ScheduleWoken ==
  ASSUME SchedulerContract, NEW c, NEW r, Good(r), NEW t \in Threads, Woken(c, r, t), NEW s,
         s = rt_schedule(r)
  PROVE  /\ Good(s) /\ Woken(c, s, t) /\ s.error = r.error
         /\ s.current = r.current \/ s.stat[s.current] = "ready"
         /\ s.lock = 0 => Urgent(s)
<1>1. /\ s \in KState /\ SameLists(r, s) /\ SameTimers(r, s)
      /\ s.lock = r.lock /\ s.error = r.error /\ s.remaining = r.remaining /\ s.tick = r.tick
      /\ r.lock # 0 => s = r
      /\ r.lock = 0 => s.stat[s.current] = "ready" /\ Urgent(s)
  BY DEF Good, SchedulerContract, Schedules
<1>2. Good(s)
  BY <1>1 DEF SchedulerContract, GoodKept
<1>3. Woken(c, s, t)
  <2>1. \A b : InTime(c, b) => InTime(s, b)
    BY <1>1 DEF Woken, SchedulerContract, InTimeKept
  <2>. QED BY <1>1, <2>1 DEF Woken, SameLists, SameTimers
<1>. QED BY <1>1, <1>2, <1>3

(* The effect of Ends and of Reschedules on calls and program counters. *)
LEMMA CallerControl ==
  ASSUME IInv, busy = NoLoop, Ends \/ \E t \in Threads : Runs(t) /\ Reschedules(t, "other")
  PROVE  /\ Control'
         /\ \A u \in Threads : pc'[u] = pc[u] \/ pc'[u] = "sched"
         /\ \A u \in Threads : call'[u] = Mutex <=> call[u] = Mutex
<1>0. /\ pc \in [Threads -> {"run", "sched", "back"}] /\ Mutex # "other"
      /\ call \in [Threads -> Objects \cup {"other"}]
  BY ObjectsAssumption DEF IInv, Control
<1>1. /\ pc' \in [Threads -> {"run", "sched", "back"}]
      /\ call' \in [Threads -> Objects \cup {"other"}] /\ busy' = NoLoop
      /\ \A u \in Threads : pc'[u] = pc[u] \/ pc'[u] = "sched"
      /\ \A u \in Threads : call'[u] = Mutex <=> call[u] = Mutex
  <2>1. CASE Ends
    BY <1>0, <2>1 DEF Ends
  <2>2. ASSUME NEW t \in Threads, Runs(t), Reschedules(t, "other")
        PROVE  /\ pc' \in [Threads -> {"run", "sched", "back"}]
               /\ call' \in [Threads -> Objects \cup {"other"}] /\ busy' = NoLoop
               /\ \A u \in Threads : pc'[u] = pc[u] \/ pc'[u] = "sched"
               /\ \A u \in Threads : call'[u] = Mutex <=> call[u] = Mutex
    <3>1. call[t] # Mutex
      BY <2>2, RunsReady
    <3>. QED BY <1>0, <2>2, <3>1 DEF Reschedules
  <2>. QED BY <2>1, <2>2
<1>. QED BY <1>1, NoLoopLoops DEF Control

(* rt_thread_yield before rt_schedule keeps the invariant. *)
LEMMA YieldStep ==
  ASSUME SchedulerContract, IInv, NEW t \in Threads, Yield(t)
  PROVE  IInv' /\ Timely /\ Preempts
<1>1. CASE k' = k /\ Ends
  BY <1>1, QuietStep DEF Yield, Ends, ipc
<1>2. CASE Rotates(k) /\ k' = Rotate(k) /\ Reschedules(t, "other")
  <2>1. Runs(t) /\ busy = NoLoop /\ busy' = busy /\ UNCHANGED <<mutex, held>>
    BY <1>2 DEF Yield, MayWait, Calls, Runs, Reschedules, ipc
  <2>2. Good(k') /\ Turns(k, k') /\ k'.current = t /\ k'.tick = k.tick
    BY <1>2, <2>1 DEF IInv, SchedulerContract, Yields, Runs
  <2>3. /\ Control'
        /\ \A u \in Threads : pc'[u] = pc[u] \/ pc'[u] = "sched"
        /\ \A u \in Threads : call'[u] = Mutex <=> call[u] = Mutex
    BY <1>2, <2>1, CallerControl
  <2>4. IInv'
    BY <2>1, <2>2, <2>3, TurnsKept
  <2>5. Timely
    BY <2>1, <2>2, TimelySame DEF Turns, NoLoop
  <2>6. pc'[t] = "sched"
    BY <1>2 DEF Reschedules, IInv, Control
  <2>7. Preempts
    BY <2>2, <2>6, PreemptsSched
  <2>. QED BY <2>4, <2>5, <2>7
<1>. QED BY <1>1, <1>2 DEF Yield

(* rt_sem_release, by a thread or an interrupt handler, keeps the          *)
(* invariant.                                                              *)
LEMMA SemReleaseStep ==
  ASSUME SchedulerContract, IInv, NEW t \in Threads \cup {Isr}, rt_sem_release(t)
  PROVE  IInv' /\ Timely /\ Preempts
<1>0. busy = NoLoop /\ (t = Isr \/ (t \in Threads /\ Runs(t))) /\ UNCHANGED <<mutex, held>>
  BY DEF rt_sem_release, Calls, Runs
<1>1. CASE Ends /\ UNCHANGED k
  BY <1>0, <1>1, QuietStep DEF Ends
<1>2. CASE /\ k.waiting[Sem] # <<>>
           /\ LET r == rt_thread_resume(k, Head(k.waiting[Sem]))
              IN  IF t = Isr THEN k' = rt_schedule(r) /\ Ends ELSE k' = r /\ Reschedules(t, "other")
  <2> DEFINE u == Head(k.waiting[Sem])
             r == rt_thread_resume(k, u)
  <2>0. Sem \in Objects /\ Mutex \in Objects /\ Sem # Mutex /\ Good(k)
    BY ObjectsAssumption DEF IInv
  <2>1. u \in Threads /\ u \notin Range(k.waiting[Mutex])
    BY <1>2, <2>0, HeadWaits
  <2>2. IF t = Isr THEN k' = rt_schedule(r) /\ Ends ELSE k' = r /\ Reschedules(t, "other")
    BY <1>2
  <2> HIDE DEF u
  <2>3. Good(r) /\ Woken(k, r, u) /\ r.current = k.current /\ r.error = k.error
    BY <2>0, <2>1 DEF SchedulerContract, Resumes
  <2> HIDE DEF r
  <2>4. /\ Good(k') /\ Woken(k, k', u) /\ k'.error = k.error
        /\ k'.current = k.current \/ k'.stat[k'.current] = "ready"
        /\ IF t = Isr THEN k'.lock = 0 => Urgent(k') ELSE k'.current = k.current
    <3>1. CASE t = Isr
      BY <2>1, <2>2, <2>3, ScheduleWoken, SMTT(20)
    <3>2. CASE t # Isr
      BY <2>2, <2>3, <3>2
    <3>. QED BY <3>1, <3>2
  <2>5. /\ Control'
        /\ \A v \in Threads : pc'[v] = pc[v] \/ pc'[v] = "sched"
        /\ \A v \in Threads : call'[v] = Mutex <=> call[v] = Mutex
    BY <1>0, <2>2, CallerControl
  <2>6. IInv'
    BY <1>0, <2>1, <2>4, <2>5, WakeStep
  <2>7. Timely
    BY <1>0, <2>2, <2>4, WokenTimely, SMT DEF Ends, Reschedules, NoLoop
  <2>8. Preempts
    <3>1. CASE t = Isr
      BY <2>4, <3>1 DEF Preempts, Open
    <3>2. CASE t # Isr
      <4>1. t \in Threads /\ pc' = [pc EXCEPT ![t] = "sched"] /\ k'.current = t
        BY <1>0, <2>2, <2>4, <3>2 DEF Reschedules, Runs
      <4>. QED BY <4>1, PreemptsSched DEF IInv, Control
    <3>. QED BY <3>1, <3>2
  <2>. QED BY <2>6, <2>7, <2>8
<1>. QED BY <1>1, <1>2 DEF rt_sem_release

(* Steps that only move a thread from one point of its call to the next. *)
LEMMA CallsStep ==
  ASSUME SchedulerContract, IInv, UNCHANGED <<k, mutex, held>>, Control', Open' => Open,
         busy.loop # "timers", busy'.loop # "timers",
         \A u \in Threads : pc'[u] = pc[u] \/ pc'[u] = "sched",
         \A u \in Threads : call'[u] = Mutex <=> call[u] = Mutex
  PROVE  IInv' /\ Timely /\ Preempts
<1>0. k \in KState /\ k.current \in Threads
  BY DEF IInv, Good, KState
<1>1. Reasons(k', pc')
  <2>1. Reasons(k, pc)
    BY DEF IInv
  <2>2. \A u \in Threads : pc'[u] = "run" => pc[u] = "run"
    OBVIOUS
  <2>. QED BY <1>0, <2>1, ReasonsStep
<1>2. Running(k', pc')
  BY <1>0 DEF IInv, Running
<1>3. Apart(k, k', pc', call, call')
  <2>1. \A u \in Threads : call[u] = Mutex => pc[u] # "run"
    BY DEF IInv, Exclusive
  <2>. QED BY <1>0, <2>1, StillApart
<1>4. Exclusive(k', pc', call', mutex, held) /\ Inherits(k', mutex)
  BY <1>0, <1>3, ApartKeeps DEF IInv
<1>5. Timely /\ Preempts
  BY TimelySame, PreemptsSame DEF SameTimers
<1>. QED BY <1>1, <1>2, <1>4, <1>5 DEF IInv

(* The reset of an object (rt_sem_control, rt_event_control) keeps the     *)
(* invariant.                                                              *)
LEMMA IpcControlStep ==
  ASSUME SchedulerContract, IInv, NEW t \in Threads, NEW o \in Objects, rt_ipc_control(t, o)
  PROVE  IInv' /\ Timely /\ Preempts
<1>0. /\ pc \in [Threads -> {"run", "sched", "back"}]
      /\ call \in [Threads -> Objects \cup {"other"}]
  BY DEF IInv, Control
<1>1. /\ Runs(t) /\ o \in {Sem, Event} /\ call' = [call EXCEPT ![t] = o] /\ UNCHANGED <<k, pc, mutex, held>>
      /\ busy' = [loop |-> "reset", by |-> t, rest |-> <<>>, need |-> FALSE] /\ busy.loop = "none"
  BY DEF NoLoop, Runs, rt_ipc_control, Calls, Looping, ipc
<1>2. call[t] # Mutex /\ pc[t] = "run" /\ o # Mutex /\ k.current = t
  BY <1>1, RunsReady, ObjectsAssumption
<1>3. \A u \in Threads : call'[u] = Mutex <=> call[u] = Mutex
  BY <1>1, <1>2, SMT
<1>4. call' \in [Threads -> Objects \cup {"other"}] /\ call'[t] \in {Sem, Event}
  BY <1>0, <1>1
<1>5. /\ busy' \in [loop : {"none", "timers", "reset", "send"}, by : Threads \cup {Isr},
                    rest : Seq(Threads), need : BOOLEAN]
      /\ busy'.loop = "reset" /\ busy'.by = t
  BY <1>1, SMTT(20)
<1>6. Loops'
  BY <1>1, <1>2, <1>4, <1>5 DEF Loops
<1>7. Control'
  BY <1>0, <1>1, <1>6 DEF Control
<1>8. Open' => Open
  BY <1>5 DEF Open
<1>. QED BY <1>1, <1>3, <1>7, <1>8, CallsStep

(* One round of rt_ipc_list_resume_all keeps the invariant. *)
LEMMA ResumeAllStep ==
  ASSUME SchedulerContract, IInv, rt_ipc_list_resume_all
  PROVE  IInv' /\ Timely /\ Preempts
<1> DEFINE t == busy.by
           o == call[t]
<1>0. /\ pc \in [Threads -> {"run", "sched", "back"}] /\ Loops /\ busy.loop = "reset"
      /\ call \in [Threads -> Objects \cup {"other"}]
      /\ k.error \in [Threads -> {"EOK", "ETIMEOUT", "ERROR"}] /\ Good(k)
  BY DEF IInv, Control, Good, KState, rt_ipc_list_resume_all
<1>1. /\ t \in Threads /\ o \in {Sem, Event} /\ o \in Objects /\ o # Mutex /\ pc[t] = "run"
      /\ Mutex # "other" /\ k.current = t
  BY <1>0, ObjectsAssumption DEF Loops
<1>2. CASE Waited(k, o) /\ k' = ResumeFailed(k, o) /\ UNCHANGED <<busy, pc, call, ipc, use>>
  <2> DEFINE u == Head(k.waiting[o])
  <2>0. UNCHANGED <<busy, pc, call, mutex, held>>
    BY <1>2 DEF ipc
  <2>1. /\ u \in Range(k.waiting[o]) /\ u \in Threads
        /\ Good(k') /\ Woken(k, k', u) /\ k'.current = k.current
        /\ k'.error = [k.error EXCEPT ![u] = "ERROR"]
    <3>1. Good(k) /\ o \in Objects /\ Waited(k, o) /\ k' = ResumeFailed(k, o)
      BY <1>0, <1>1, <1>2
    <3> HIDE DEF o
    <3>. QED BY ONLY <3>1, SchedulerContract DEF u, SchedulerContract, ResumesFailed
  <2>2. k.stat[u] = "suspend"
    BY <1>1, <1>2, HeadWaits DEF Waited
  <2> HIDE DEF u
  <2>3. k'.error[u] # "EOK" /\ \A v \in Threads \ {u} : k'.error[v] = k.error[v]
    BY <1>0, <2>1
  <2>4. Loops'
    BY <1>0, <2>0, <2>1 DEF Loops
  <2>5. Control'
    BY <1>0, <2>0, <2>4 DEF Control
  <2>6. IInv'
    BY <2>0, <2>1, <2>2, <2>3, <2>5, WakeStep
  <2>7. busy.loop = "reset" /\ busy'.loop = "reset"
    BY <1>0, <2>0
  <2>8. Timely
    BY <2>1, <2>7, WokenTimely
  <2>9. Preempts
    BY <2>7 DEF Preempts, Open
  <2>. QED BY <2>6, <2>8, <2>9
<1>3. CASE /\ busy' = NoLoop /\ UNCHANGED <<k, mutex, held>>
           /\ pc' = [pc EXCEPT ![t] = "sched"] /\ call' = [call EXCEPT ![t] = "other"]
  <2>1. /\ pc' \in [Threads -> {"run", "sched", "back"}]
        /\ call' \in [Threads -> Objects \cup {"other"}]
        /\ \A u \in Threads : pc'[u] = pc[u] \/ pc'[u] = "sched"
        /\ \A u \in Threads : call'[u] = Mutex <=> call[u] = Mutex
    BY <1>0, <1>1, <1>3
  <2>2. Control'
    BY <1>3, <2>1, NoLoopLoops DEF Control
  <2>3. ~Open' /\ busy'.loop = "none"
    BY <1>0, <1>1, <1>3 DEF Open, NoLoop
  <2>. QED BY <1>0, <1>3, <2>1, <2>2, <2>3, CallsStep
<1>. QED BY <1>2, <1>3 DEF rt_ipc_list_resume_all

(* rt_event_recv keeps the invariant. *)
LEMMA EventRecvStep ==
  ASSUME SchedulerContract, IInv, NEW t \in Threads, NEW i \in Asks, NEW time \in Times,
         rt_event_recv(t, i, time)
  PROVE  IInv' /\ Timely /\ Preempts
<1>0. Runs(t) /\ k.lock = 0 /\ UNCHANGED <<mutex, held>>
  BY DEF rt_event_recv, MayWait, Calls
<1>1. CASE Ends /\ UNCHANGED k
  BY <1>0, <1>1, QuietStep DEF Ends
<1>2. CASE k' = Wait(k, t, Event, Flag, time) /\ Reschedules(t, Event)
  BY <1>0, <1>2, WaitStep
<1>. QED BY <1>1, <1>2 DEF rt_event_recv

(* The loop of rt_event_send begins with the threads that wait for the     *)
(* event set, none of which waits for the mutex.                           *)
LEMMA EventSendStep ==
  ASSUME SchedulerContract, IInv, NEW t \in Threads \cup {Isr}, NEW bits, rt_event_send(t, bits)
  PROVE  IInv' /\ Timely /\ Preempts
<1>0. /\ t \in Threads => pc[t] = "run" /\ k.current = t
      /\ UNCHANGED <<k, pc, call, mutex, held>> /\ busy = NoLoop
      /\ busy' = [loop |-> "send", by |-> t, rest |-> k.waiting[Event], need |-> FALSE]
  BY NobodyAssumption DEF rt_event_send, Calls, Runs, Looping
<1>1. /\ Event \in Objects /\ Mutex \in Objects /\ Event # Mutex
      /\ k.waiting[Event] \in Seq(Threads) /\ Linked(k)
  BY ObjectsAssumption DEF IInv, Good, SchedulerContract, ListsTyped
<1>2. \A u \in Range(k.waiting[Event]) : u \notin Range(k.waiting[Mutex])
  BY <1>1 DEF Linked
<1>3. /\ busy' \in [loop : {"none", "timers", "reset", "send"}, by : Threads \cup {Isr},
                    rest : Seq(Threads), need : BOOLEAN]
      /\ busy'.loop = "send" /\ busy'.by = t /\ busy'.rest = k.waiting[Event]
  BY <1>0, <1>1
<1>4. Loops'
  BY <1>0, <1>2, <1>3 DEF Loops
<1>5. Control'
  BY <1>0, <1>4 DEF IInv, Control
<1>6. (Open' => Open) /\ busy.loop # "timers" /\ busy'.loop # "timers"
  BY <1>0 DEF Open, NoLoop
<1>. QED BY <1>0, <1>5, <1>6, CallsStep

(* The rest of a list of threads. *)
LEMMA TailRest ==
  ASSUME NEW rest \in Seq(Threads), rest # <<>>
  PROVE  /\ Head(rest) \in Range(rest) /\ Head(rest) \in Threads
         /\ Tail(rest) \in Seq(Threads) /\ Range(Tail(rest)) \subseteq Range(rest)
<1>1. /\ Len(rest) \in Nat /\ Len(rest) > 0 /\ Tail(rest) \in Seq(Threads)
      /\ Len(Tail(rest)) = Len(rest) - 1
      /\ \A i \in 1..Len(rest)-1 : Tail(rest)[i] = rest[i + 1]
      /\ Head(rest) = rest[1] /\ rest[1] \in Threads
  BY SMT
<1>2. /\ Range(rest) = {rest[i] : i \in 1..Len(rest)}
      /\ Range(Tail(rest)) = {Tail(rest)[i] : i \in 1..Len(Tail(rest))}
  <2>1. ASSUME NEW s \in Seq(Threads) PROVE Range(s) = {s[i] : i \in 1..Len(s)}
    BY SMT DEF Range
  <2>. QED BY <1>1, <2>1
<1>3. Head(rest) \in Range(rest)
  <2>1. 1 \in 1..Len(rest)
    BY SMT
  <2>. QED BY ONLY <1>1, <1>2, <2>1
<1>4. ASSUME NEW i \in 1..Len(Tail(rest)) PROVE Tail(rest)[i] \in Range(rest)
  <2>1. i \in 1..Len(rest)-1 /\ i + 1 \in 1..Len(rest)
    BY ONLY <1>1, <1>4, SMT
  <2>. QED BY ONLY <1>1, <1>2, <2>1
<1>. QED BY ONLY <1>1, <1>2, <1>3, <1>4

(* One round of the loop of rt_event_send keeps the invariant. *)
LEMMA OfferStep ==
  ASSUME SchedulerContract, IInv, Offer
  PROVE  IInv' /\ Timely /\ Preempts
<1> DEFINE u == Head(busy.rest)
<1>0. /\ UNCHANGED <<pc, call, mutex, held>> /\ busy.loop = "send" /\ busy.rest # <<>>
      /\ Loops /\ busy.rest \in Seq(Threads) /\ Good(k) /\ Mutex \in Objects
  BY ObjectsAssumption DEF Offer, IInv, Control, Loops
<1>1. /\ u \in Threads /\ u \in Range(busy.rest) /\ Tail(busy.rest) \in Seq(Threads)
      /\ Range(Tail(busy.rest)) \subseteq Range(busy.rest)
  BY <1>0, TailRest
<1>2. u \notin Range(k.waiting[Mutex])
  BY <1>0, <1>1 DEF Loops
<1>3. \/ k' = rt_thread_resume(k, u) /\ busy' = [busy EXCEPT !.rest = Tail(@), !.need = TRUE]
      \/ k' = k /\ busy' = [busy EXCEPT !.rest = Tail(@)]
  BY DEF Offer
<1>4. /\ busy' \in [loop : {"none", "timers", "reset", "send"}, by : Threads \cup {Isr},
                    rest : Seq(Threads), need : BOOLEAN]
      /\ busy'.loop = "send" /\ busy'.by = busy.by /\ busy'.rest = Tail(busy.rest)
  BY <1>0, <1>1, <1>3 DEF Loops
<1> HIDE DEF u
<1>5. \/ k' = k /\ busy'.need = busy.need
      \/ k' = rt_thread_resume(k, u) /\ busy'.need
  <2>0. busy \in [loop : {"none", "timers", "reset", "send"}, by : Threads \cup {Isr},
                  rest : Seq(Threads), need : BOOLEAN]
    BY <1>0 DEF Loops
  <2>1. CASE busy' = [busy EXCEPT !.rest = Tail(@), !.need = TRUE]
    <3>1. busy'.need
      BY ONLY <2>0, <2>1
    <3>2. busy' # [busy EXCEPT !.rest = Tail(@)] \/ busy'.need = busy.need
      BY ONLY <2>0
    <3>. QED BY <1>3, <3>1, <3>2
  <2>2. CASE k' = k /\ busy' = [busy EXCEPT !.rest = Tail(@)]
    <3>1. busy'.need = busy.need
      BY ONLY <2>0, <2>2
    <3>. QED BY <2>2, SMT
  <2>. QED BY <1>3, <2>1
<1>6. \/ k' = k /\ busy'.need = busy.need
      \/ /\ Good(k') /\ Woken(k, k', u) /\ k'.current = k.current /\ k'.error = k.error
         /\ busy'.need
  BY <1>0, <1>1, <1>5, SMT DEF SchedulerContract, Resumes
<1>7. Range(k'.waiting[Mutex]) \subseteq Range(k.waiting[Mutex])
  BY <1>0, <1>6 DEF Woken
<1>8. Loops'
  BY <1>0, <1>1, <1>4, <1>6, <1>7 DEF Loops
<1>9. Control'
  BY <1>0, <1>8 DEF IInv, Control
<1>10. CASE k' = k /\ busy'.need = busy.need
  <2>1. Open' => Open
    BY <1>0, <1>10 DEF Open
  <2>. QED BY <1>0, <1>4, <1>9, <1>10, <2>1, CallsStep
<1>11. CASE /\ Good(k') /\ Woken(k, k', u) /\ k'.current = k.current /\ k'.error = k.error
            /\ busy'.need
  <2>1. IInv'
    BY <1>0, <1>1, <1>2, <1>9, <1>11, WakeStep
  <2>2. Timely
    BY <1>0, <1>4, <1>11, WokenTimely
  <2>3. Preempts
    BY <1>11 DEF Preempts, Open
  <2>. QED BY <2>1, <2>2, <2>3
<1>. QED BY <1>6, <1>10, <1>11

(* The end of rt_event_send keeps the invariant. *)
LEMMA SentStep ==
  ASSUME SchedulerContract, IInv, Sent
  PROVE  IInv' /\ Timely /\ Preempts
<1>0. /\ busy' = NoLoop /\ busy.loop = "send" /\ UNCHANGED <<call, mutex, held>> /\ Loops /\ Good(k)
      /\ pc \in [Threads -> {"run", "sched", "back"}] /\ busy.by \in Threads \cup {Isr}
  BY DEF Sent, ipc, IInv, Control, Loops
<1>1. CASE k' = rt_schedule(k) /\ UNCHANGED pc
  <2>1. /\ k' \in KState /\ SameLists(k, k') /\ SameTimers(k, k')
        /\ k'.lock = k.lock /\ k'.error = k.error /\ k'.tick = k.tick
        /\ k.lock # 0 => k' = k
        /\ k.lock = 0 => k'.stat[k'.current] = "ready" /\ Urgent(k')
    <3>1. k \in KState /\ Linked(k) /\ k.stat[Idle] = "ready"
      BY <1>0 DEF Good
    <3>. QED BY <1>1, <3>1 DEF SchedulerContract, Schedules
  <2>2. Good(k')
    BY <1>0, <2>1 DEF SchedulerContract, GoodKept
  <2>3. Turns(k, k')
    BY <2>1 DEF Turns, SameLists, SameWaiting
  <2>4. Control'
    BY <1>0, <1>1, NoLoopLoops DEF IInv, Control
  <2>5. Timely
    BY <1>0, <2>1, TimelySame DEF NoLoop
  <2>. QED BY <1>0, <1>1, <2>1, <2>2, <2>3, <2>4, <2>5, TurnsStep
<1>2. CASE busy.by # Isr /\ pc' = [pc EXCEPT ![busy.by] = "sched"] /\ UNCHANGED k
  <2>1. pc' \in [Threads -> {"run", "sched", "back"}] /\ \A u \in Threads : pc'[u] = pc[u] \/ pc'[u] = "sched"
    BY <1>0, <1>2
  <2>2. Control'
    BY <1>0, <2>1, NoLoopLoops DEF IInv, Control
  <2>3. ~Open' /\ busy'.loop # "timers"
    <3>1. busy.by \in Threads /\ k'.current = busy.by
      BY <1>0, <1>2 DEF Loops
    <3>. QED BY <1>0, <1>2, <3>1 DEF Open, NoLoop
  <2>. QED BY <1>0, <1>2, <2>2, <2>3, CallsStep
<1>3. CASE ~busy.need /\ UNCHANGED <<k, pc>>
  <2>1. Control'
    BY <1>0, <1>3, NoLoopLoops DEF IInv, Control
  <2>2. (Open' => Open) /\ busy'.loop # "timers"
    BY <1>0, <1>3 DEF Open, NoLoop
  <2>. QED BY <1>0, <1>3, <2>1, <2>2, CallsStep
<1>. QED BY <1>1, <1>2, <1>3 DEF Sent

-----------------------------------------------------------------------------
(* Calls on the mutex that change only its own fields. *)
LEMMA OwnStep ==
  ASSUME IInv, UNCHANGED <<k, busy, pc, call>>, MutexType(mutex', held'),
         Exclusive(k, pc, call, mutex', held'), Inherits(k, mutex')
  PROVE  IInv' /\ Timely /\ Preempts
<1>1. Loops'
  BY DEF IInv, Control, Loops
<1>2. Control'
  BY <1>1 DEF IInv, Control
<1>3. Timely /\ Preempts
  BY DEF Timely, Clock, Preempts, Open
<1>. QED BY <1>2, <1>3 DEF IInv

(* rt_mutex_take by the owner. *)
LEMMA TakeAgainStep ==
  ASSUME IInv, NEW t \in Threads, Runs(t), mutex.owner = t,
         mutex' = [mutex EXCEPT !.hold = @ + 1], held' = [held EXCEPT ![t] = @ + 1], Ends, UNCHANGED k
  PROVE  IInv' /\ Timely /\ Preempts
<1>0. MutexType(mutex, held) /\ Exclusive(k, pc, call, mutex, held) /\ Inherits(k, mutex) /\ held \in [Threads -> Nat]
  BY DEF IInv, MutexType
<1>1. /\ MutexType(mutex', held') /\ mutex'.owner = mutex.owner /\ mutex'.hold = mutex.hold + 1
      /\ mutex'.value = mutex.value /\ mutex'.original = mutex.original
  BY <1>0, SMT DEF MutexType
<1>2. t # Null /\ call[t] # Mutex
  BY RunsReady, NobodyAssumption
<1>3. held'[t] = held[t] + 1 /\ \A u \in Threads \ {t} : held'[u] = held[u]
  BY <1>0
<1>4. mutex.hold = held[t] /\ ~Given(k, call, t)
  BY <1>0, <1>2, SMT DEF Exclusive, Given
<1>5. Exclusive(k, pc, call, mutex', held')
  BY <1>0, <1>2, SMT DEF Exclusive
<1>6. Inherits(k, mutex')
  BY <1>0, SMT DEF Inherits
<1>. QED BY <1>1, <1>5, <1>6, OwnStep DEF Ends

(* rt_mutex_take of the free mutex. *)
LEMMA TakeFreeStep ==
  ASSUME SchedulerContract, IInv, NEW t \in Threads, Runs(t), mutex.owner # t, mutex.value > 0,
         mutex' = [value |-> mutex.value - 1, owner |-> t, original |-> k.prio[t], hold |-> mutex.hold + 1],
         held' = [held EXCEPT ![t] = @ + 1], Ends, UNCHANGED k
  PROVE  IInv' /\ Timely /\ Preempts
<1>0. /\ MutexType(mutex, held) /\ Exclusive(k, pc, call, mutex, held) /\ Inherits(k, mutex)
      /\ held \in [Threads -> Nat] /\ mutex.value \in {0, 1} /\ k.prio[t] \in Prios
      /\ Range(k.waiting[Mutex]) \subseteq Threads /\ k.prio[t] \in Nat
  BY ObjectsAssumption, PriosAssumption DEF IInv, MutexType, Good, KState, SchedulerContract,
     ListsTyped
<1>1. mutex.value = 1 /\ mutex.owner = Null /\ mutex.hold = 0 /\ Range(k.waiting[Mutex]) = {}
  BY <1>0, SMT DEF Exclusive
<1>2. /\ mutex'.value = 0 /\ mutex'.owner = t /\ mutex'.original = k.prio[t] /\ mutex'.hold = 1
      /\ mutex' \in [value : {0, 1}, owner : Threads \cup {Null}, original : Nat, hold : Nat]
  BY <1>0, <1>1, SMT
<1>3. t # Null /\ call[t] # Mutex /\ \A u \in Threads : ~(held[u] > 0)
  BY <1>0, RunsReady, NobodyAssumption, SMT DEF Exclusive
<1>4. /\ held' \in [Threads -> Nat] /\ held'[t] = 1 /\ \A u \in Threads \ {t} : ~(held'[u] > 0)
  BY <1>0, <1>3, SMT
<1>5. MutexType(mutex', held')
  BY <1>0, SMT DEF MutexType
<1>6. Exclusive(k, pc, call, mutex', held')
  <2>1. ~Given(k, call, t)
    BY <1>3 DEF Given
  <2>2. \A u \in Threads : call[u] = Mutex => pc[u] # "run" /\ k.stat[u] # "suspend" /\ ~Given(k, call, u)
    BY <1>0, NobodyAssumption, SMT DEF Exclusive
  <2>. QED BY <1>1, <1>4, <2>1, <2>2, SMT DEF Exclusive
<1>7. Inherits(k, mutex')
  <2>1. \A u \in Threads : k.prio[u] = InitPrio[u]
    BY <1>0, <1>1, NobodyAssumption DEF Inherits
  <2>2. Flag = "PRIO" => Sorted(k.waiting[Mutex], InitPrio)
    BY <1>0 DEF Inherits
  <2>3. mutex'.owner = t /\ mutex'.original = k.prio[t]
    OBVIOUS
  <2>. QED BY <1>1, <2>1, <2>2 DEF Inherits
<1>. QED BY <1>5, <1>6, <1>7, OwnStep DEF Ends

(* rt_mutex_take by a thread that has to wait: the owner inherits. *)
LEMMA InheritThread ==
  ASSUME SchedulerContract, IInv, NEW t \in Threads, mutex.owner \in Threads, NEW c, c = Inherit(k, t)
  PROVE  /\ Good(c) /\ c.stat = k.stat /\ SameWaiting(k, c) /\ SameRest(k, c) /\ SameTimers(k, c)
         /\ \A u \in Threads \ {mutex.owner} : c.prio[u] = k.prio[u]
         /\ c.prio[mutex.owner] <= k.prio[mutex.owner] /\ c.prio[mutex.owner] <= k.prio[t]
<1>0. Good(k) /\ k.prio \in [Threads -> Prios] /\ k.prio \in [Threads -> Nat]
  BY PriosAssumption DEF IInv, Good, KState
<1>1. CASE k.prio[t] < k.prio[mutex.owner]
  <2>1. c = rt_thread_control(k, mutex.owner, k.prio[t])
    BY <1>1 DEF Inherit
  <2>2. /\ Good(c) /\ c.prio = [k.prio EXCEPT ![mutex.owner] = k.prio[t]] /\ c.stat = k.stat
        /\ SameWaiting(k, c) /\ SameRest(k, c) /\ SameTimers(k, c)
    BY <1>0, <2>1, SMT DEF SchedulerContract, ChangesPrio
  <2>3. c.prio[mutex.owner] = k.prio[t] /\ \A u \in Threads \ {mutex.owner} : c.prio[u] = k.prio[u]
    BY <1>0, <2>2
  <2>. QED BY <1>0, <1>1, <2>2, SMT
<1>2. CASE ~(k.prio[t] < k.prio[mutex.owner])
  <2>1. c = k
    BY <1>2 DEF Inherit
  <2>2. SameWaiting(k, k) /\ SameRest(k, k) /\ SameTimers(k, k)
    BY DEF SameWaiting, SameRest, SameTimers
  <2>. QED BY <1>0, <1>2, <2>1, <2>2, SMT
<1>. QED BY <1>1, <1>2

(* rt_mutex_take of a mutex another thread holds: the owner inherits the   *)
(* priority, the caller sleeps.                                            *)
LEMMA TakeWaitStep ==
  ASSUME SchedulerContract, IInv, NEW t \in Threads, Runs(t), k.lock = 0, mutex.owner # t,
         mutex.value = 0, NEW time \in Times,
         k' = Wait(Inherit(k, t), t, Mutex, Flag, time), Reschedules(t, Mutex), UNCHANGED <<mutex, held>>
  PROVE  IInv' /\ Timely /\ Preempts
<1> DEFINE c == Inherit(k, t)
           o == mutex.owner
<1>0. /\ MutexType(mutex, held) /\ Exclusive(k, pc, call, mutex, held) /\ Inherits(k, mutex)
      /\ Mutex \in Objects /\ Good(k) /\ k \in KState /\ k.prio \in [Threads -> Nat]
      /\ Range(k.waiting[Mutex]) \subseteq Threads /\ InitPrio \in [Threads -> Nat]
  BY ObjectsAssumption, PriosAssumption, InitPrioAssumption DEF IInv, Good, KState,
     SchedulerContract, ListsTyped
<1>1. o \in Threads /\ o # Null
  BY <1>0, SMT DEF Exclusive, MutexType
<1>2. k.stat[t] = "ready" /\ t \in Threads \ {Idle} /\ call[t] # Mutex /\ k.current = t /\ busy = NoLoop
  BY RunsReady
<1>3. /\ Good(c) /\ c.stat = k.stat /\ SameWaiting(k, c) /\ SameRest(k, c) /\ SameTimers(k, c)
      /\ \A u \in Threads \ {o} : c.prio[u] = k.prio[u]
      /\ c.prio[o] <= k.prio[o] /\ c.prio[o] <= k.prio[t]
  BY <1>1, InheritThread
<1>4. time \in Int /\ Half(time)
  BY TimesAssumption
<1> HIDE DEF c
<1>5. /\ Good(k') /\ Waits(c, k', t, Mutex)
      /\ Flag = "PRIO" /\ Sorted(c.waiting[Mutex], c.prio) => Sorted(k'.waiting[Mutex], c.prio)
  <2>1. k' = Wait(c, t, Mutex, Flag, time) /\ Good(c) /\ c.stat[t] = "ready" /\ Mutex \in Objects
    BY <1>0, <1>2, <1>3 DEF c
  <2>. QED BY <1>2, <1>4, <2>1 DEF SchedulerContract, WaitsFor
<1>6. /\ c.error = k.error /\ c.current = k.current /\ c.lock = k.lock /\ c.timers = k.timers
      /\ \A q \in Objects : Range(c.waiting[q]) = Range(k.waiting[q])
      /\ \A priority : Sorted(k.waiting[Mutex], priority) => Sorted(c.waiting[Mutex], priority)
  BY <1>0, <1>3 DEF SameWaiting, SameRest, SameTimers
<1>7. /\ k'.stat = [k.stat EXCEPT ![t] = "suspend"] /\ k'.prio = c.prio
      /\ k'.error = [k.error EXCEPT ![t] = "EOK"]
      /\ k'.current = k.current /\ k'.lock = k.lock /\ Range(k.timers) \subseteq Range(k'.timers)
  BY <1>3, <1>5, <1>6 DEF Waits
<1>8. /\ Range(k'.waiting[Mutex]) = Range(k.waiting[Mutex]) \cup {t}
      /\ \A q \in Objects : Range(k.waiting[q]) \subseteq Range(k'.waiting[q])
  <2>1. /\ Range(k'.waiting[Mutex]) = Range(c.waiting[Mutex]) \cup {t}
        /\ \A q \in Objects \ {Mutex} : Range(k'.waiting[q]) = Range(c.waiting[q])
    BY <1>5 DEF Waits
  <2>2. \A q \in Objects : Range(c.waiting[q]) = Range(k.waiting[q])
    BY <1>6
  <2>. QED BY <1>0, <2>1, <2>2
<1>9. /\ Control' /\ Reasons(k', pc') /\ Running(k', pc')
      /\ \A u \in Threads \ {t} : pc'[u] = pc[u] /\ call'[u] = call[u] /\ k'.stat[u] = k.stat[u]
      /\ pc'[t] = "sched" /\ call'[t] = Mutex /\ k'.stat[t] = "suspend"
  BY <1>0, <1>5, <1>7, <1>8, SuspendsControl
<1>10. k'.error[t] = "EOK" /\ \A u \in Threads \ {t} : k'.error[u] = k.error[u]
  <2>1. k.error \in [Threads -> {"EOK", "ETIMEOUT", "ERROR"}]
    BY <1>0 DEF KState
  <2>. QED BY <1>7, <2>1
<1>11. Exclusive(k', pc', call', mutex, held)
  <2>1. \A u \in Threads \ {t} : Given(k', call', u) <=> Given(k, call, u)
    BY <1>9, <1>10 DEF Given
  <2>2. \A u \in Range(k'.waiting[Mutex]) : call'[u] = Mutex /\ k'.error[u] = "EOK" /\ u # o
    BY <1>0, <1>8, <1>9, <1>10, SMTT(20) DEF Exclusive
  <2>3. \A u \in Threads : call'[u] = Mutex =>
          /\ pc'[u] # "run"
          /\ k'.stat[u] = "suspend" => u \in Range(k'.waiting[Mutex])
          /\ Given(k', call', u) => u = o
    <3>1. ~Given(k', call', t)
      BY <1>9 DEF Given
    <3>2. SUFFICES ASSUME NEW u \in Threads, call'[u] = Mutex
                   PROVE  /\ pc'[u] # "run"
                          /\ k'.stat[u] = "suspend" => u \in Range(k'.waiting[Mutex])
                          /\ Given(k', call', u) => u = o
      OBVIOUS
    <3>3. CASE u = t
      BY <1>8, <1>9, <3>1, <3>3
    <3>4. CASE u # t
      <4>1. call[u] = Mutex /\ pc'[u] = pc[u] /\ k'.stat[u] = k.stat[u]
        BY <1>9, <3>2, <3>4
      <4>2. /\ pc[u] # "run"
            /\ k.stat[u] = "suspend" => u \in Range(k.waiting[Mutex])
            /\ Given(k, call, u) => u = o
        BY <1>0, <4>1 DEF Exclusive
      <4>3. Given(k', call', u) => u = o
        BY ONLY <2>1, <3>2, <3>4, <4>2
      <4>4. u \in Range(k.waiting[Mutex]) => u \in Range(k'.waiting[Mutex])
        BY <1>8
      <4>. QED BY ONLY <4>1, <4>2, <4>3, <4>4
    <3>. QED BY <3>3, <3>4
  <2>4. o \in Threads \ {t}
    BY <1>1
  <2>. QED BY <1>0, <1>1, <2>1, <2>2, <2>3 DEF Exclusive
<1>12. Inherits(k', mutex)
  <2>1. \A u \in Threads : u # o => k'.prio[u] = InitPrio[u] /\ k.prio[u] = InitPrio[u]
    BY <1>0, <1>3, <1>7 DEF Inherits
  <2>2. ASSUME Flag = "PRIO", NEW u \in Range(k'.waiting[Mutex]) PROVE k'.prio[o] <= k'.prio[u]
    <3>0. k'.prio[o] \in Nat /\ k.prio[o] \in Nat
      BY <1>0, <1>1, <1>5, PriosAssumption DEF Good, KState
    <3>1. CASE u = t
      <4>1. k'.prio[t] = k.prio[t]
        BY <2>1
      <4>. QED BY <1>3, <1>7, <3>1
    <3>2. CASE u # t
      <4>1. u \in Range(k.waiting[Mutex]) /\ u \in Threads /\ u # o
        BY <1>0, <1>8, <3>2 DEF Exclusive
      <4>2. k.prio[o] <= k.prio[u] /\ k'.prio[u] = k.prio[u] /\ k.prio[u] \in Nat
        BY <1>0, <1>1, <2>1, <2>2, <4>1 DEF Inherits
      <4>. QED BY <1>3, <1>7, <3>0, <4>2, SMTT(20)
    <3>. QED BY <3>1, <3>2
  <2>3. ASSUME Flag = "PRIO" PROVE Sorted(k'.waiting[Mutex], InitPrio)
    <3>1. c.waiting[Mutex] \in Seq(Threads) /\ k'.waiting[Mutex] \in Seq(Threads)
      BY <1>0, <1>3, <1>5 DEF Good, SchedulerContract, ListsTyped
    <3>2. \A u \in Range(k'.waiting[Mutex]) : u \in Threads /\ u # o
      BY <1>0, <1>8 DEF Exclusive
    <3>3. \A u \in Range(k'.waiting[Mutex]) : c.prio[u] = InitPrio[u]
      BY <1>7, <2>1, <3>2
    <3>4. \A u \in Range(c.waiting[Mutex]) : InitPrio[u] = c.prio[u]
      BY <1>0, <1>6, <1>8, <3>3
    <3>5. Sorted(c.waiting[Mutex], InitPrio)
      BY <1>0, <1>6, <2>3 DEF Inherits
    <3>6. Sorted(c.waiting[Mutex], c.prio)
      BY <3>1, <3>4, <3>5 DEF SchedulerContract, SortKept
    <3>7. Sorted(k'.waiting[Mutex], c.prio)
      BY <1>5, <2>3, <3>6
    <3> DEFINE l == k'.waiting[Mutex]
               f == c.prio
    <3>8. l \in Seq(Threads) /\ (\A u \in Range(l) : f[u] = InitPrio[u]) /\ Sorted(l, f)
      BY <3>1, <3>3, <3>7
    <3> HIDE DEF l, f
    <3>9. Sorted(l, InitPrio)
      BY <3>8 DEF SchedulerContract, SortKept
    <3>. QED BY <3>9 DEF l
  <2>4. mutex.owner # Null => mutex.original = InitPrio[mutex.owner]
    BY <1>0 DEF Inherits
  <2>. QED BY <2>1, <2>2, <2>3, <2>4 DEF Inherits
<1>13. Timely
  <2>1. c.tick = k.tick /\ k'.tick = c.tick /\ (InTime(c, c.tick) => InTime(k', c.tick))
    BY <1>3, <1>5 DEF Waits, SameRest
  <2>2. InTime(k, k.tick) => InTime(c, k.tick)
    BY <1>3 DEF SchedulerContract, InTimeKept
  <2>3. busy.loop = "none" /\ busy'.loop = "none"
    BY <1>2 DEF Reschedules, NoLoop
  <2>. QED BY <2>1, <2>2, <2>3, TimelySame
<1>14. Preempts
  BY <1>2, <1>7, <1>9, PreemptsSched
<1>. QED BY <1>5, <1>9, <1>11, <1>12, <1>13, <1>14 DEF IInv

(* rt_mutex_take keeps the invariant. *)
LEMMA MutexTakeStep ==
  ASSUME SchedulerContract, IInv, NEW t \in Threads, NEW time \in Times, rt_mutex_take(t, time)
  PROVE  IInv' /\ Timely /\ Preempts
<1>0. Runs(t) /\ k.lock = 0
  BY DEF rt_mutex_take, MayWait, Calls
<1>1. CASE /\ mutex.owner = t /\ mutex' = [mutex EXCEPT !.hold = @ + 1]
           /\ held' = [held EXCEPT ![t] = @ + 1] /\ Ends /\ UNCHANGED k
  BY <1>0, <1>1, TakeAgainStep
<1>2. CASE /\ mutex.owner # t /\ mutex.value > 0
           /\ mutex' = [value |-> mutex.value - 1, owner |-> t, original |-> k.prio[t], hold |-> mutex.hold + 1]
           /\ held' = [held EXCEPT ![t] = @ + 1] /\ Ends /\ UNCHANGED k
  BY <1>0, <1>2, TakeFreeStep
<1>3. CASE Ends /\ UNCHANGED <<k, mutex, held>>
  BY <1>3, QuietStep DEF Ends
<1>4. CASE /\ mutex.owner # t /\ mutex.value = 0
           /\ k' = Wait(Inherit(k, t), t, Mutex, Flag, time)
           /\ Reschedules(t, Mutex) /\ UNCHANGED <<mutex, held>>
  BY <1>0, <1>4, TakeWaitStep
<1>. QED BY <1>1, <1>2, <1>3, <1>4 DEF rt_mutex_take

-----------------------------------------------------------------------------
(* The first thread of a sorted list is as urgent as any. *)
LEMMA SortedHead ==
  ASSUME NEW l \in Seq(Threads), l # <<>>, NEW f \in [Threads -> Nat], Sorted(l, f)
  PROVE  \A u \in Range(l) : f[Head(l)] <= f[u]
<1>1. Len(l) \in Nat /\ Len(l) > 0 /\ Head(l) = l[1] /\ \A i \in 1..Len(l) : l[i] \in Threads
  BY SMT
<1>2. ASSUME NEW i \in 1..Len(l) PROVE f[l[1]] <= f[l[i]]
  <2>1. 1 \in 1..Len(l) /\ f[l[1]] \in Nat
    BY SMT
  <2>2. CASE i = 1
    BY <2>2, SMT
  <2>3. CASE i # 1
    BY SMT DEF Sorted
  <2>. QED BY <2>3, SMT
<1>. QED BY <1>2, SMT DEF Range

(* The last rt_mutex_release gives the owner its own priority back. *)
LEMMA RestoredThread ==
  ASSUME SchedulerContract, IInv, NEW t \in Threads, mutex.owner = t, NEW r, r = Restored(t)
  PROVE  /\ Good(r) /\ r.stat = k.stat /\ SameWaiting(k, r) /\ SameRest(k, r) /\ SameTimers(k, r)
         /\ \A u \in Threads : r.prio[u] = InitPrio[u]
<1>0. /\ Good(k) /\ k.prio \in [Threads -> Prios] /\ mutex.original \in Prios
      /\ mutex.original = InitPrio[t] /\ \A u \in Threads : u # t => k.prio[u] = InitPrio[u]
  BY NobodyAssumption DEF IInv, Good, KState, MutexType, Inherits
<1>1. CASE mutex.original # k.prio[t]
  <2>1. r = rt_thread_control(k, t, mutex.original)
    BY <1>1 DEF Restored
  <2>2. /\ Good(r) /\ r.prio = [k.prio EXCEPT ![t] = mutex.original] /\ r.stat = k.stat
        /\ SameWaiting(k, r) /\ SameRest(k, r) /\ SameTimers(k, r)
    BY <1>0, <2>1, SMT DEF SchedulerContract, ChangesPrio
  <2>. QED BY <1>0, <2>2
<1>2. CASE mutex.original = k.prio[t]
  <2>1. r = k
    BY <1>2 DEF Restored
  <2>2. SameWaiting(k, k) /\ SameRest(k, k) /\ SameTimers(k, k)
    BY DEF SameWaiting, SameRest, SameTimers
  <2>. QED BY <1>0, <1>2, <2>1, <2>2
<1>. QED BY <1>1, <1>2

(* rt_mutex_release of one of several holds. *)
LEMMA ReleaseOneStep ==
  ASSUME IInv, NEW t \in Threads, Runs(t), mutex.owner = t, mutex.hold > 1,
         mutex' = [mutex EXCEPT !.hold = @ - 1], held' = [held EXCEPT ![t] = @ - 1], Ends, UNCHANGED k
  PROVE  IInv' /\ Timely /\ Preempts
<1>0. /\ MutexType(mutex, held) /\ Exclusive(k, pc, call, mutex, held) /\ Inherits(k, mutex)
      /\ held \in [Threads -> Nat] /\ mutex.hold \in Nat
  BY DEF IInv, MutexType
<1>1. t # Null /\ call[t] # Mutex
  BY RunsReady, NobodyAssumption
<1>2. mutex.hold = held[t] /\ ~Given(k, call, t)
  BY <1>0, <1>1, SMT DEF Exclusive, Given
<1>3. /\ held' \in [Threads -> Nat] /\ held'[t] = held[t] - 1
      /\ \A u \in Threads \ {t} : held'[u] = held[u]
  BY <1>0, <1>2, SMT
<1>4. /\ MutexType(mutex', held') /\ mutex'.owner = mutex.owner /\ mutex'.hold = mutex.hold - 1
      /\ mutex'.value = mutex.value /\ mutex'.original = mutex.original
  BY <1>0, <1>3, SMT DEF MutexType
<1>5. Exclusive(k, pc, call, mutex', held')
  BY <1>0, SMT DEF Exclusive
<1>6. Inherits(k, mutex')
  BY <1>0, SMT DEF Inherits
<1>. QED BY <1>4, <1>5, <1>6, OwnStep DEF Ends

(* What the last rt_mutex_release leaves to the two cases below. *)
LEMMA LastHold ==
  ASSUME IInv, NEW t \in Threads, Runs(t), mutex.owner = t, mutex.hold = 1,
         held' = [held EXCEPT ![t] = @ - 1]
  PROVE  held' \in [Threads -> Nat] /\ \A u \in Threads : held'[u] = 0
<1>0. Exclusive(k, pc, call, mutex, held) /\ held \in [Threads -> Nat]
  BY DEF IInv, MutexType
<1>1. t # Null /\ call[t] # Mutex
  BY RunsReady, NobodyAssumption
<1>2. held[t] = 1 /\ \A u \in Threads \ {t} : held[u] = 0
  BY <1>0, <1>1, SMT DEF Exclusive, Given
<1>. QED BY <1>0, <1>2, SMT

(* Giving a thread its own priority back takes no reason away. *)
LEMMA RestoredReasons ==
  ASSUME IInv, NEW r, r.stat = k.stat, SameWaiting(k, r), SameTimers(k, r)
  PROVE  Reasons(r, pc)
<1>1. k \in KState /\ Reasons(k, pc)
  BY DEF IInv, Good
<1>. QED BY <1>1, ReasonsKept, SMTT(20) DEF SameWaiting, SameTimers

(* A thread on its way to rt_schedule is not running its own code. *)
LEMMA SchedReasons ==
  ASSUME NEW c, NEW q, NEW q2, Reasons(c, q), \A u \in Threads : q2[u] = q[u] \/ q2[u] = "sched"
  PROVE  Reasons(c, q2)
BY DEF Reasons

(* An owned mutex remembers a priority of the system. *)
LEMMA TypeOfMutex ==
  ASSUME NEW m, NEW h, m.original \in Prios, h \in [Threads -> Nat],
         m \in [value : {0, 1}, owner : Threads \cup {Null}, original : Nat, hold : Nat]
  PROVE  MutexType(m, h)
BY DEF MutexType

(* The mutex goes from thread t to the waiting thread n. *)
LEMMA HandedExclusive ==
  ASSUME NEW t \in Threads, NEW n \in Range(k.waiting[Mutex]), Range(k.waiting[Mutex]) \subseteq Threads,
         Exclusive(k, pc, call, mutex, held), mutex.owner = t, call[t] # Mutex,
         k'.stat[n] = "ready", \A u \in Threads \ {n} : k'.stat[u] = k.stat[u], k'.error = k.error,
         Range(k'.waiting[Mutex]) = Range(k.waiting[Mutex]) \ {n},
         \A u \in Threads : pc'[u] = pc[u] \/ pc'[u] = "sched",
         \A u \in Threads : call'[u] = Mutex <=> call[u] = Mutex,
         mutex'.owner = n, mutex'.hold = 1, mutex'.value = 0, \A u \in Threads : held'[u] = 0
  PROVE  Exclusive(k', pc', call', mutex', held')
<1>1. n \in Threads /\ n # Null /\ t # Null /\ call[n] = Mutex /\ k.error[n] = "EOK"
  BY NobodyAssumption, SMT DEF Exclusive
<1>2. Given(k', call', n)
  BY <1>1 DEF Given
<1>3. \A u \in Range(k'.waiting[Mutex]) : call'[u] = Mutex /\ k'.error[u] = "EOK" /\ u # mutex'.owner
  BY SMTT(20) DEF Exclusive
<1>4. ASSUME NEW u \in Threads, call'[u] = Mutex
      PROVE  /\ pc'[u] # "run"
             /\ k'.stat[u] = "suspend" => u \in Range(k'.waiting[Mutex])
             /\ Given(k', call', u) => u = mutex'.owner
  <2>1. /\ call[u] = Mutex /\ u # t /\ pc[u] # "run"
        /\ k.stat[u] = "suspend" => u \in Range(k.waiting[Mutex])
        /\ Given(k, call, u) => u = t
    BY <1>4 DEF Exclusive
  <2>2. pc'[u] # "run"
    BY <2>1
  <2>3. CASE u = n
    BY <2>2, <2>3
  <2>4. CASE u # n
    <3>1. k'.stat[u] = k.stat[u] /\ (Given(k', call', u) => Given(k, call, u))
      BY <2>4 DEF Given
    <3>. QED BY <2>1, <3>1
  <2>. QED BY <2>3, <2>4
<1>5. \A u \in Threads : ~(held'[u] > 0)
  BY SMTT(20)
<1>6. mutex'.hold = held'[n] + (IF Given(k', call', n) THEN 1 ELSE 0)
  BY <1>2, SMT
<1>. QED BY <1>1, <1>4, <1>6, SMTT(20) DEF Exclusive

(* The new owner is as urgent as the threads that go on waiting. *)
LEMMA HandedInherits ==
  ASSUME NEW n \in Range(k.waiting[Mutex]), Range(k.waiting[Mutex]) \subseteq Threads,
         Inherits(k, mutex), Flag = "PRIO" => \A u \in Range(k.waiting[Mutex]) : InitPrio[n] <= InitPrio[u],
         \A u \in Threads : k'.prio[u] = InitPrio[u],
         Range(k'.waiting[Mutex]) \subseteq Range(k.waiting[Mutex]),
         \A priority : Sorted(k.waiting[Mutex], priority) => Sorted(k'.waiting[Mutex], priority),
         mutex'.owner = n, mutex'.original = InitPrio[n]
  PROVE  Inherits(k', mutex')
<1>1. Flag = "PRIO" => Sorted(k'.waiting[Mutex], InitPrio)
  BY DEF Inherits
<1>2. Flag = "PRIO" => \A u \in Range(k'.waiting[Mutex]) : k'.prio[n] <= k'.prio[u]
  OBVIOUS
<1>. QED BY DEF Inherits

(* The kernel's state after the owner has its priority back and thread n   *)
(* has been resumed.                                                       *)
LEMMA HandedState ==
  ASSUME SchedulerContract, IInv, NEW t \in Threads, mutex.owner = t, NEW n \in Range(k.waiting[Mutex]),
         k' = rt_thread_resume(Restored(t), n)
  PROVE  /\ Good(k') /\ Reasons(k', pc) /\ k'.current = k.current /\ k'.error = k.error
         /\ k'.stat[n] = "ready" /\ \A u \in Threads \ {n} : k'.stat[u] = k.stat[u]
         /\ Range(k'.waiting[Mutex]) = Range(k.waiting[Mutex]) \ {n}
         /\ \A priority : Sorted(k.waiting[Mutex], priority) => Sorted(k'.waiting[Mutex], priority)
         /\ \A u \in Threads : Restored(t).prio[u] = InitPrio[u] /\ k'.prio[u] = InitPrio[u]
         /\ k'.tick = k.tick /\ (InTime(k, k.tick) => InTime(k', k.tick))
<1> DEFINE r == Restored(t)
<1>0. Mutex \in Objects /\ k \in KState
  BY ObjectsAssumption DEF IInv, Good
<1>1. n \in Threads /\ k.stat \in [Threads -> {"ready", "suspend"}]
  BY <1>0 DEF KState, SchedulerContract, ListsTyped
<1>2. /\ Good(r) /\ r.stat = k.stat /\ SameWaiting(k, r) /\ SameRest(k, r) /\ SameTimers(k, r)
      /\ \A u \in Threads : r.prio[u] = InitPrio[u]
  BY RestoredThread
<1>3. k' = rt_thread_resume(r, n)
  OBVIOUS
<1> HIDE DEF r
<1>4. Good(k') /\ Woken(r, k', n) /\ k'.current = r.current /\ k'.error = r.error
  BY <1>1, <1>2, <1>3 DEF SchedulerContract, Resumes
<1>5. Reasons(k', pc)
  <2>1. Reasons(r, pc) /\ r \in KState
    BY <1>2, RestoredReasons DEF Good
  <2>. QED BY <1>1, <1>4, <2>1, WokenReasons
<1>6. k'.current = k.current /\ k'.error = k.error
  BY <1>2, <1>4 DEF Woken, SameRest
<1>7. k'.stat[n] = "ready" /\ \A u \in Threads \ {n} : k'.stat[u] = k.stat[u]
  <2>1. k'.stat = [k.stat EXCEPT ![n] = "ready"]
    BY <1>2, <1>4 DEF Woken
  <2>. QED BY <1>1, <2>1
<1>8. Range(k'.waiting[Mutex]) = Range(k.waiting[Mutex]) \ {n}
  BY <1>0, <1>2, <1>4 DEF Woken, SameWaiting
<1>9. \A priority : Sorted(k.waiting[Mutex], priority) => Sorted(k'.waiting[Mutex], priority)
  BY <1>0, <1>2, <1>4 DEF Woken, SameWaiting
<1>10. \A u \in Threads : k'.prio[u] = InitPrio[u]
  BY <1>2, <1>4 DEF Woken
<1>11. k'.tick = k.tick /\ (InTime(k, k.tick) => InTime(k', k.tick))
  BY <1>2, <1>4 DEF Woken, SameRest, SchedulerContract, InTimeKept
<1>. QED BY <1>2, <1>4, <1>5, <1>6, <1>7, <1>8, <1>9, <1>10, <1>11 DEF r

(* rt_mutex_release hands the mutex to the first waiting thread. *)
LEMMA HandOverStep ==
  ASSUME SchedulerContract, IInv, NEW t \in Threads, Runs(t), mutex.owner = t, mutex.hold = 1,
         k.waiting[Mutex] # <<>>,
         NEW n, n = Head(k.waiting[Mutex]), k' = rt_thread_resume(Restored(t), n),
         mutex' = Owned(n, Restored(t).prio[n]), held' = [held EXCEPT ![t] = @ - 1],
         Reschedules(t, "other")
  PROVE  IInv' /\ Timely /\ Preempts
<1>0. MutexType(mutex, held) /\ Exclusive(k, pc, call, mutex, held) /\ Inherits(k, mutex)
  BY DEF IInv
<1>1. Mutex \in Objects /\ k \in KState /\ InitPrio \in [Threads -> Nat]
  BY ObjectsAssumption, PriosAssumption, InitPrioAssumption DEF IInv, Good
<1>2. k.waiting[Mutex] \in Seq(Threads) /\ Range(k.waiting[Mutex]) \subseteq Threads
  BY <1>1 DEF KState, SchedulerContract, ListsTyped
<1>3. k.stat[t] = "ready" /\ call[t] # Mutex /\ k.current = t /\ busy = NoLoop
  BY RunsReady
<1>4. n \in Range(k.waiting[Mutex]) /\ n \in Threads
  BY <1>1, HeadWaits
<1>5. /\ Good(k') /\ Reasons(k', pc) /\ k'.current = t /\ k'.error = k.error
      /\ k'.stat[n] = "ready" /\ \A u \in Threads \ {n} : k'.stat[u] = k.stat[u]
      /\ Range(k'.waiting[Mutex]) = Range(k.waiting[Mutex]) \ {n}
      /\ \A priority : Sorted(k.waiting[Mutex], priority) => Sorted(k'.waiting[Mutex], priority)
      /\ \A u \in Threads : Restored(t).prio[u] = InitPrio[u] /\ k'.prio[u] = InitPrio[u]
      /\ k'.tick = k.tick /\ (InTime(k, k.tick) => InTime(k', k.tick))
  BY <1>3, <1>4, HandedState
<1>6. /\ Control'
      /\ \A u \in Threads : pc'[u] = pc[u] \/ pc'[u] = "sched"
      /\ \A u \in Threads : call'[u] = Mutex <=> call[u] = Mutex
  BY <1>3, CallerControl
<1>7. Reasons(k', pc')
  <2>1. Reasons(k', pc) /\ \A u \in Threads : pc'[u] = pc[u] \/ pc'[u] = "sched"
    BY <1>5, <1>6
  <2>. QED BY <2>1, SchedReasons
<1>8. Running(k', pc')
  <2>1. n # t
    BY <1>0, <1>4 DEF Exclusive
  <2>2. k'.stat[t] = "ready"
    BY <1>3, <1>5
  <2>. QED BY <1>5, <2>2 DEF Running
<1>9. mutex' = [mutex EXCEPT !.owner = n, !.original = InitPrio[n], !.hold = 1]
  BY <1>4, <1>5 DEF Owned
<1>10. mutex \in [value : {0, 1}, owner : Threads \cup {Null}, original : Nat, hold : Nat] /\ mutex.value = 0
  <2>1. mutex.owner # Null
    BY NobodyAssumption
  <2>. QED BY <1>0 DEF MutexType, Exclusive
<1>11. /\ mutex'.owner = n /\ mutex'.hold = 1 /\ mutex'.value = 0 /\ mutex'.original = InitPrio[n]
       /\ mutex' \in [value : {0, 1}, owner : Threads \cup {Null}, original : Nat, hold : Nat]
  BY <1>1, <1>4, <1>9, <1>10
<1>12. held' \in [Threads -> Nat] /\ \A u \in Threads : held'[u] = 0
  BY LastHold
<1>13. MutexType(mutex', held')
  <2>1. mutex'.original \in Prios
    BY <1>4, <1>11, InitPrioAssumption
  <2>2. mutex' \in [value : {0, 1}, owner : Threads \cup {Null}, original : Nat, hold : Nat]
    BY <1>11
  <2>3. held' \in [Threads -> Nat]
    BY <1>12
  <2>. QED BY <2>1, <2>2, <2>3, TypeOfMutex
<1>14. Exclusive(k', pc', call', mutex', held')
  <2>1. k'.stat[n] = "ready" /\ \A u \in Threads \ {n} : k'.stat[u] = k.stat[u]
    BY <1>5
  <2>2. k'.error = k.error /\ Range(k'.waiting[Mutex]) = Range(k.waiting[Mutex]) \ {n}
    BY <1>5
  <2>3. \A u \in Threads : pc'[u] = pc[u] \/ pc'[u] = "sched"
    BY <1>6
  <2>4. \A u \in Threads : call'[u] = Mutex <=> call[u] = Mutex
    BY <1>6
  <2>5. mutex'.owner = n /\ mutex'.hold = 1 /\ mutex'.value = 0
    BY <1>11
  <2>6. \A u \in Threads : held'[u] = 0
    BY <1>12
  <2>7. Range(k.waiting[Mutex]) \subseteq Threads /\ call[t] # Mutex /\ n \in Range(k.waiting[Mutex])
    BY <1>2, <1>3, <1>4
  <2>. QED BY ONLY <1>0, <2>1, <2>2, <2>3, <2>4, <2>5, <2>6, <2>7, mutex.owner = t, t \in Threads,
              HandedExclusive
<1>15. Flag = "PRIO" => \A u \in Range(k.waiting[Mutex]) : InitPrio[n] <= InitPrio[u]
  BY <1>0, <1>1, <1>2, SortedHead DEF Inherits
<1>16. Inherits(k', mutex')
  BY <1>0, <1>2, <1>4, <1>5, <1>11, <1>15, HandedInherits
<1>17. Timely
  BY <1>3, <1>5, TimelySame DEF Reschedules, NoLoop
<1>18. Preempts
  BY <1>5, PreemptsSched DEF Reschedules, IInv, Control
<1>. QED BY <1>5, <1>6, <1>7, <1>8, <1>13, <1>14, <1>16, <1>17, <1>18 DEF IInv

(* rt_mutex_release makes the mutex free. *)
LEMMA FreeStep ==
  ASSUME SchedulerContract, IInv, NEW t \in Threads, Runs(t), mutex.owner = t, mutex.hold = 1,
         k.waiting[Mutex] = <<>>,
         mutex' = [value |-> mutex.value + 1, owner |-> Null, original |-> 255, hold |-> 0],
         k' = Restored(t), held' = [held EXCEPT ![t] = @ - 1], Ends
  PROVE  IInv' /\ Timely /\ (Preempts \/ Lowered)
<1>0. /\ MutexType(mutex, held) /\ Exclusive(k, pc, call, mutex, held) /\ Inherits(k, mutex)
      /\ Mutex \in Objects /\ k \in KState /\ k.waiting[Mutex] \in Seq(Threads)
      /\ k.stat \in [Threads -> {"ready", "suspend"}]
  BY ObjectsAssumption DEF IInv, Good, KState, SchedulerContract, ListsTyped
<1>1. /\ k.stat[t] = "ready" /\ call[t] # Mutex /\ k.current = t /\ busy = NoLoop /\ t # Null
  BY RunsReady, NobodyAssumption
<1>2. /\ Good(k') /\ k' \in KState /\ k'.stat = k.stat /\ SameWaiting(k, k') /\ SameRest(k, k')
      /\ SameTimers(k, k') /\ \A u \in Threads : k'.prio[u] = InitPrio[u]
  BY RestoredThread DEF Good
<1>3. UNCHANGED <<pc, call>> /\ busy' = NoLoop
  BY <1>1 DEF Ends
<1>4. Control'
  BY <1>3, NoLoopLoops DEF IInv, Control
<1>5. Reasons(k', pc')
  BY <1>2, <1>3, RestoredReasons
<1>6. Running(k', pc')
  BY <1>1, <1>2 DEF Running, SameRest
<1>7. Range(k.waiting[Mutex]) = {} /\ Range(k'.waiting[Mutex]) = {} /\ k'.error = k.error
  BY <1>0, <1>2 DEF SameWaiting, SameRest, SchedulerContract, EmptyRange
<1>8. mutex.value = 0
  BY <1>0 DEF Exclusive, MutexType
<1>9. /\ mutex'.value = 1 /\ mutex'.owner = Null /\ mutex'.hold = 0
      /\ mutex' \in [value : {0, 1}, owner : Threads \cup {Null}, original : Nat, hold : Nat]
  BY <1>8, SMT
<1>10. held' \in [Threads -> Nat] /\ \A u \in Threads : held'[u] = 0
  BY LastHold
<1>11. MutexType(mutex', held')
  BY <1>9, <1>10 DEF MutexType
<1>12. Exclusive(k', pc', call', mutex', held')
  <2>1. \A u \in Threads : Given(k', call', u) <=> Given(k, call, u)
    BY <1>2, <1>3, <1>7 DEF Given
  <2>2. ASSUME NEW u \in Threads, call'[u] = Mutex
        PROVE  pc'[u] # "run" /\ k'.stat[u] # "suspend" /\ ~Given(k', call', u)
    <3>1. call[u] = Mutex /\ u # t
      BY <1>1, <1>3, <2>2
    <3>. QED BY <1>0, <1>2, <1>3, <1>7, <2>1, <3>1 DEF Exclusive
  <2>3. mutex'.value = 1 /\ mutex'.owner = Null /\ mutex'.hold = 0
    BY <1>9
  <2>4. \A u \in Threads : ~(held'[u] > 0)
    BY <1>10, SMTT(20)
  <2>5. \A u \in Range(k'.waiting[Mutex]) : FALSE
    BY <1>7
  <2>. QED BY ONLY <1>7, <2>2, <2>3, <2>4, <2>5 DEF Exclusive
<1>13. Inherits(k', mutex')
  <2>1. Flag = "PRIO" => Sorted(k'.waiting[Mutex], InitPrio)
    BY <1>0, <1>2 DEF Inherits, SameWaiting
  <2>2. mutex'.owner = Null /\ \A u \in Threads : k'.prio[u] = InitPrio[u]
    BY <1>2
  <2>. QED BY <2>1, <2>2 DEF Inherits
<1>14. k'.current = t /\ k'.lock = k.lock /\ k'.tick = k.tick
  BY <1>1, <1>2 DEF SameRest
<1>15. Timely
  BY <1>1, <1>2, <1>3, <1>14, TimelySame DEF NoLoop
<1>16. Preempts \/ Lowered
  <2>0. k.prio \in [Threads -> Nat] /\ k'.prio \in [Threads -> Nat]
    <3>1. k.prio \in [Threads -> Prios] /\ k'.prio \in [Threads -> Prios]
      BY <1>0, <1>2 DEF KState
    <3>. QED BY <3>1, PriosAssumption
  <2>1. CASE k'.prio[t] > k.prio[t]
    BY <1>1, <1>14, <2>1 DEF Lowered
  <2>2. CASE k'.prio[t] <= k.prio[t]
    <3>1. \A u \in Threads \ {t} : k'.prio[u] = k.prio[u]
      BY <1>0, <1>2 DEF Inherits
    <3>2. ASSUME Urgent(k) PROVE Urgent(k')
      <4>1. SUFFICES ASSUME NEW u \in Threads, k.stat[u] = "ready" PROVE k'.prio[t] <= k'.prio[u]
        BY <1>2, <1>14 DEF Urgent
      <4>2. k.prio[t] <= k.prio[u]
        BY <1>1, <3>2, <4>1 DEF Urgent
      <4>3. CASE u = t
        BY <2>0, <4>3, SMT
      <4>4. CASE u # t
        BY <2>0, <2>2, <3>1, <4>2, <4>4, SMT
      <4>. QED BY <4>3, <4>4
    <3>3. Open' => Open
      BY <1>1, <1>3, <1>14 DEF Open
    <3>. QED BY <3>2, <3>3 DEF Preempts
  <2>. QED BY <2>0, <2>1, <2>2, SMT
<1>. QED BY <1>2, <1>4, <1>5, <1>6, <1>11, <1>12, <1>13, <1>15, <1>16 DEF IInv

(* rt_mutex_release keeps the invariant. *)
LEMMA MutexReleaseStep ==
  ASSUME SchedulerContract, IInv, NEW t \in Threads, rt_mutex_release(t)
  PROVE  IInv' /\ Timely /\ (Preempts \/ Lowered)
<1>0. Runs(t)
  BY DEF rt_mutex_release, Calls
<1>1. CASE Ends /\ UNCHANGED <<k, mutex, held>>
  BY <1>1, QuietStep DEF Ends
<1>2. CASE /\ mutex.owner = t /\ mutex.hold > 1 /\ mutex' = [mutex EXCEPT !.hold = @ - 1]
           /\ held' = [held EXCEPT ![t] = @ - 1] /\ Ends /\ UNCHANGED k
  BY <1>0, <1>2, ReleaseOneStep
<1>3. CASE /\ mutex.owner = t /\ mutex.hold = 1 /\ k.waiting[Mutex] # <<>>
           /\ mutex' = Owned(Head(k.waiting[Mutex]), Restored(t).prio[Head(k.waiting[Mutex])])
           /\ k' = rt_thread_resume(Restored(t), Head(k.waiting[Mutex]))
           /\ held' = [held EXCEPT ![t] = @ - 1] /\ Reschedules(t, "other")
  BY <1>0, <1>3, HandOverStep
<1>4. CASE /\ mutex.owner = t /\ mutex.hold = 1 /\ k.waiting[Mutex] = <<>>
           /\ mutex' = [value |-> mutex.value + 1, owner |-> Null, original |-> 255, hold |-> 0]
           /\ k' = Restored(t) /\ held' = [held EXCEPT ![t] = @ - 1] /\ Ends
  BY <1>0, <1>4, FreeStep
<1>. QED BY <1>1, <1>2, <1>3, <1>4 DEF rt_mutex_release
=============================================================================
