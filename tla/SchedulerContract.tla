-------------------------- MODULE SchedulerContract --------------------------
(***************************************************************************)
(* What the functions of Scheduler promise to the rest of the kernel: from *)
(* a state in which every list is right, each leads to such a state and    *)
(* changes in it only what it should.  SchedulerProofs proves the contract *)
(* from the functions; the proofs about Kernel use nothing else of them.   *)
(***************************************************************************)
EXTENDS Scheduler

(* Every thread is in the list it belongs to, as ReadyQueues of Kernel     *)
(* says of the kernel's state.                                             *)
Linked(c) ==
  /\ \A p \in Prios :
       /\ Distinct(c.table[p])
       /\ Range(c.table[p]) = {t \in Threads : c.stat[t] = "ready" /\ c.prio[t] = p}
       /\ p \in c.group <=> c.table[p] # <<>>
  /\ \A o \in Objects :
       /\ Distinct(c.waiting[o])
       /\ \A t \in Range(c.waiting[o]) :
            c.stat[t] = "suspend" /\ \A q \in Objects \ {o} : t \notin Range(c.waiting[q])

(* The timer list holds the activated timers, all of suspended threads. *)
TimersLinked(c) ==
  /\ Distinct(c.timers)
  /\ Range(c.timers) = {t \in Threads : c.activated[t]}
  /\ \A t \in Range(c.timers) : c.stat[t] = "suspend"

(* The states of the kernel between two steps: all lists are right, and    *)
(* the idle thread is ready.                                               *)
Good(c) == c \in KState /\ Linked(c) /\ TimersLinked(c) /\ c.stat[Idle] = "ready"

(* What the functions on lists leave alone. *)
SameRest(c, r) ==
  /\ r.current = c.current /\ r.lock = c.lock /\ r.error = c.error
  /\ r.remaining = c.remaining /\ r.tick = c.tick

SameTimers(c, r) == r.timers = c.timers /\ r.timeout = c.timeout /\ r.activated = c.activated

SameLists(c, r) ==
  /\ r.table = c.table /\ r.waiting = c.waiting /\ r.group = c.group
  /\ r.stat = c.stat /\ r.prio = c.prio

(* The suspend lists hold the same threads, in the same order. *)
SameWaiting(c, r) ==
  \A o \in Objects :
    /\ Range(r.waiting[o]) = Range(c.waiting[o])
    /\ \A priority : Sorted(c.waiting[o], priority) => Sorted(r.waiting[o], priority)

(* The running thread is as urgent as any that is ready. *)
Urgent(c) == \A t \in Threads : c.stat[t] = "ready" => c.prio[c.current] <= c.prio[t]

(* Seen from tick b, every timer of the list fires within half the range   *)
(* of the counter, the first one soonest.                                  *)
Ahead(c, b) == [t \in Threads |-> Minus(c.timeout[t], b)]

InTime(c, b) ==
  /\ \A t \in Range(c.timers) : Half(Ahead(c, b)[t])
  /\ Sorted(c.timers, Ahead(c, b))

(* Thread t leaves its lists and becomes ready. *)
Woken(c, r, t) ==
  /\ r.stat = [c.stat EXCEPT ![t] = "ready"] /\ r.prio = c.prio
  /\ r.lock = c.lock /\ r.tick = c.tick /\ r.remaining = c.remaining
  /\ \A o \in Objects :
       /\ Range(r.waiting[o]) = Range(c.waiting[o]) \ {t}
       /\ \A priority : Sorted(c.waiting[o], priority) => Sorted(r.waiting[o], priority)
  /\ Range(r.timers) = Range(c.timers) \ {t}
  /\ \A b : InTime(c, b) => InTime(r, b)

(* A state in which thread t waits for object o. *)
Waits(c, r, t, o) ==
  /\ r.stat = [c.stat EXCEPT ![t] = "suspend"] /\ r.prio = c.prio
  /\ r.error = [c.error EXCEPT ![t] = "EOK"]
  /\ r.current = c.current /\ r.lock = c.lock /\ r.tick = c.tick /\ r.remaining = c.remaining
  /\ Range(c.timers) \subseteq Range(r.timers)
  /\ Range(r.waiting[o]) = Range(c.waiting[o]) \cup {t}
  /\ \A q \in Objects \ {o} :
       /\ Range(r.waiting[q]) = Range(c.waiting[q])
       /\ \A priority : Sorted(c.waiting[q], priority) => Sorted(r.waiting[q], priority)
  /\ InTime(c, c.tick) => InTime(r, c.tick)

(* What rt_thread_yield and the clock leave alone; a new current thread is *)
(* ready and is taken only if the scheduler is not locked.                 *)
Turns(c, r) ==
  /\ r.stat = c.stat /\ r.prio = c.prio /\ r.lock = c.lock /\ r.error = c.error
  /\ SameWaiting(c, r) /\ SameTimers(c, r)
  /\ r.current = c.current \/ (r.lock = 0 /\ r.stat[r.current] = "ready" /\ Urgent(r))

-----------------------------------------------------------------------------
(* Lists: the first thread is taken out, the key of the order changes for  *)
(* other threads only, nothing is in the list.                             *)
HeadTaken ==
  \A list \in Seq(Threads) :
    Distinct(list) /\ list # <<>> =>
      /\ Tail(list) \in Seq(Threads) /\ Distinct(Tail(list))
      /\ Head(list) \in Range(list) /\ Range(Tail(list)) = Range(list) \ {Head(list)}
SortKept ==
  \A list \in Seq(Threads) : \A f, g :
    (\A u \in Range(list) : f[u] = g[u]) /\ Sorted(list, f) => Sorted(list, g)
EmptyRange == \A list \in Seq(Threads) : list = <<>> <=> Range(list) = {}

(* The lists of a kernel state hold threads; a ready thread is in no       *)
(* suspend list and has no timer.                                          *)
ListsTyped ==
  \A c \in KState :
    /\ \A p \in Prios : c.table[p] \in Seq(Threads) /\ Range(c.table[p]) \subseteq Threads
    /\ \A o \in Objects : c.waiting[o] \in Seq(Threads) /\ Range(c.waiting[o]) \subseteq Threads
    /\ c.timers \in Seq(Threads) /\ Range(c.timers) \subseteq Threads
ReadyUnlisted ==
  \A c : \A t \in Threads :
    Good(c) /\ c.stat[t] = "ready" =>
      /\ \A o \in Objects : t \notin Range(c.waiting[o])
      /\ t \notin Range(c.timers) /\ ~c.activated[t]

(* Changes that do not concern the lists, or the timers. *)
GoodKept ==
  \A c : \A r \in KState : Good(c) /\ SameLists(c, r) /\ SameTimers(c, r) => Good(r)
InTimeKept ==
  \A c, r : SameTimers(c, r) => \A b : InTime(c, b) <=> InTime(r, b)

(* The tick before this one; and timers that were in time then, when none  *)
(* is due any more.                                                        *)
TickBefore ==
  \A b \in 0..Ticks-1 : Minus(b, 1) \in 0..Ticks-1 /\ Minus(Plus(b, 1), 1) = b
NoneDue ==
  \A c \in KState : InTime(c, Minus(c.tick, 1)) /\ ~Due(c) => InTime(c, c.tick)

(* rt_schedule finds a ready thread, as urgent as any other. *)
Schedules ==
  \A c \in KState : \A r :
    Linked(c) /\ c.stat[Idle] = "ready" /\ r = rt_schedule(c) =>
      /\ r \in KState /\ Linked(r) /\ SameLists(c, r) /\ SameTimers(c, r)
      /\ r.lock = c.lock /\ r.error = c.error /\ r.remaining = c.remaining /\ r.tick = c.tick
      /\ c.lock # 0 => r = c
      /\ c.lock = 0 => r.stat[r.current] = "ready" /\ Urgent(r)

(* rt_thread_resume, also of a thread that is ready already. *)
Resumes ==
  \A c, r : \A t \in Threads :
    Good(c) /\ r = rt_thread_resume(c, t) =>
      Good(r) /\ Woken(c, r, t) /\ r.current = c.current /\ r.error = c.error

(* rt_thread_timeout of a thread whose timer is in the list. *)
TimesOut ==
  \A c, r : \A t \in Threads :
    Good(c) /\ t \in Range(c.timers) /\ r = rt_thread_timeout(c, t) =>
      /\ Good(r) /\ Woken(c, r, t) /\ r.error = [c.error EXCEPT ![t] = "ETIMEOUT"]
      /\ IF c.lock # 0 THEN r.current = c.current ELSE r.stat[r.current] = "ready" /\ Urgent(r)

(* A turn of rt_ipc_list_resume_all. *)
ResumesFailed ==
  \A c, r : \A o \in Objects :
    Good(c) /\ Waited(c, o) /\ r = ResumeFailed(c, o) =>
      LET t == Head(c.waiting[o])
      IN  /\ t \in Range(c.waiting[o]) /\ t \in Threads
          /\ Good(r) /\ Woken(c, r, t) /\ r.current = c.current
          /\ r.error = [c.error EXCEPT ![t] = "ERROR"]

(* rt_thread_sleep before rt_schedule, and the calls that wait. *)
Sleeps ==
  \A c, r : \A t \in Threads \ {Idle} : \A time \in Nat :
    Good(c) /\ c.stat[t] = "ready" /\ Half(time) /\ r = Sleep(c, t, time) =>
      /\ Good(r) /\ r.stat = [c.stat EXCEPT ![t] = "suspend"] /\ r.prio = c.prio
      /\ SameWaiting(c, r) /\ SameRest(c, r) /\ Range(r.timers) = Range(c.timers) \cup {t}
      /\ InTime(c, c.tick) => InTime(r, c.tick)
WaitsFor ==
  \A c, r, flag : \A t \in Threads \ {Idle} : \A o \in Objects : \A time \in Int :
    Good(c) /\ c.stat[t] = "ready" /\ Half(time) /\ r = Wait(c, t, o, flag, time) =>
      /\ Good(r) /\ Waits(c, r, t, o)
      /\ flag = "PRIO" /\ Sorted(c.waiting[o], c.prio) => Sorted(r.waiting[o], c.prio)

(* rt_thread_control: thread t has priority p, in the lists too. *)
ChangesPrio ==
  \A c, r : \A t \in Threads, p \in Prios :
    Good(c) /\ r = rt_thread_control(c, t, p) =>
      /\ Good(r) /\ r.prio = [c.prio EXCEPT ![t] = p] /\ r.stat = c.stat
      /\ SameWaiting(c, r) /\ SameRest(c, r) /\ SameTimers(c, r)

(* rt_thread_yield before rt_schedule, and the clock up to rt_timer_check. *)
Yields ==
  \A c, r :
    Good(c) /\ Rotates(c) /\ r = Rotate(c) =>
      Good(r) /\ Turns(c, r) /\ r.current = c.current /\ r.tick = c.tick
TicksOn ==
  \A c, r : Good(c) /\ r = rt_tick_increase(c) => Good(r) /\ Turns(c, r) /\ r.tick = Plus(c.tick, 1)

SchedulerContract ==
  /\ HeadTaken /\ SortKept /\ EmptyRange /\ ListsTyped /\ ReadyUnlisted /\ GoodKept /\ InTimeKept
  /\ TickBefore /\ NoneDue /\ Schedules /\ Resumes /\ TimesOut /\ ResumesFailed
  /\ Sleeps /\ WaitsFor /\ ChangesPrio /\ Yields /\ TicksOn
=============================================================================
