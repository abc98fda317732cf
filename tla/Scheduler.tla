------------------------------ MODULE Scheduler ------------------------------
(***************************************************************************)
(* The scheduler, the thread operations and the timer list of RT-Thread    *)
(* (src/src/scheduler.c, thread.c, timer.c, clock.c), as functions from    *)
(* the kernel's state k to its next state.  Each is called with interrupts *)
(* off or from an interrupt handler.  k is a record:                       *)
(*                                                                         *)
(*   table      rt_thread_priority_table, one list for each priority       *)
(*   waiting    suspend_thread of each IPC object                          *)
(*   group      rt_thread_ready_priority_group, the priorities whose bit   *)
(*              is set                                                     *)
(*   current    rt_current_thread                                          *)
(*   lock       rt_scheduler_lock_nest                                     *)
(*   stat, prio, error, remaining                                          *)
(*              stat, current_priority, error, remaining_tick of a thread  *)
(*   tick       rt_tick, a counter of Ticks values                         *)
(*   timers     rt_timer_list: the threads whose timer runs, soonest first *)
(*   timeout    timeout_tick of a thread's timer; 0 once the timer is      *)
(*              stopped, when it is not read any more                      *)
(*   activated  RT_TIMER_FLAG_ACTIVATED of a thread's timer                *)
(*                                                                         *)
(* The node thread->tlist is in one list at a time; rt_list_remove takes   *)
(* it out of whichever it is in.  The only timers are those of threads:    *)
(* the firmware has no others.                                             *)
(***************************************************************************)
EXTENDS Integers, Sequences, FiniteSets, IpcList

CONSTANTS
  Threads,   \* the idle thread included
  Idle,      \* the idle thread, always ready
  Prios,     \* 0 .. RT_THREAD_PRIORITY_MAX - 1, a smaller number is more urgent
  Objects,   \* the IPC objects
  Ticks,     \* 2^32 in the code: the tick counter wraps to 0
  Slice      \* init_tick of the threads: their time slice

ASSUME ThreadsAssumption == IsFiniteSet(Threads) /\ Idle \in Threads
ASSUME PriosAssumption == Prios \subseteq Nat
ASSUME TicksAssumption == Ticks \in Nat /\ Ticks > 4
ASSUME SliceAssumption == Slice \in Nat \ {0}

KState ==
  [table : [Prios -> Seq(Threads)], waiting : [Objects -> Seq(Threads)],
   group : SUBSET Prios, current : Threads, lock : Nat,
   stat : [Threads -> {"ready", "suspend"}], prio : [Threads -> Prios],
   error : [Threads -> {"EOK", "ETIMEOUT", "ERROR"}], remaining : [Threads -> 1..Slice],
   tick : 0..Ticks-1, timers : Seq(Threads), timeout : [Threads -> 0..Ticks-1],
   activated : [Threads -> BOOLEAN]]

(* rt_list_remove(&thread->tlist) *)
rt_list_remove(k, t) ==
  [k EXCEPT !.table = [p \in Prios |-> Unlink(k.table[p], t)],
            !.waiting = [o \in Objects |-> Unlink(k.waiting[o], t)]]

rt_schedule_insert_thread(k, t) ==
  LET p == k.prio[t]
  IN  [k EXCEPT !.stat[t] = "ready",
                !.table[p] = Append(@, t),
                !.group = @ \cup {p}]

rt_schedule_remove_thread(k, t) ==
  LET r == rt_list_remove(k, t)
      p == k.prio[t]
  IN  [r EXCEPT !.group = IF r.table[p] = <<>> THEN @ \ {p} ELSE @]

(* The first thread of the most urgent list whose bit is set. *)
Highest(k) == CHOOSE p \in k.group : \A q \in k.group : p <= q

rt_schedule(k) ==
  IF k.lock # 0 THEN k ELSE [k EXCEPT !.current = Head(k.table[Highest(k)])]

-----------------------------------------------------------------------------
(* a + b and a - b in unsigned arithmetic, and the test "< RT_TICK_MAX / 2". *)
Plus(a, b) == IF a + b >= Ticks THEN a + b - Ticks ELSE a + b
Minus(a, b) == IF a >= b THEN a - b ELSE a - b + Ticks
Half(d) == d < (Ticks - 1) \div 2

(* Mutant of Later: the ticks are compared as plain numbers. *)
LaterPlain(a, b) == a > b

(* Timeout a comes after timeout b: the place where rt_timer_start stops   *)
(* its walk (timers with the same timeout are passed).                     *)
Later(a, b) == Minus(a, b) # 0 /\ Half(Minus(a, b))

(* rt_timer_control(SET_TIME) and rt_timer_start of the timer of thread t. *)
rt_timer_start(k, t, time) ==
  LET at == Plus(k.tick, time)
      i  == FirstPlace({j \in 1..Len(k.timers) : Later(k.timeout[k.timers[j]], at)})
  IN  IF k.activated[t] THEN k
      ELSE [k EXCEPT !.timeout[t] = at,
                     !.timers = IF i = 0 THEN Append(@, t) ELSE InsertBefore(@, i, t),
                     !.activated[t] = TRUE]

rt_timer_stop(k, t) ==
  IF ~k.activated[t] THEN k
  ELSE [k EXCEPT !.timers = Unlink(@, t), !.activated[t] = FALSE, !.timeout[t] = 0]

-----------------------------------------------------------------------------
rt_thread_suspend(k, t) ==
  IF k.stat[t] # "ready" THEN k
  ELSE rt_schedule_remove_thread([k EXCEPT !.stat[t] = "suspend"], t)

rt_thread_resume(k, t) ==
  IF k.stat[t] # "suspend" THEN k
  ELSE rt_schedule_insert_thread(rt_timer_stop(rt_list_remove(k, t), t), t)

(* rt_thread_control(RT_THREAD_CTRL_CHANGE_PRIORITY).  A suspended thread  *)
(* keeps its place in the list it waits in.                                *)
rt_thread_control(k, t, p) ==
  IF k.stat[t] = "ready"
  THEN rt_schedule_insert_thread([rt_schedule_remove_thread(k, t) EXCEPT !.prio[t] = p], t)
  ELSE [k EXCEPT !.prio[t] = p]

(* The current thread goes to the end of its list, unless it is alone      *)
(* there, or no longer ready: it is about to call rt_schedule.             *)
Rotates(k) == k.stat[k.current] = "ready" /\ Len(k.table[k.prio[k.current]]) > 1
Rotate(k) ==
  LET t == k.current
  IN  [rt_list_remove(k, t) EXCEPT !.table[k.prio[t]] = Append(@, t)]

(* Mutant of rt_thread_yield: the state of the thread is not looked at. *)
YieldAnyState(k) ==
  IF \E list \in Range(k.table) \cup Range(k.waiting) : k.current \in Range(list) /\ Len(list) > 1
  THEN rt_schedule(Rotate(k))
  ELSE k

(* rt_thread_yield as the clock interrupt calls it. *)
rt_thread_yield(k) == IF Rotates(k) THEN rt_schedule(Rotate(k)) ELSE k

(* The body of the loop of rt_timer_check: the first timer is unlinked,    *)
(* rt_thread_timeout makes its thread ready, and the timer is stopped.     *)
rt_thread_timeout(k, t) ==
  LET r == rt_list_remove([k EXCEPT !.timers = Unlink(@, t), !.error[t] = "ETIMEOUT"], t)
      s == rt_schedule(rt_schedule_insert_thread(r, t))
  IN  [s EXCEPT !.activated[t] = FALSE, !.timeout[t] = 0]

(* The condition of that loop: (current_tick - timeout_tick) of the first  *)
(* timer is in the lower half.                                             *)
Due(k) == k.timers # <<>> /\ Half(Minus(k.tick, k.timeout[Head(k.timers)]))

(* Mutant of rt_tick_increase: the time slice is not filled up again. *)
TickKeepsSlice(k) ==
  LET t == k.current
      c == [k EXCEPT !.tick = Plus(@, 1), !.remaining[t] = @ - 1]
  IN  IF c.remaining[t] = 0 THEN rt_thread_yield(c) ELSE c

(* SysTick, up to rt_timer_check: the clock, and the time slice of the     *)
(* current thread.                                                         *)
rt_tick_increase(k) ==
  LET t == k.current
      c == [k EXCEPT !.tick = Plus(@, 1), !.remaining[t] = @ - 1]
  IN  IF c.remaining[t] = 0 THEN rt_thread_yield([c EXCEPT !.remaining[t] = Slice]) ELSE c

-----------------------------------------------------------------------------
(* rt_ipc_list_suspend and the start of the thread's timer, the common     *)
(* part of all calls that wait; time < 0 is RT_WAITING_FOREVER.            *)
Wait(k, t, o, flag, time) ==
  LET s == rt_thread_suspend([k EXCEPT !.error[t] = "EOK"], t)
      w == [s EXCEPT !.waiting[o] = ListSuspend(@, t, flag, k.prio)]
  IN  IF time > 0 THEN rt_timer_start(w, t, time) ELSE w

(* The body of the loop of rt_ipc_list_resume_all, and its condition. *)
ResumeFailed(k, o) ==
  rt_thread_resume([k EXCEPT !.error[Head(k.waiting[o])] = "ERROR"], Head(k.waiting[o]))
Waited(k, o) == k.waiting[o] # <<>>

(* Mutant of Sleep: the timer is not started. *)
SleepNoTimer(k, t, time) == rt_thread_suspend(k, t)

(* The part of rt_thread_sleep before rt_schedule. *)
Sleep(k, t, time) == rt_timer_start(rt_thread_suspend(k, t), t, time)
=============================================================================
