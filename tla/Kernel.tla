-------------------------------- MODULE Kernel --------------------------------
(***************************************************************************)
(* Threads that use RT-Thread together: they sleep, yield, lock the        *)
(* scheduler, and share a semaphore, a mutex and an event set              *)
(* (src/src/ipc.c), while the clock interrupt runs their timers.  The      *)
(* lists, the timers and the choice of the running thread are those of     *)
(* Scheduler.                                                              *)
(*                                                                         *)
(* A step is what a call does with interrupts off.  Between the            *)
(* rt_hw_interrupt_enable of a call and its rt_schedule (pc "sched"), and  *)
(* between rt_schedule and the end of the call (pc "back"), interrupts     *)
(* come in.  A loop that runs with interrupts off is a sequence of steps,  *)
(* one for each turn, during which `busy' keeps everything else out.       *)
(***************************************************************************)
EXTENDS Scheduler

CONSTANTS
  Sem, Mutex, Event,   \* the IPC objects
  Programs,            \* the objects and the calls ("sleep", "yield", "lock") of a program
  Null,                \* RT_NULL as the owner of the mutex
  Isr,                 \* an interrupt handler, as the caller of a function
  InitPrio,            \* init_priority of each thread
  Boot,                \* for each priority its threads, in the order they were started
  Flag,                \* "PRIO" or "FIFO": the flag of the objects
  Times,               \* the timeouts of calls; -1 is RT_WAITING_FOREVER
  Bits,                \* the bits of the event set in use
  Asks,                \* the event sets and options of rt_event_recv
  MaxValue,            \* bound: value of the semaphore
  MaxHold,             \* bound: nested takes of the mutex
  MaxLock              \* bound: nested rt_enter_critical

Infos == [want : SUBSET Bits, and : BOOLEAN, clear : BOOLEAN, asked : SUBSET Bits]

ASSUME ObjectsAssumption ==
  /\ Objects = {Sem, Mutex, Event} /\ "other" \notin Objects
  /\ Sem # Mutex /\ Sem # Event /\ Mutex # Event
ASSUME NobodyAssumption == Null \notin Threads /\ Isr \notin Threads
ASSUME InitPrioAssumption ==
  /\ InitPrio \in [Threads -> Prios]
  /\ \A t \in Threads \ {Idle} : InitPrio[t] < InitPrio[Idle]
ASSUME BootAssumption ==
  /\ Boot \in [Prios -> Seq(Threads)]
  /\ \A p \in Prios : Distinct(Boot[p]) /\ Range(Boot[p]) = {t \in Threads : InitPrio[t] = p}
ASSUME AsksAssumption ==
  Asks \subseteq {i \in Infos : i.want # {} /\ i.asked = i.want}
ASSUME BoundsAssumption == MaxValue \in Nat /\ MaxHold \in Nat \ {0} /\ MaxLock \in Nat
ASSUME TimesAssumption == \A time \in Times : time \in Int /\ Half(time)

VARIABLES
  k,        \* the kernel's state
  busy,     \* the loop that runs with interrupts off, see NoLoop
  pc,       \* of a thread: "run", "sched" or "back"
  call,     \* of a thread in a call: the object it asks for, or "other"
  value,    \* value of the semaphore
  mutex,    \* the mutex: value, owner, original_priority and hold
  set,      \* set of the event object
  info,     \* of a thread: event_set, and the options it gave
  use,      \* the objects and calls of this program
  tokens,   \* releases less successful takes of the semaphore
  held      \* takes of the mutex less releases, of a thread

vars == <<k, busy, pc, call, value, mutex, set, info, use, tokens, held>>
ipc == <<value, mutex, set, info, tokens, held>>

NoInfo == [want |-> {}, and |-> FALSE, clear |-> FALSE, asked |-> {}]
NoLoop == [loop |-> "none", by |-> Isr, rest |-> <<>>, need |-> FALSE]

TypeOK ==
  /\ k \in KState /\ k.lock <= MaxLock
  /\ busy.loop \in {"none", "timers", "reset", "send"} /\ busy.by \in Threads \cup {Isr}
  /\ busy.rest \in Seq(Threads) /\ busy.need \in BOOLEAN
  /\ pc \in [Threads -> {"run", "sched", "back"}]
  /\ value \in 0..MaxValue /\ set \subseteq Bits /\ info \in [Threads -> Infos]
  /\ mutex.value \in {0, 1} /\ mutex.hold \in 0..MaxHold /\ mutex.owner \in Threads \cup {Null}
  /\ tokens \in Nat /\ held \in [Threads -> 0..MaxHold]

(* The kernel when every thread has been started and none runs yet. *)
Booted ==
  [table |-> Boot, waiting |-> [o \in Objects |-> <<>>], group |-> {InitPrio[t] : t \in Threads},
   current |-> Idle, lock |-> 0, stat |-> [t \in Threads |-> "ready"], prio |-> InitPrio,
   error |-> [t \in Threads |-> "EOK"], remaining |-> [t \in Threads |-> Slice],
   tick |-> 0, timers |-> <<>>, timeout |-> [t \in Threads |-> 0],
   activated |-> [t \in Threads |-> FALSE]]

(* rt_system_scheduler_start switches to the thread rt_schedule chooses. *)
Init ==
  /\ k = rt_schedule(Booted)
  /\ busy = NoLoop
  /\ pc = [t \in Threads |-> "run"] /\ call = [t \in Threads |-> "other"]
  /\ value = 0 /\ tokens = 0
  /\ mutex = [value |-> 1, owner |-> Null, original |-> 255, hold |-> 0]
  /\ set = {} /\ info = [t \in Threads |-> NoInfo]
  /\ held = [t \in Threads |-> 0]
  /\ use \in Programs

-----------------------------------------------------------------------------
(* Thread t runs its own code and may call a function of the kernel; with  *)
(* the scheduler locked it must not call one that waits.                   *)
Runs(t) == busy = NoLoop /\ k.current = t /\ pc[t] = "run" /\ t # Idle
Calls(t, o) == Runs(t) /\ o \in use
MayWait(t, o) == Calls(t, o) /\ k.lock = 0

(* How a call ends that has made its change: at once, or after the         *)
(* rt_schedule that follows rt_hw_interrupt_enable.  An interrupt handler  *)
(* calls rt_schedule before any thread goes on.                            *)
Ends == UNCHANGED <<pc, call, busy, use>>
Reschedules(t, o) ==
  /\ pc' = [pc EXCEPT ![t] = "sched"] /\ call' = [call EXCEPT ![t] = o]
  /\ UNCHANGED <<busy, use>>

(* rt_schedule, called by thread t at the end of a call. *)
Schedule(t) ==
  /\ busy = NoLoop /\ k.current = t /\ pc[t] = "sched"
  /\ k' = rt_schedule(k)
  /\ pc' = [pc EXCEPT ![t] = "back"]
  /\ UNCHANGED <<busy, call, ipc, use>>

(* The end of the call of thread t, when it runs again: the error that     *)
(* was left in the thread decides whether the call succeeded.  After that  *)
(* its error and event_set are not read until a call sets them: they get   *)
(* their initial values.                                                   *)
Return(t) ==
  /\ busy = NoLoop /\ k.current = t /\ pc[t] = "back"
  /\ LET ok == k.error[t] = "EOK"
     IN  /\ tokens' = IF call[t] = Sem /\ ok THEN tokens - 1 ELSE tokens
         /\ held' = IF call[t] = Mutex /\ ok THEN [held EXCEPT ![t] = @ + 1] ELSE held
  /\ k' = [k EXCEPT !.error[t] = "EOK"] /\ info' = [info EXCEPT ![t] = NoInfo]
  /\ pc' = [pc EXCEPT ![t] = "run"] /\ call' = [call EXCEPT ![t] = "other"]
  /\ UNCHANGED <<busy, value, mutex, set, use>>

-----------------------------------------------------------------------------
rt_thread_sleep(t, time) ==
  /\ MayWait(t, "sleep")
  /\ k' = Sleep(k, t, time)
  /\ Reschedules(t, "other") /\ UNCHANGED ipc

Yield(t) ==
  /\ MayWait(t, "yield")
  /\ \/ Rotates(k) /\ k' = Rotate(k) /\ Reschedules(t, "other")
     \/ ~Rotates(k) /\ k' = k /\ Ends
  /\ UNCHANGED ipc

rt_enter_critical(t) ==
  /\ Calls(t, "lock") /\ k.lock < MaxLock
  /\ k' = [k EXCEPT !.lock = @ + 1]
  /\ Ends /\ UNCHANGED ipc

(* Mutant of rt_exit_critical: it does not call rt_schedule. *)
ExitQuietly(t) ==
  /\ Calls(t, "lock") /\ k.lock > 0
  /\ k' = [k EXCEPT !.lock = @ - 1]
  /\ Ends /\ UNCHANGED ipc

rt_exit_critical(t) ==
  /\ Calls(t, "lock") /\ k.lock > 0
  /\ k' = [k EXCEPT !.lock = @ - 1]
  /\ IF k.lock = 1 THEN Reschedules(t, "other") ELSE Ends
  /\ UNCHANGED ipc

(* SysTick: the clock and the time slice, then the loop of rt_timer_check. *)
Looping(loop, by, rest) == busy' = [loop |-> loop, by |-> by, rest |-> rest, need |-> FALSE]
Timers(k1) == IF Due(k1) THEN Looping("timers", Isr, <<>>) ELSE busy' = NoLoop

Tick ==
  /\ busy = NoLoop
  /\ k' = rt_tick_increase(k)
  /\ Timers(k')
  /\ UNCHANGED <<pc, call, ipc, use>>

rt_timer_check ==
  /\ busy.loop = "timers"
  /\ k' = rt_thread_timeout(k, Head(k.timers))
  /\ Timers(k')
  /\ UNCHANGED <<pc, call, ipc, use>>

-----------------------------------------------------------------------------
rt_sem_take(t, time) ==
  /\ MayWait(t, Sem)
  /\ \/ /\ value > 0
        /\ value' = value - 1 /\ tokens' = tokens - 1
        /\ Ends /\ UNCHANGED <<k, mutex, set, info, held>>
     \/ /\ value = 0 /\ time = 0
        /\ Ends /\ UNCHANGED <<k, ipc>>
     \/ /\ value = 0 /\ time # 0
        /\ k' = Wait(k, t, Sem, Flag, time)
        /\ Reschedules(t, Sem) /\ UNCHANGED ipc

(* Mutant of rt_sem_release: the value grows even if a thread is waiting. *)
ReleaseTwice(t) ==
  /\ Calls(t, Sem) \/ (t = Isr /\ busy = NoLoop /\ Sem \in use)
  /\ value < MaxValue /\ value' = value + 1 /\ tokens' = tokens + 1
  /\ LET r == IF Waited(k, Sem) THEN rt_thread_resume(k, Head(k.waiting[Sem])) ELSE k
     IN  IF t = Isr THEN k' = rt_schedule(r) /\ Ends ELSE k' = r /\ Reschedules(t, "other")
  /\ UNCHANGED <<mutex, set, info, held>>

(* rt_sem_release, by a thread or by an interrupt handler. *)
rt_sem_release(t) ==
  /\ Calls(t, Sem) \/ (t = Isr /\ busy = NoLoop /\ Sem \in use)
  /\ \/ /\ k.waiting[Sem] # <<>>
        /\ LET r == rt_thread_resume(k, Head(k.waiting[Sem]))
           IN  IF t = Isr THEN k' = rt_schedule(r) /\ Ends ELSE k' = r /\ Reschedules(t, "other")
        /\ UNCHANGED value
     \/ /\ k.waiting[Sem] = <<>> /\ value < MaxValue
        /\ value' = value + 1
        /\ Ends /\ UNCHANGED k
  /\ tokens' = tokens + 1
  /\ UNCHANGED <<mutex, set, info, held>>

(* rt_sem_control and rt_event_control with RT_IPC_CMD_RESET: the loop of  *)
(* rt_ipc_list_resume_all, then the new value.                             *)
rt_ipc_control(t, o) ==
  /\ Calls(t, o) /\ o \in {Sem, Event}
  /\ Looping("reset", t, <<>>)
  /\ call' = [call EXCEPT ![t] = o]
  /\ UNCHANGED <<k, pc, ipc, use>>

rt_ipc_list_resume_all ==
  /\ busy.loop = "reset"
  /\ LET t == busy.by
         o == call[t]
     IN  \/ /\ Waited(k, o)
            /\ k' = ResumeFailed(k, o)
            /\ UNCHANGED <<busy, pc, call, ipc, use>>
         \/ /\ ~Waited(k, o)
            /\ \/ o = Sem /\ value' \in 0..MaxValue /\ tokens' = tokens - value + value' /\ set' = set
               \/ o = Event /\ set' = {} /\ UNCHANGED <<value, tokens>>
            /\ busy' = NoLoop
            /\ pc' = [pc EXCEPT ![t] = "sched"] /\ call' = [call EXCEPT ![t] = "other"]
            /\ UNCHANGED <<k, mutex, info, held, use>>

-----------------------------------------------------------------------------
(* Mutant of Inherit: the owner keeps its priority. *)
InheritNothing(k0, t) == k0

(* rt_mutex_take of thread t, which has to wait, gives the owner the       *)
(* priority of t if that is more urgent.                                   *)
Inherit(k0, t) ==
  IF k0.prio[t] < k0.prio[mutex.owner]
  THEN rt_thread_control(k0, mutex.owner, k0.prio[t])
  ELSE k0

rt_mutex_take(t, time) ==
  /\ MayWait(t, Mutex)
  /\ \/ /\ mutex.owner = t /\ mutex.hold < MaxHold
        /\ mutex' = [mutex EXCEPT !.hold = @ + 1]
        /\ held' = [held EXCEPT ![t] = @ + 1]
        /\ Ends /\ UNCHANGED k
     \/ /\ mutex.owner # t /\ mutex.value > 0
        /\ mutex' = [value |-> mutex.value - 1, owner |-> t,
                     original |-> k.prio[t], hold |-> mutex.hold + 1]
        /\ held' = [held EXCEPT ![t] = @ + 1]
        /\ Ends /\ UNCHANGED k
     \/ /\ mutex.owner # t /\ mutex.value = 0 /\ time = 0
        /\ Ends /\ UNCHANGED <<k, mutex, held>>
     \/ /\ mutex.owner # t /\ mutex.value = 0 /\ time # 0
        /\ k' = Wait(Inherit(k, t), t, Mutex, Flag, time)
        /\ Reschedules(t, Mutex) /\ UNCHANGED <<mutex, held>>
  /\ UNCHANGED <<value, set, info, tokens>>

(* Mutant of Owned: the mutex is free for a thread that comes first. *)
OwnedByNone(n, p) == [value |-> 1, owner |-> Null, original |-> 255, hold |-> 0]

(* The mutex when rt_mutex_release hands it to thread n of priority p. *)
Owned(n, p) == [mutex EXCEPT !.owner = n, !.original = p, !.hold = 1]

(* rt_mutex_release of the last hold gives its owner t back the priority   *)
(* it had when it took the mutex.                                          *)
Restored(t) ==
  IF mutex.original # k.prio[t] THEN rt_thread_control(k, t, mutex.original) ELSE k

rt_mutex_release(t) ==
  /\ Calls(t, Mutex)
  /\ \/ /\ mutex.owner # t
        /\ Ends /\ UNCHANGED <<k, mutex, held>>
     \/ /\ mutex.owner = t /\ mutex.hold > 1
        /\ mutex' = [mutex EXCEPT !.hold = @ - 1]
        /\ held' = [held EXCEPT ![t] = @ - 1]
        /\ Ends /\ UNCHANGED k
     \/ /\ mutex.owner = t /\ mutex.hold = 1 /\ k.waiting[Mutex] # <<>>
        /\ LET n == Head(k.waiting[Mutex])
               r == Restored(t)
           IN  /\ mutex' = Owned(n, r.prio[n])
               /\ k' = rt_thread_resume(r, n)
        /\ held' = [held EXCEPT ![t] = @ - 1]
        /\ Reschedules(t, "other")
     \/ /\ mutex.owner = t /\ mutex.hold = 1 /\ k.waiting[Mutex] = <<>>
        /\ mutex' = [value |-> mutex.value + 1, owner |-> Null, original |-> 255, hold |-> 0]
        /\ k' = Restored(t)
        /\ held' = [held EXCEPT ![t] = @ - 1]
        /\ Ends
  /\ UNCHANGED <<value, set, info, tokens>>

-----------------------------------------------------------------------------
(* The condition on which a thread waits for bits of the event set s. *)
Satisfied(i, s) == IF i.and THEN i.want \subseteq s ELSE i.want \cap s # {}

(* rt_event_recv.  The bits a thread that waited has received are left in  *)
(* its event_set, `want'.                                                  *)
rt_event_recv(t, i, time) ==
  /\ MayWait(t, Event)
  /\ \/ /\ Satisfied(i, set)
        /\ set' = IF i.clear THEN set \ i.want ELSE set
        /\ Ends /\ UNCHANGED <<k, info>>
     \/ /\ ~Satisfied(i, set) /\ time = 0
        /\ Ends /\ UNCHANGED <<k, set, info>>
     \/ /\ ~Satisfied(i, set) /\ time # 0
        /\ info' = [info EXCEPT ![t] = i]
        /\ k' = Wait(k, t, Event, Flag, time)
        /\ Reschedules(t, Event) /\ UNCHANGED set
  /\ UNCHANGED <<value, mutex, tokens, held>>

(* rt_event_send, by a thread or by an interrupt handler: the bits are set *)
(* and the loop over the waiting threads begins.                           *)
rt_event_send(t, bits) ==
  /\ Calls(t, Event) \/ (t = Isr /\ busy = NoLoop /\ Event \in use)
  /\ set' = set \cup bits
  /\ Looping("send", t, k.waiting[Event])
  /\ UNCHANGED <<k, pc, call, value, mutex, info, tokens, held, use>>

(* Mutant of Offer: the loop ends with the first thread it resumes. *)
OfferOne ==
  /\ busy.loop = "send" /\ busy.rest # <<>>
  /\ LET u == Head(busy.rest)
     IN  IF Satisfied(info[u], set)
         THEN /\ k' = rt_thread_resume(k, u)
              /\ busy' = [busy EXCEPT !.rest = <<>>, !.need = TRUE]
         ELSE /\ busy' = [busy EXCEPT !.rest = Tail(@)]
              /\ UNCHANGED k
  /\ UNCHANGED <<pc, call, value, mutex, set, info, tokens, held, use>>

(* A turn of that loop: one waiting thread. *)
Offer ==
  /\ busy.loop = "send" /\ busy.rest # <<>>
  /\ LET u == Head(busy.rest)
         i == info[u]
         got == IF i.and THEN i.want ELSE i.want \cap set
     IN  IF Satisfied(i, set)
         THEN /\ info' = [info EXCEPT ![u].want = got]
              /\ set' = IF i.clear THEN set \ got ELSE set
              /\ k' = rt_thread_resume(k, u)
              /\ busy' = [busy EXCEPT !.rest = Tail(@), !.need = TRUE]
         ELSE /\ busy' = [busy EXCEPT !.rest = Tail(@)]
              /\ UNCHANGED <<k, set, info>>
  /\ UNCHANGED <<pc, call, value, mutex, tokens, held, use>>

(* The end of rt_event_send. *)
Sent ==
  /\ busy.loop = "send" /\ busy.rest = <<>>
  /\ busy' = NoLoop
  /\ IF busy.need
     THEN IF busy.by = Isr
          THEN k' = rt_schedule(k) /\ UNCHANGED <<pc, call>>
          ELSE /\ pc' = [pc EXCEPT ![busy.by] = "sched"]
               /\ UNCHANGED <<k, call>>
     ELSE UNCHANGED <<k, pc, call>>
  /\ UNCHANGED <<ipc, use>>

-----------------------------------------------------------------------------
ThreadStep(t) ==
  \/ Schedule(t) \/ Return(t)
  \/ \E time \in Times : time >= 0 /\ rt_thread_sleep(t, time)
  \/ Yield(t) \/ rt_enter_critical(t) \/ rt_exit_critical(t)
  \/ \E time \in Times : rt_sem_take(t, time) \/ rt_mutex_take(t, time)
  \/ rt_sem_release(t) \/ rt_mutex_release(t)
  \/ \E o \in Objects : rt_ipc_control(t, o)
  \/ \E i \in Asks, time \in Times : rt_event_recv(t, i, time)
  \/ \E bits \in SUBSET Bits \ {{}} : rt_event_send(t, bits)

Interrupt ==
  \/ Tick
  \/ rt_sem_release(Isr)
  \/ \E bits \in SUBSET Bits \ {{}} : rt_event_send(Isr, bits)

Loop == rt_timer_check \/ rt_ipc_list_resume_all \/ Offer \/ Sent

Next == (\E t \in Threads : ThreadStep(t)) \/ Interrupt \/ Loop

Spec == Init /\ [][Next]_vars

-----------------------------------------------------------------------------
(* The ready queues of scheduler.c agree with the threads: a thread is in  *)
(* the list of its priority exactly if it is ready, once; a suspended one  *)
(* is in at most one suspend list; and the bit of a priority is set        *)
(* exactly if its list is not empty, so that rt_schedule never takes a     *)
(* thread from an empty list.                                              *)
ReadyQueues ==
  /\ \A p \in Prios :
       /\ Distinct(k.table[p])
       /\ Range(k.table[p]) = {t \in Threads : k.stat[t] = "ready" /\ k.prio[t] = p}
       /\ p \in k.group <=> k.table[p] # <<>>
  /\ \A o \in Objects :
       /\ Distinct(k.waiting[o])
       /\ \A t \in Range(k.waiting[o]) :
            k.stat[t] = "suspend" /\ \A q \in Objects \ {o} : t \notin Range(k.waiting[q])

(* The time left to a timer, as rt_timer_check sees it. *)
Left(t) == Minus(k.timeout[t], k.tick)

(* The timers of timer.c stay right when rt_tick wraps: the list holds     *)
(* exactly the activated timers, soonest first, each of a thread that      *)
(* still waits (asserted by rt_thread_timeout), none with more time left   *)
(* than a call can ask for; and no timer is overdue once a tick has been   *)
(* handled.                                                                *)
TimersRight ==
  /\ Distinct(k.timers)
  /\ Range(k.timers) = {t \in Threads : k.activated[t]}
  /\ \A t \in Range(k.timers) : k.stat[t] = "suspend"
  /\ busy = NoLoop =>
       /\ \A t \in Range(k.timers) : Half(Left(t))
       /\ \A i, j \in 1..Len(k.timers) : i < j => Left(k.timers[i]) <= Left(k.timers[j])

(* A thread that is suspended has a reason to wake: it is in a suspend     *)
(* list or its timer runs, and it is inside a call.                        *)
NoneForgotten ==
  \A t \in Threads :
    k.stat[t] = "suspend" =>
      /\ pc[t] # "run"
      /\ k.activated[t] \/ \E o \in Objects : t \in Range(k.waiting[o])

(* The thread that runs is as urgent as any that is ready, also while      *)
(* rt_event_send goes through the waiting threads and has resumed none.    *)
Preemptive ==
  (busy.loop \in {"none", "send"} /\ ~busy.need /\ k.lock = 0 /\ pc[k.current] # "sched") =>
    \A t \in Threads : k.stat[t] = "ready" => k.prio[k.current] <= k.prio[t]

(* Preemption is lost only in one way: the running thread itself becomes   *)
(* less urgent, when it releases the mutex (rt_mutex_release does not call *)
(* rt_schedule if no thread waits for the mutex any more).                 *)
PreemptionKept ==
  [][(Preemptive /\ ~Preemptive') =>
       /\ k'.current = k.current /\ k'.prio[k.current] > k.prio[k.current]
       /\ mutex.owner = k.current /\ mutex'.owner = Null]_vars

(* Threads that rt_sem_release has made ready with the semaphore, which    *)
(* they have yet to see.                                                   *)
Granted(o) ==
  {t \in Threads : pc[t] # "run" /\ call[t] = o /\ k.stat[t] = "ready" /\ k.error[t] = "EOK"
                   /\ busy.by # t}

(* No release of the semaphore is lost and none counted twice, whatever    *)
(* timeouts, resets and interrupt handlers come between a release and the  *)
(* return of the take it wakes; and none is kept back while threads wait.  *)
TokensConserved ==
  /\ tokens = value + Cardinality(Granted(Sem))
  /\ value > 0 => k.waiting[Sem] = <<>>

(* The mutex belongs to the thread that holds it, as often as it has taken *)
(* it, or to one thread that it was handed to and that has yet to return   *)
(* from rt_mutex_take; it is free only if nobody waits.                    *)
MutexExclusive ==
  /\ \A t \in Threads : held[t] > 0 => mutex.owner = t
  /\ mutex.owner = Null <=> mutex.value = 1
  /\ mutex.owner = Null => mutex.hold = 0 /\ k.waiting[Mutex] = <<>>
  /\ mutex.owner # Null =>
       mutex.hold = held[mutex.owner] + (IF mutex.owner \in Granted(Mutex) THEN 1 ELSE 0)
  /\ Granted(Mutex) \subseteq {mutex.owner}

(* Priority inheritance: the owner of the mutex is as urgent as every      *)
(* thread that waits for it; and a thread without the mutex has the        *)
(* priority it was started with.                                           *)
Inheritance ==
  /\ mutex.owner # Null =>
       \A t \in Range(k.waiting[Mutex]) : k.prio[mutex.owner] <= k.prio[t]
  /\ \A t \in Threads : t # mutex.owner => k.prio[t] = InitPrio[t]

(* No thread waits for events that have all arrived; and a thread whose    *)
(* rt_event_recv succeeds after waiting has received some of the bits it   *)
(* asked for, all of them if it said AND.                                  *)
EventsDelivered ==
  /\ busy.loop # "send" => \A t \in Range(k.waiting[Event]) : ~Satisfied(info[t], set)
  /\ \A t \in Granted(Event) :
       /\ info[t].want # {} /\ info[t].want \subseteq info[t].asked
       /\ info[t].and => info[t].want = info[t].asked
=============================================================================
