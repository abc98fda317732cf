----------------------------- MODULE KernelSafety -----------------------------
(***************************************************************************)
(* The safety properties of Kernel: the initial state, the induction over  *)
(* the steps of KernelProofs and KernelDelivery, and what follows from the *)
(* two inductive invariants.  The contract those modules assume of the     *)
(* functions of Scheduler is discharged here, by SchedulerProofs.          *)
(***************************************************************************)
EXTENDS SchedulerProofs, KernelProofs, KernelDelivery

(* rt_system_scheduler_start finds every thread in the list of its         *)
(* priority.                                                               *)
LEMMA BootedGood == Good(Booted)
<1> DEFINE c == Booted
<1>1. /\ c.table = Boot /\ c.waiting = [o \in Objects |-> <<>>] /\ c.group = {InitPrio[t] : t \in Threads}
      /\ c.stat = [t \in Threads |-> "ready"] /\ c.prio = InitPrio /\ c.timers = <<>>
      /\ c.activated = [t \in Threads |-> FALSE]
  BY Zenon DEF Booted
<1>2. c \in KState
  <2>1. c.group \subseteq Prios
    BY <1>1, InitPrioAssumption
  <2>2. /\ 0 \in 0..Ticks-1 /\ Slice \in 1..Slice /\ <<>> \in Seq(Threads)
        /\ Boot \in [Prios -> Seq(Threads)] /\ InitPrio \in [Threads -> Prios] /\ Idle \in Threads
    BY TicksAssumption, SliceAssumption, BootAssumption, InitPrioAssumption, ThreadsAssumption
  <2>. QED BY <2>2, Zenon DEF Booted, KState
<1>3. ASSUME NEW p \in Prios
      PROVE  /\ Distinct(c.table[p])
             /\ Range(c.table[p]) = {t \in Threads : c.stat[t] = "ready" /\ c.prio[t] = p}
             /\ p \in c.group <=> c.table[p] # <<>>
  <2>1. Distinct(Boot[p]) /\ Range(Boot[p]) = {t \in Threads : InitPrio[t] = p} /\ Boot[p] \in Seq(Threads)
    BY BootAssumption
  <2>2. Boot[p] = <<>> <=> Range(Boot[p]) = {}
    BY <2>1, EmptyList
  <2>3. p \in c.group <=> \E t \in Threads : InitPrio[t] = p
    BY <1>1
  <2>4. {t \in Threads : c.stat[t] = "ready" /\ c.prio[t] = p} = {t \in Threads : InitPrio[t] = p}
    BY <1>1
  <2>. QED BY <1>1, <2>1, <2>2
<1>4. Distinct(<<>>) /\ Range(<<>>) = {}
  BY NothingListed
<1>5. Linked(c)
  <2>1. \A o \in Objects : c.waiting[o] = <<>>
    BY <1>1
  <2>. QED BY <1>3, <1>4, <2>1 DEF Linked
<1>6. TimersLinked(c)
  BY <1>1, <1>4, Zenon DEF TimersLinked
<1>. QED BY <1>1, <1>2, <1>5, <1>6, ThreadsAssumption DEF Good

(* The invariant holds when the scheduler starts. *)
LEMMA InitInvariant == Init => IInv
<1> SUFFICES ASSUME Init PROVE IInv
  OBVIOUS
<1>1. /\ k = rt_schedule(Booted) /\ busy = NoLoop /\ pc = [t \in Threads |-> "run"]
      /\ call = [t \in Threads |-> "other"] /\ held = [t \in Threads |-> 0]
      /\ mutex = [value |-> 1, owner |-> Null, original |-> 255, hold |-> 0]
  BY DEF Init
<1>2. Booted \in KState /\ Linked(Booted) /\ TimersLinked(Booted) /\ Booted.stat[Idle] = "ready"
  BY BootedGood DEF Good
<1>3. /\ k \in KState /\ Linked(k) /\ SameLists(Booted, k) /\ SameTimers(Booted, k)
  BY <1>1, <1>2, ScheduleReady, Zenon
<1>4. Good(k)
  BY <1>3, BootedGood, SameListsGood
<1>5. /\ k.stat = [t \in Threads |-> "ready"] /\ k.prio = InitPrio
      /\ k.waiting = [o \in Objects |-> <<>>]
  BY <1>3, Zenon DEF SameLists, Booted
<1>6. k.current \in Threads /\ Mutex \in Objects /\ "other" # Mutex
  BY <1>3, ObjectsAssumption DEF KState
<1>7. Control
  <2>1. Loops
    <3>1. NoLoop \in [loop : {"none", "timers", "reset", "send"}, by : Threads \cup {Isr},
                      rest : Seq(Threads), need : BOOLEAN]
      BY DEF NoLoop
    <3>2. NoLoop.by \notin Threads /\ NoLoop.loop = "none"
      BY NobodyAssumption DEF NoLoop
    <3>. QED BY <1>1, <3>1, <3>2, Zenon DEF Loops
  <2>. QED BY <1>1, <2>1 DEF Control
<1>8. Reasons(k, pc) /\ Running(k, pc)
  BY <1>5, <1>6 DEF Reasons, Running
<1>9. MutexType(mutex, held)
  BY <1>1 DEF MutexType
<1>10. k.waiting[Mutex] = <<>> /\ Range(k.waiting[Mutex]) = {}
  BY <1>5, <1>6, NothingListed
<1>11. Exclusive(k, pc, call, mutex, held)
  <2>1. mutex.value = 1 /\ mutex.owner = Null /\ mutex.hold = 0
    BY <1>1
  <2>2. \A t \in Threads : ~(held[t] > 0) /\ call[t] # Mutex
    BY <1>1, <1>6
  <2>. QED BY ONLY <1>10, <2>1, <2>2 DEF Exclusive
<1>12. Inherits(k, mutex)
  <2>1. mutex.owner = Null
    BY <1>1
  <2>2. Sorted(<<>>, InitPrio)
    BY DEF Sorted
  <2>. QED BY ONLY <1>5, <1>10, <2>1, <2>2 DEF Inherits
<1>. QED BY <1>4, <1>7, <1>8, <1>9, <1>11, <1>12 DEF IInv

(* Every step of the kernel keeps the invariant. *)
LEMMA NextInvariant ==
  ASSUME SchedulerContract, IInv, [Next]_vars
  PROVE  IInv' /\ Timely /\ (Preempts \/ Lowered)
<1>1. CASE UNCHANGED vars
  BY <1>1, QuietStep DEF vars
<1>2. ASSUME NEW t \in Threads, ThreadStep(t) PROVE IInv' /\ Timely /\ (Preempts \/ Lowered)
  <2>1. CASE Schedule(t)
    BY <2>1, ScheduleStep
  <2>2. CASE Return(t)
    BY <2>2, ReturnStep
  <2>3. CASE \E time \in Times : time >= 0 /\ rt_thread_sleep(t, time)
    BY <2>3, SleepStep
  <2>4. CASE Yield(t)
    BY <2>4, YieldStep
  <2>5. CASE rt_enter_critical(t) \/ rt_exit_critical(t)
    BY <2>5, CriticalStep
  <2>6. CASE \E time \in Times : rt_sem_take(t, time)
    BY <2>6, SemTakeStep
  <2>7. CASE \E time \in Times : rt_mutex_take(t, time)
    BY <2>7, MutexTakeStep
  <2>8. CASE rt_sem_release(t)
    BY <2>8, SemReleaseStep
  <2>9. CASE rt_mutex_release(t)
    BY <2>9, MutexReleaseStep
  <2>10. CASE \E o \in Objects : rt_ipc_control(t, o)
    BY <2>10, IpcControlStep
  <2>11. CASE \E i \in Asks, time \in Times : rt_event_recv(t, i, time)
    BY <2>11, EventRecvStep
  <2>12. CASE \E bits \in SUBSET Bits \ {{}} : rt_event_send(t, bits)
    BY <2>12, EventSendStep
  <2>. QED BY <1>2, <2>1, <2>2, <2>3, <2>4, <2>5, <2>6, <2>7, <2>8, <2>9, <2>10, <2>11, <2>12
           DEF ThreadStep
<1>3. CASE Interrupt
  <2>1. CASE Tick
    BY <2>1, TickStep
  <2>2. CASE rt_sem_release(Isr)
    BY <2>2, SemReleaseStep
  <2>3. CASE \E bits \in SUBSET Bits \ {{}} : rt_event_send(Isr, bits)
    BY <2>3, EventSendStep
  <2>. QED BY <1>3, <2>1, <2>2, <2>3 DEF Interrupt
<1>4. CASE Loop
  BY <1>4, TimerStep, ResumeAllStep, OfferStep, SentStep DEF Loop
<1>. QED BY <1>1, <1>2, <1>3, <1>4 DEF Next

(* The inductive invariant of the kernel holds in every state. *)
THEOREM Inductive == Spec => []IInv
<1>1. IInv /\ [Next]_vars => IInv'
  BY NextInvariant, SchedulerMeetsContract
<1>. QED BY <1>1, InitInvariant, PTL DEF Spec

-----------------------------------------------------------------------------
(* The timers are in time, and in time for the tick at hand.               *)
THEOREM ClockRight == Spec => []Clock
<1>1. Init => Clock
  <2> SUFFICES ASSUME Init PROVE Clock
    OBVIOUS
  <2>1. Booted \in KState /\ Linked(Booted) /\ Booted.stat[Idle] = "ready" /\ Booted.timers = <<>>
    BY BootedGood DEF Good, Booted
  <2>2. k.timers = <<>>
    BY <2>1, ScheduleReady, Zenon DEF Init, SameTimers
  <2>3. Range(k.timers) = {} /\ Len(k.timers) = 0
    BY <2>2, NothingListed
  <2>. QED BY <2>3 DEF Clock, InTime, Sorted
<1>2. IInv /\ Clock /\ [Next]_vars => Clock'
  BY NextInvariant, SchedulerMeetsContract DEF Timely
<1>. QED BY <1>1, <1>2, Inductive, PTL DEF Spec

(* The timer list of timer.c is right at every tick, also when the tick    *)
(* counter wraps between the start of a timer and its end.                 *)
THEOREM TimersStayRight == Spec => []TimersRight
<1>1. IInv /\ Clock => TimersRight
  <2> SUFFICES ASSUME IInv, Clock PROVE TimersRight
    OBVIOUS
  <2>1. TimersLinked(k) /\ k \in KState
    BY Zenon DEF IInv, Good
  <2>2. ASSUME busy = NoLoop
        PROVE  /\ \A t \in Range(k.timers) : Half(Left(t))
               /\ \A i, j \in 1..Len(k.timers) : i < j => Left(k.timers[i]) <= Left(k.timers[j])
    <3>1. InTime(k, k.tick)
      BY <2>2 DEF Clock, NoLoop
    <3>2. k.timers \in Seq(Threads) /\ Range(k.timers) \subseteq Threads
      BY <2>1, ListTypes
    <3>3. \A t \in Threads : Ahead(k, k.tick)[t] = Left(t)
      BY DEF Ahead, Left
    <3>4. \A i \in 1..Len(k.timers) : k.timers[i] \in Threads
      BY <3>2, SeqEntries
    <3>5. \A t \in Range(k.timers) : Half(Left(t))
      BY <3>1, <3>2, <3>3, Zenon DEF InTime
    <3>6. \A i, j \in 1..Len(k.timers) : i < j => Left(k.timers[i]) <= Left(k.timers[j])
      BY <3>1, <3>3, <3>4, Zenon DEF InTime, Sorted
    <3>. QED BY <3>5, <3>6
  <2>. QED BY <2>1, <2>2, Zenon DEF TimersRight, TimersLinked
<1>. QED BY <1>1, Inductive, ClockRight, PTL

(* The running thread stays as urgent as any that is ready, unless it      *)
(* becomes less urgent itself by the release of a mutex.                   *)
THEOREM PreemptionStays == Spec => PreemptionKept
<1>1. Preemptive <=> (Open => Urgent(k))
  BY DEF Preemptive, Open, Urgent
<1>2. Preemptive' <=> (Open' => Urgent(k'))
  BY DEF Preemptive, Open, Urgent
<1>3. IInv /\ [Next]_vars =>
        [(Preemptive /\ ~Preemptive') =>
           /\ k'.current = k.current /\ k'.prio[k.current] > k.prio[k.current]
           /\ mutex.owner = k.current /\ mutex'.owner = Null]_vars
  BY <1>1, <1>2, NextInvariant, SchedulerMeetsContract DEF Preempts, Lowered
<1>. QED BY <1>3, Inductive, PTL DEF Spec, PreemptionKept

(* The ready queues and the suspend lists agree with the threads' states   *)
(* (scheduler.c, ipc.c), whatever the threads and interrupts do.           *)
THEOREM QueuesAgree == Spec => []ReadyQueues
<1>1. IInv => ReadyQueues
  BY Zenon DEF IInv, Good, Linked, ReadyQueues
<1>. QED BY <1>1, Inductive, PTL

(* A suspended thread is in a suspend list or has a running timer.         *)
THEOREM NoThreadForgotten == Spec => []NoneForgotten
<1>1. IInv => NoneForgotten
  <2> SUFFICES ASSUME IInv, NEW t \in Threads, k.stat[t] = "suspend"
               PROVE  pc[t] # "run" /\ (k.activated[t] \/ \E o \in Objects : t \in Range(k.waiting[o]))
    BY DEF NoneForgotten
  <2>1. Range(k.timers) = {u \in Threads : k.activated[u]}
    BY Zenon DEF IInv, Good, TimersLinked
  <2>2. pc[t] # "run" /\ (t \in Range(k.timers) \/ \E o \in Objects : t \in Range(k.waiting[o]))
    BY Zenon DEF IInv, Reasons
  <2>. QED BY <2>1, <2>2
<1>. QED BY <1>1, Inductive, PTL

(* The mutex has one owner, which holds it as often as it has taken it,    *)
(* or has been handed it by rt_mutex_release.                              *)
THEOREM MutexHasOneOwner == Spec => []MutexExclusive
<1>1. IInv => MutexExclusive
  <2> SUFFICES ASSUME IInv PROVE MutexExclusive
    OBVIOUS
  <2>1. Exclusive(k, pc, call, mutex, held) /\ Loops /\ k \in KState /\ Mutex \in Objects
    BY ObjectsAssumption, Zenon DEF IInv, Good, Control
  <2>2. ASSUME NEW t \in Threads PROVE t \in Granted(Mutex) <=> Given(k, call, t)
    BY <2>1, Zenon DEF Granted, Given, Exclusive, Loops
  <2>3. mutex.owner = Null => k.waiting[Mutex] = <<>>
    <3>1. k.waiting[Mutex] \in Seq(Threads)
      BY <2>1, ListTypes, Zenon
    <3>. QED BY <2>1, <3>1, EmptyList, Zenon DEF Exclusive
  <2>4. Granted(Mutex) \subseteq Threads /\ mutex.owner \in Threads \cup {Null}
    BY Zenon DEF Granted, IInv, MutexType
  <2>5. Granted(Mutex) \subseteq {mutex.owner}
    BY <2>1, <2>2, <2>4, Zenon DEF Exclusive, Given
  <2>6. mutex.owner # Null =>
          mutex.hold = held[mutex.owner] + (IF mutex.owner \in Granted(Mutex) THEN 1 ELSE 0)
    BY <2>1, <2>2, <2>4, Zenon DEF Exclusive
  <2>. QED BY <2>1, <2>3, <2>5, <2>6, Zenon DEF MutexExclusive, Exclusive
<1>. QED BY <1>1, Inductive, PTL

(* Priority inheritance of rt_mutex_take and rt_mutex_release works for    *)
(* objects made with RT_IPC_FLAG_PRIO.                                     *)
THEOREM PriorityInherited ==
  ASSUME Flag = "PRIO"
  PROVE  Spec => []Inheritance
<1>1. IInv => Inheritance
  BY Zenon DEF IInv, Inherits, Inheritance
<1>. QED BY <1>1, Inductive, PTL

-----------------------------------------------------------------------------
(* The invariant about what is delivered holds in every state. *)
THEOREM DeliveryInductive == Spec => []JInv
<1>1. Init => JInv
  BY BootedGood, InitDelivery, SchedulerMeetsContract
<1>2. IInv /\ JInv /\ [Next]_vars => JInv'
  BY NextDelivery, SchedulerMeetsContract
<1>. QED BY <1>1, <1>2, Inductive, PTL DEF Spec

(* No release of the semaphore is lost or counted twice (rt_sem_release,   *)
(* rt_sem_take, rt_sem_control), whatever timers and resets come between.  *)
THEOREM NoTokenLost == Spec => []TokensConserved
<1>1. IInv /\ JInv => TokensConserved
  BY TokensFromInvariant, SchedulerMeetsContract
<1>. QED BY <1>1, Inductive, DeliveryInductive, PTL

(* No thread waits for events that have arrived, and none receives bits it *)
(* did not ask for (rt_event_send, rt_event_recv, rt_event_control).       *)
THEOREM NoEventLost == Spec => []EventsDelivered
<1>1. IInv /\ JInv => EventsDelivered
  BY EventsFromInvariant, SchedulerMeetsContract
<1>. QED BY <1>1, Inductive, DeliveryInductive, PTL

(* The variables of the kernel stay in their ranges: the calls count no    *)
(* hold, lock or value past its bound and no negative number of tokens.    *)
THEOREM TypesKept == Spec => []TypeOK
<1>1. IInv /\ JInv => TypeOK
  BY TypesFromInvariant
<1>. QED BY <1>1, Inductive, DeliveryInductive, PTL
=============================================================================
