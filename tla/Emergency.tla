------------------------------ MODULE Emergency ------------------------------
(***************************************************************************)
(* The emergency thread (src/bsp/stm32f40x/Thread/t_emergency.c) on top of *)
(* the scheduler, with the threads it restarts and the CAN bus on which it *)
(* stops the motors.  Everything it does for a mail it does with           *)
(* interrupts off, the sending of three CAN frames included; when all      *)
(* transmit mailboxes are in use, _can_senddata (drivers/can.c) sleeps.    *)
(***************************************************************************)
EXTENDS Scheduler, SequencesExt

CONSTANTS
  Stopper,     \* the emergency thread
  Restarted,   \* the threads it restarts, in this order
  MbEmergency, \* its mailbox
  Priority,    \* priority of each thread
  Boxes,       \* 3 transmit mailboxes
  Tries,       \* 6 times the loop of _can_senddata sleeps
  Motors,      \* 3 motors are stopped
  Report       \* ticks that _can_senddata sleeps after a failure (100)

VARIABLES
  k,        \* the kernel's state
  cpu,      \* the thread whose code is executed
  masked,   \* PRIMASK: interrupts, and with them PendSV, are held back
  mail,     \* a mail is in Mb_Emergency
  used,     \* transmit mailboxes in use
  at,       \* of a thread: "idle", "send" or "report"
  tries,    \* of a thread that sends: wait_time
  stopped   \* the motors whose stop has been handed to the CAN bus or given up

vars == <<k, cpu, masked, mail, used, at, tries, stopped>>

(* The emergency thread waits for its mail, the others are ready. *)
Init ==
  /\ k = LET all == [table |-> [p \in Prios |-> SetToSeq({t \in Threads : Priority[t] = p})],
                     waiting |-> [o \in Objects |-> <<>>],
                     group |-> {Priority[t] : t \in Threads}, current |-> Stopper,
                     lock |-> 0, stat |-> [t \in Threads |-> "ready"], prio |-> Priority,
                     error |-> [t \in Threads |-> "EOK"], remaining |-> [t \in Threads |-> Slice],
                     tick |-> 0, timers |-> <<>>, timeout |-> [t \in Threads |-> 0],
                     activated |-> [t \in Threads |-> FALSE]]
         IN  rt_schedule(Wait(all, Stopper, MbEmergency, "FIFO", -1))
  /\ cpu = k.current /\ masked = FALSE /\ mail = FALSE
  /\ used = 0 /\ stopped = 0
  /\ at = [t \in Threads |-> "idle"] /\ tries = [t \in Threads |-> 0]

-----------------------------------------------------------------------------
(* The kernel's next state is k1.  PendSV switches to rt_current_thread at *)
(* once, unless interrupts are off: then the code goes on that called.     *)
Becomes(k1) == k' = k1 /\ cpu' = IF masked THEN cpu ELSE k1.current

(* The code of thread t goes on. *)
Executes(t) == cpu = t /\ ~Due(k) /\ k.group # {}

(* rt_thread_sleep: it is rt_current_thread that is suspended. *)
Sleeps(time) == Becomes(rt_schedule(Sleep(k, k.current, time)))

(* rt_thread_detach, rt_thread_init and rt_thread_startup of thread u,     *)
(* which starts again.                                                     *)
Restart(k0, u) ==
  LET d == rt_schedule_remove_thread(k0, u)
      n == [d EXCEPT !.timers = Unlink(@, u), !.activated[u] = FALSE, !.timeout[u] = 0,
                     !.stat[u] = "suspend", !.prio[u] = Priority[u],
                     !.error[u] = "EOK", !.remaining[u] = Slice]
  IN  rt_schedule(rt_thread_resume(n, u))

(* The emergency thread takes its mail, switches interrupts off and        *)
(* restarts threads, or waits.                                             *)
rt_mb_recv ==
  /\ Executes(Stopper) /\ ~masked
  /\ \/ /\ mail
        /\ k' = FoldLeft(Restart, k, Restarted)
        /\ masked' = TRUE /\ mail' = FALSE /\ stopped' = 0
        /\ at' = [t \in Threads |->
                    IF t = Stopper THEN "send" ELSE IF t \in Range(Restarted) THEN "idle" ELSE at[t]]
        /\ tries' = [t \in Threads |-> IF at'[t] = "idle" \/ t = Stopper THEN 0 ELSE tries[t]]
        /\ UNCHANGED <<cpu, used>>
     \/ /\ ~mail
        /\ Becomes(rt_schedule(Wait(k, Stopper, MbEmergency, "FIFO", -1)))
        /\ UNCHANGED <<masked, mail, used, at, tries, stopped>>

(* rt_hw_interrupt_enable, when all motors have been stopped. *)
Enable ==
  /\ Executes(Stopper) /\ masked /\ at[Stopper] = "idle"
  /\ masked' = FALSE /\ cpu' = k.current
  /\ UNCHANGED <<k, mail, used, at, tries, stopped>>

-----------------------------------------------------------------------------
(* A frame is in a mailbox or has been given up: the emergency thread goes *)
(* on to its next motor, the others go on with their work.                 *)
Over(t) ==
  /\ stopped' = IF t = Stopper THEN stopped + 1 ELSE stopped
  /\ at' = [at EXCEPT ![t] = IF t = Stopper /\ stopped + 1 < Motors THEN "send" ELSE "idle"]
  /\ tries' = [tries EXCEPT ![t] = 0]

(* A turn of the loop of _can_senddata.  CAN_Transmit finds an empty       *)
(* mailbox or not; a frame that goes out at the last try is reported all   *)
(* the same.                                                               *)
_can_senddata(t) ==
  /\ Executes(t) /\ at[t] = "send"
  /\ \/ /\ used < Boxes
        /\ used' = used + 1
        /\ IF tries[t] < Tries THEN Over(t)
           ELSE at' = [at EXCEPT ![t] = "report"] /\ UNCHANGED <<tries, stopped>>
        /\ UNCHANGED <<k, cpu>>
     \/ /\ used = Boxes /\ tries[t] < Tries
        /\ tries' = [tries EXCEPT ![t] = @ + 1]
        /\ Sleeps(1)
        /\ UNCHANGED <<used, at, stopped>>
     \/ /\ used = Boxes /\ tries[t] = Tries
        /\ at' = [at EXCEPT ![t] = "report"]
        /\ UNCHANGED <<k, cpu, used, tries, stopped>>
  /\ UNCHANGED <<masked, mail>>

(* The end of _can_senddata after a failure: it sleeps once more. *)
Timeout(t) ==
  /\ Executes(t) /\ at[t] = "report"
  /\ Sleeps(Report) /\ Over(t)
  /\ UNCHANGED <<masked, mail, used>>

(* Another thread sends a command, or sleeps to the next round. *)
Command(t) ==
  /\ Executes(t) /\ t \notin {Stopper, Idle} /\ at[t] = "idle"
  /\ at' = [at EXCEPT ![t] = "send"]
  /\ UNCHANGED <<k, cpu, masked, mail, used, tries, stopped>>

Pause(t) ==
  /\ Executes(t) /\ t \notin {Stopper, Idle} /\ at[t] = "idle"
  /\ Sleeps(1)
  /\ UNCHANGED <<masked, mail, used, at, tries, stopped>>

-----------------------------------------------------------------------------
(* The emergency key. *)
Key ==
  /\ ~masked /\ ~Due(k) /\ ~mail
  /\ mail' = TRUE
  /\ Becomes(IF Waited(k, MbEmergency) THEN rt_schedule(rt_thread_resume(k, Stopper)) ELSE k)
  /\ UNCHANGED <<masked, used, at, tries, stopped>>

(* SysTick; the timers that are due follow before anything else. *)
Tick ==
  /\ ~masked /\ ~Due(k)
  /\ Becomes(rt_tick_increase(k))
  /\ UNCHANGED <<masked, mail, used, at, tries, stopped>>

rt_timer_check ==
  /\ ~masked /\ Due(k)
  /\ Becomes(rt_thread_timeout(k, Head(k.timers)))
  /\ UNCHANGED <<masked, mail, used, at, tries, stopped>>

(* The bus has carried a frame, whether interrupts are on or off. *)
Bus ==
  /\ used > 0 /\ used' = used - 1
  /\ UNCHANGED <<k, cpu, masked, mail, at, tries, stopped>>

Next ==
  \/ rt_mb_recv \/ Enable \/ Key \/ Tick \/ rt_timer_check \/ Bus
  \/ \E t \in Threads : _can_senddata(t) \/ Timeout(t) \/ Command(t) \/ Pause(t)

Spec == Init /\ [][Next]_vars

-----------------------------------------------------------------------------
(* rt_thread_sleep "will let current thread sleep" (src/src/thread.c): a   *)
(* thread goes from ready to suspended only by code of its own.            *)
SleepsItself ==
  [][\A t \in Threads : k.stat[t] = "ready" /\ k'.stat[t] = "suspend" => cpu = t]_vars
=============================================================================
