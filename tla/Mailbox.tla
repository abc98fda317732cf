------------------------------- MODULE Mailbox -------------------------------
(***************************************************************************)
(* The RT-Thread mailbox of src/src/ipc.c, the channel between every two   *)
(* threads of the robot (Mb_Key, Mb_Emergency, Mb_Auto, Mb_Arm): a ring    *)
(* of Size mails, a list of suspended receivers and a list of suspended    *)
(* senders.  Every step below is one stretch of code that runs with        *)
(* interrupts off, so the steps of different threads and of interrupt      *)
(* handlers (which only ever send with timeout 0) interleave freely; a     *)
(* thread that was resumed runs at some later moment.                      *)
(*                                                                         *)
(* Ticks are abstracted to what the code tests: a timeout is Forever (<0), *)
(* 0, or Some (>0); when a resumed thread recomputes what is left of Some  *)
(* it may find 0.                                                          *)
(***************************************************************************)
EXTENDS Integers, Sequences, FiniteSets, IpcList

CONSTANTS
  Senders, Receivers,  \* threads (or interrupt handlers) using this mailbox
  Mail, NoMail,        \* the 32-bit values sent; no value
  Size,                \* capacity of msg_pool, 32 in applications/mb.c
  Flag,                \* "FIFO" (RT_IPC_FLAG_FIFO) or "PRIO" (RT_IPC_FLAG_PRIO)
  Priority,            \* thread priorities, a smaller number is more urgent
  Restartable          \* receivers that rt_thread_detach may hit at any time

Threads == Senders \cup Receivers

ASSUME ThreadsAssumption == IsFiniteSet(Threads)
ASSUME SizeAssumption == Size \in Nat \ {0}
ASSUME FlagAssumption == Flag \in {"FIFO", "PRIO"}
ASSUME PriorityAssumption == Priority \in [Threads -> Nat]
ASSUME MailAssumption == NoMail \notin Mail
(* A thread that is detached while the mailbox lives on is its only        *)
(* receiver and never waits to send: thread_keyboard on Mb_Key.            *)
ASSUME RestartAssumption ==
  /\ Restartable \subseteq Receivers \ Senders
  /\ \A t \in Restartable : Receivers = {t}

Forever == -1
Some == 1
Timeouts == {Forever, 0, Some}

VARIABLES
  msg_pool, entry, in_offset, out_offset,  \* struct rt_mailbox: the ring
  suspend_thread,         \* mb->parent.suspend_thread: waiting receivers
  suspend_sender_thread,  \* waiting senders
  stat,                   \* thread->stat: "ready" or "suspend"
  error,                  \* thread->error
  op,                     \* the call a thread is blocked in: "none", "send", "recv"
  timeout, value,         \* its arguments
  ret                     \* outcome of the last call

ring == <<msg_pool, entry, in_offset, out_offset>>
lists == <<suspend_thread, suspend_sender_thread>>
call == <<op, timeout, value>>
vars == <<ring, lists, stat, error, call, ret>>

Outcome(code, mail) == [code |-> code, mail |-> mail]

Init ==
  /\ msg_pool = [i \in 0..Size-1 |-> NoMail]
  /\ entry = 0 /\ in_offset = 0 /\ out_offset = 0
  /\ suspend_thread = <<>> /\ suspend_sender_thread = <<>>
  /\ stat = [t \in Threads |-> "ready"]
  /\ error = [t \in Threads |-> "EOK"]
  /\ op = [t \in Threads |-> "none"]
  /\ timeout = [t \in Threads |-> 0]
  /\ value = [t \in Threads |-> NoMail]
  /\ ret = [t \in Threads |-> Outcome("none", NoMail)]

-----------------------------------------------------------------------------
(* Mutant of Wrap: off by one. *)
WrapLate(i) == IF i > Size THEN 0 ELSE i

Wrap(i) == IF i >= Size THEN 0 ELSE i

(* The call of thread t returns. *)
Return(t, code, mail) ==
  /\ op' = [op EXCEPT ![t] = "none"]
  /\ timeout' = [timeout EXCEPT ![t] = 0]
  /\ value' = [value EXCEPT ![t] = NoMail]
  /\ ret' = [ret EXCEPT ![t] = Outcome(code, mail)]

(* Mutant of Suspend: the error of an earlier call is not reset. *)
SuspendKeepsError(t, o, to, v) ==
  /\ stat' = [stat EXCEPT ![t] = "suspend"]
  /\ op' = [op EXCEPT ![t] = o]
  /\ timeout' = [timeout EXCEPT ![t] = to]
  /\ value' = [value EXCEPT ![t] = v]
  /\ ret' = [ret EXCEPT ![t] = Outcome("pending", NoMail)]
  /\ UNCHANGED error

(* Thread t is suspended inside call o with error reset. *)
Suspend(t, o, to, v) ==
  /\ stat' = [stat EXCEPT ![t] = "suspend"]
  /\ error' = [error EXCEPT ![t] = "EOK"]
  /\ op' = [op EXCEPT ![t] = o]
  /\ timeout' = [timeout EXCEPT ![t] = to]
  /\ value' = [value EXCEPT ![t] = v]
  /\ ret' = [ret EXCEPT ![t] = Outcome("pending", NoMail)]

-----------------------------------------------------------------------------
(* Mutant of Put: receivers are resumed only when the box was empty. *)
PutWakesIfEmpty(t, v) ==
  /\ entry # Size
  /\ msg_pool' = [msg_pool EXCEPT ![in_offset] = v]
  /\ in_offset' = Wrap(in_offset + 1)
  /\ entry' = entry + 1
  /\ suspend_thread' = IF entry = 0 THEN Resumed(suspend_thread) ELSE suspend_thread
  /\ stat' = IF entry = 0 THEN Ready(suspend_thread, stat) ELSE stat
  /\ Return(t, "EOK", NoMail)
  /\ UNCHANGED <<out_offset, suspend_sender_thread, error>>

(* Mutant of Put: in_offset is advanced before the mail is stored. *)
PutBehind(t, v) ==
  /\ entry # Size
  /\ msg_pool' = [msg_pool EXCEPT ![Wrap(in_offset + 1)] = v]
  /\ in_offset' = Wrap(in_offset + 1)
  /\ entry' = entry + 1
  /\ suspend_thread' = Resumed(suspend_thread)
  /\ stat' = Ready(suspend_thread, stat)
  /\ Return(t, "EOK", NoMail)
  /\ UNCHANGED <<out_offset, suspend_sender_thread, error>>

(* rt_mb_send_wait: the tail of the function, with a free slot. *)
Put(t, v) ==
  /\ entry # Size
  /\ msg_pool' = [msg_pool EXCEPT ![in_offset] = v]
  /\ in_offset' = Wrap(in_offset + 1)
  /\ entry' = entry + 1
  /\ suspend_thread' = Resumed(suspend_thread)
  /\ stat' = Ready(suspend_thread, stat)
  /\ Return(t, "EOK", NoMail)
  /\ UNCHANGED <<out_offset, suspend_sender_thread, error>>

SendSuspend(t, v, to) ==
  /\ entry = Size /\ to # 0
  /\ suspend_sender_thread' = ListSuspend(suspend_sender_thread, t, Flag, Priority)
  /\ Suspend(t, "send", to, v)
  /\ UNCHANGED <<ring, suspend_thread>>

SendFull(t, to) ==
  /\ entry = Size /\ to = 0
  /\ Return(t, "EFULL", NoMail)
  /\ UNCHANGED <<ring, lists, stat>>

(* rt_mb_send is rt_mb_send_wait with timeout 0. *)
rt_mb_send_wait(t, v, to) ==
  /\ op[t] = "none"
  /\ \/ Put(t, v)
     \/ SendSuspend(t, v, to)
     \/ SendFull(t, to) /\ UNCHANGED error

(* Mutant of TimeLeft: a negative timeout is counted down as well. *)
TimeLeftOfAny(t) == {0, timeout[t]}

(* What is left of a timeout when a resumed thread looks at the clock. *)
TimeLeft(t) == IF timeout[t] = Some THEN {0, Some} ELSE {timeout[t]}

(* A sender comes back from rt_schedule: an error ends the call, otherwise *)
(* the while loop tests the mailbox again.                                 *)
SendResumed(t) ==
  /\ op[t] = "send" /\ stat[t] = "ready"
  /\ \/ /\ error[t] # "EOK"
        /\ Return(t, error[t], NoMail)
        /\ UNCHANGED <<ring, lists, stat, error>>
     \/ /\ error[t] = "EOK"
        /\ \E to \in TimeLeft(t) :
              \/ Put(t, value[t])
              \/ SendSuspend(t, value[t], to)
              \/ SendFull(t, to) /\ UNCHANGED error

(* Mutant of Get: no suspended sender is resumed. *)
GetWakesNobody(t) ==
  /\ entry # 0
  /\ out_offset' = Wrap(out_offset + 1)
  /\ entry' = entry - 1
  /\ Return(t, "EOK", msg_pool[out_offset])
  /\ UNCHANGED <<msg_pool, in_offset, lists, stat, error>>

(* rt_mb_recv: the tail of the function, with a mail to take. *)
Get(t) ==
  /\ entry # 0
  /\ out_offset' = Wrap(out_offset + 1)
  /\ entry' = entry - 1
  /\ suspend_sender_thread' = Resumed(suspend_sender_thread)
  /\ stat' = Ready(suspend_sender_thread, stat)
  /\ Return(t, "EOK", msg_pool[out_offset])
  /\ UNCHANGED <<msg_pool, in_offset, suspend_thread, error>>

RecvSuspend(t, to) ==
  /\ entry = 0 /\ to # 0
  /\ suspend_thread' = ListSuspend(suspend_thread, t, Flag, Priority)
  /\ Suspend(t, "recv", to, NoMail)
  /\ UNCHANGED <<ring, suspend_sender_thread>>

RecvEmpty(t, to) ==
  /\ entry = 0 /\ to = 0
  /\ Return(t, "ETIMEOUT", NoMail)
  /\ UNCHANGED <<ring, lists, stat>>

rt_mb_recv(t, to) ==
  /\ op[t] = "none"
  /\ \/ Get(t)
     \/ RecvSuspend(t, to)
     \/ RecvEmpty(t, to) /\ UNCHANGED error

(* Mutant of RecvResumed: a resumed receiver spins as long as there is     *)
(* mail, and looks at the clock only when the mailbox is empty.            *)
RecvResumedSpins(t) ==
  /\ op[t] = "recv" /\ stat[t] = "ready"
  /\ \/ /\ error[t] # "EOK"
        /\ Return(t, error[t], NoMail)
        /\ UNCHANGED <<ring, lists, stat, error>>
     \/ /\ error[t] = "EOK"
        /\ \E to \in TimeLeft(t) :
              \/ RecvSuspend(t, to)
              \/ /\ RecvEmpty(t, to)
                 /\ error' = [error EXCEPT ![t] = "ETIMEOUT"]

(* A receiver comes back from rt_schedule, like a sender in SendResumed.   *)
RecvResumed(t) ==
  /\ op[t] = "recv" /\ stat[t] = "ready"
  /\ \/ /\ error[t] # "EOK"
        /\ Return(t, error[t], NoMail)
        /\ UNCHANGED <<ring, lists, stat, error>>
     \/ /\ error[t] = "EOK"
        /\ \E to \in TimeLeft(t) :
              \/ Get(t)
              \/ RecvSuspend(t, to)
              \/ /\ RecvEmpty(t, to)
                 /\ error' = [error EXCEPT ![t] = "ETIMEOUT"]

-----------------------------------------------------------------------------
(* Mutant of rt_thread_timeout: the thread stays linked. *)
TimeoutStaysLinked(t) ==
  /\ stat[t] = "suspend" /\ timeout[t] = Some
  /\ stat' = [stat EXCEPT ![t] = "ready"]
  /\ error' = [error EXCEPT ![t] = "ETIMEOUT"]
  /\ UNCHANGED <<ring, lists, call, ret>>

(* The timer of a suspended thread runs out before it is resumed. *)
rt_thread_timeout(t) ==
  /\ stat[t] = "suspend" /\ timeout[t] = Some
  /\ stat' = [stat EXCEPT ![t] = "ready"]
  /\ error' = [error EXCEPT ![t] = "ETIMEOUT"]
  /\ suspend_thread' = Unlink(suspend_thread, t)
  /\ suspend_sender_thread' = Unlink(suspend_sender_thread, t)
  /\ UNCHANGED <<ring, call, ret>>

(* The threads linked in the two suspend lists. *)
Linked == Range(suspend_thread) \cup Range(suspend_sender_thread)

(* rt_ipc_list_resume_all on both lists. *)
ResumeAll ==
  /\ suspend_thread' = <<>>
  /\ suspend_sender_thread' = <<>>
  /\ stat' = [t \in Threads |-> IF t \in Linked THEN "ready" ELSE stat[t]]
  /\ error' = [t \in Threads |-> IF t \in Linked THEN "ERROR" ELSE error[t]]

(* Mutant of Reset: out_offset is not cleared. *)
ResetKeepsOut ==
  /\ ResumeAll
  /\ entry' = 0 /\ in_offset' = 0
  /\ UNCHANGED <<msg_pool, out_offset, call, ret>>

(* rt_mb_control(RT_IPC_CMD_RESET); rt_mb_detach followed by rt_mb_init    *)
(* (the emergency thread, with interrupts off) has the same effect.        *)
Reset ==
  /\ ResumeAll
  /\ entry' = 0 /\ in_offset' = 0 /\ out_offset' = 0
  /\ UNCHANGED <<msg_pool, call, ret>>

(* rt_thread_detach, rt_thread_init and rt_thread_startup of a receiver,   *)
(* whatever it was doing (the emergency thread restarts thread_keyboard).  *)
rt_thread_detach(t) ==
  /\ suspend_thread' = Unlink(suspend_thread, t)
  /\ stat' = [stat EXCEPT ![t] = "ready"]
  /\ error' = [error EXCEPT ![t] = "EOK"]
  /\ Return(t, "none", NoMail)
  /\ UNCHANGED <<ring, suspend_sender_thread>>

Next ==
  \/ \E t \in Senders, v \in Mail, to \in Timeouts : rt_mb_send_wait(t, v, to)
  \/ \E t \in Senders : SendResumed(t)
  \/ \E t \in Receivers, to \in Timeouts : rt_mb_recv(t, to)
  \/ \E t \in Receivers : RecvResumed(t)
  \/ \E t \in Threads : rt_thread_timeout(t)
  \/ Reset
  \/ \E t \in Restartable : rt_thread_detach(t)

Spec == Init /\ [][Next]_vars

(* A thread that is ready gets the processor eventually: every thread of   *)
(* the robot sleeps or blocks in each round of its loop.                   *)
FairSpec ==
  /\ Spec
  /\ \A t \in Senders : WF_vars(SendResumed(t))
  /\ \A t \in Receivers : WF_vars(RecvResumed(t))

-----------------------------------------------------------------------------
(* Type correctness of the mailbox and of the threads that use it.         *)
TypeOK ==
  /\ msg_pool \in [0..Size-1 -> Mail \cup {NoMail}]
  /\ entry \in 0..Size /\ in_offset \in 0..Size-1 /\ out_offset \in 0..Size-1
  /\ suspend_thread \in Seq(Receivers)
  /\ suspend_sender_thread \in Seq(Senders)
  /\ stat \in [Threads -> {"ready", "suspend"}]
  /\ error \in [Threads -> {"EOK", "ETIMEOUT", "ERROR"}]
  /\ op \in [Threads -> {"none", "send", "recv"}]
  /\ timeout \in [Threads -> Timeouts]
  /\ value \in [Threads -> Mail \cup {NoMail}]
  /\ ret \in [Threads -> [code : {"none", "pending", "EOK", "EFULL", "ETIMEOUT", "ERROR"},
                          mail : Mail \cup {NoMail}]]

Suspended(o) == {t \in Threads : stat[t] = "suspend" /\ op[t] = o}

(* A thread is suspended exactly while it is linked, once, in the suspend  *)
(* list of its call: rt_thread_resume, rt_thread_timeout, resume_all and   *)
(* rt_thread_detach never leave a thread asleep that no later send,        *)
(* receive or reset can find, nor a stale entry that a later rt_list       *)
(* operation would follow.                                                 *)
SuspendedIffLinked ==
  /\ Distinct(suspend_thread) /\ Range(suspend_thread) = Suspended("recv")
  /\ Distinct(suspend_sender_thread) /\ Range(suspend_sender_thread) = Suspended("send")
  /\ Suspended("none") = {}

(* A thread blocked in a call is one that may make it, holds the mail it   *)
(* sends, has not been told an outcome, and carries no error while it is   *)
(* suspended: an error that a resumed thread finds in thread->error was    *)
(* put there during this very wait, by its timer or by a reset.            *)
CallState ==
  \A t \in Threads :
    /\ op[t] = "recv" => t \in Receivers
    /\ op[t] = "send" => t \in Senders /\ value[t] \in Mail
    /\ op[t] # "none" => ret[t] = Outcome("pending", NoMail) /\ timeout[t] # 0
    /\ stat[t] = "suspend" => error[t] = "EOK"

(* The two offsets and the entry count of the ring agree: the next mail    *)
(* is written right behind the newest unread one.                          *)
RingConsistent ==
  in_offset = (IF out_offset + entry >= Size
               THEN out_offset + entry - Size ELSE out_offset + entry)

(* Threads resumed inside call o (with no error) that have not run yet.    *)
Woken(o) == {t \in Threads : op[t] = o /\ stat[t] = "ready" /\ error[t] = "EOK"}

(* No lost wakeup, receiving side: as long as a receiver sleeps, every     *)
(* mail in the box has its own resumed receiver on the way to fetch it.    *)
(* rt_mb_send_wait resumes one receiver per mail; the resumed receiver may *)
(* be overtaken by another one that calls rt_mb_recv first.                *)
NoLostMail == suspend_thread # <<>> => entry <= Cardinality(Woken("recv"))

(* No lost wakeup, sending side: as long as a sender sleeps, every free    *)
(* slot has its own resumed sender on the way to fill it.                  *)
NoLostSlot ==
  suspend_sender_thread # <<>> => Size - entry <= Cardinality(Woken("send"))

(* With RT_IPC_FLAG_PRIO the suspend lists stay sorted by priority, so the *)
(* first thread, the one rt_ipc_list_resume picks, is a most urgent one,   *)
(* whatever timeouts and resets removed from the middle.                   *)
MostUrgentFirst ==
  Flag = "PRIO" =>
    Sorted(suspend_thread, Priority) /\ Sorted(suspend_sender_thread, Priority)

(* The inductive invariant. *)
IInv ==
  /\ TypeOK /\ CallState
  /\ SuspendedIffLinked /\ MostUrgentFirst
  /\ RingConsistent /\ NoLostMail /\ NoLostSlot

(* A call that waits forever (RT_WAITING_FOREVER, all receives of the      *)
(* robot's threads) ends with success, with the -RT_ERROR of a reset, or   *)
(* with its thread restarted: never with a timeout or a full mailbox, even *)
(* when it was resumed and found the mail or the slot taken again.         *)
ForeverIsForever ==
  [][\A t \in Threads :
        op[t] # "none" /\ timeout[t] = Forever /\ op'[t] = "none"
          => ret'[t].code \in {"EOK", "ERROR", "none"}]_vars

(* The mails in the ring, oldest first. *)
Slot(i) == IF out_offset + i - 1 >= Size THEN out_offset + i - 1 - Size
                                         ELSE out_offset + i - 1
Contents == [i \in 1..entry |-> msg_pool[Slot(i)]]

(* The mailbox implements a bounded FIFO (MailFifo): mails come out in the *)
(* order they went in, each once, none is invented and none is lost except *)
(* by a reset, and a failing call leaves the mails alone.                  *)
Fifo == INSTANCE MailFifo WITH queue <- Contents
ImplementsFifo == Fifo!Spec

(* Mail never waits beside sleeping receivers: either the situation ends   *)
(* or receives keep succeeding.                                            *)
WakeupsDeliver ==
  \/ []<>(entry = 0 \/ suspend_thread = <<>>)
  \/ []<><<entry' = entry - 1>>_vars
=============================================================================
