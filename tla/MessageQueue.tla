---------------------------- MODULE MessageQueue ----------------------------
(***************************************************************************)
(* The RT-Thread message queue of src/src/ipc.c, which carries the log     *)
(* lines of all threads (SD_Printf_MQ) to the file system thread: a pool   *)
(* of blocks on a free list and a linked queue.  Messages are copied with  *)
(* interrupts ON, in blocks that belong to no list at that moment, so a    *)
(* call is several steps: between them other threads run, and the thread   *)
(* may be restarted (SD_ReInit detaches the file system thread, the        *)
(* emergency thread detaches the threads that write log lines).            *)
(***************************************************************************)
EXTENDS Integers, Sequences, SequencesExt, IpcList

CONSTANTS
  Senders, Receivers,
  Urgents,               \* the senders that use rt_mq_urgent
  Message, NoMessage,
  max_msgs,              \* blocks in the pool, 62 for mq_sd
  Restartable            \* threads that rt_thread_detach may hit at any time

Threads == Senders \cup Receivers

ASSUME MaxAssumption == max_msgs \in Nat \ {0}
ASSUME MessageAssumption == NoMessage \notin Message
ASSUME UrgentsAssumption == Urgents \subseteq Senders
(* A receiver that is detached is the only one: the file system thread. *)
ASSUME RestartAssumption == \A t \in Restartable \cap Receivers : Receivers = {t}

Blocks == 1 .. max_msgs
Null == 0
Forever == -1
Some == 1

VARIABLES
  next, data,                      \* struct rt_mq_message: the link, the bytes behind it
  msg_queue_head, msg_queue_tail, msg_queue_free, entry,
  suspend_thread,
  stat, error,                     \* of the threads
  pc,                              \* where a thread is inside its call
  msg,                             \* the block it has taken
  buffer,                          \* the message it sends, or has received
  timeout,
  lost                             \* blocks that restarted threads had taken (history)

list == <<msg_queue_head, msg_queue_tail, msg_queue_free, entry>>
thread == <<stat, error, suspend_thread, timeout>>
vars == <<next, data, list, thread, pc, msg, buffer, lost>>

(* rt_mq_init *)
Init ==
  /\ next = [b \in Blocks |-> b - 1]
  /\ data = [b \in Blocks |-> NoMessage]
  /\ msg_queue_head = Null /\ msg_queue_tail = Null
  /\ msg_queue_free = max_msgs
  /\ entry = 0
  /\ suspend_thread = <<>>
  /\ stat = [t \in Threads |-> "ready"]
  /\ error = [t \in Threads |-> "EOK"]
  /\ pc = [t \in Threads |-> "none"]
  /\ msg = [t \in Threads |-> Null]
  /\ buffer = [t \in Threads |-> NoMessage]
  /\ timeout = [t \in Threads |-> 0]
  /\ lost = {}

-----------------------------------------------------------------------------
(* rt_mq_send and rt_mq_urgent: the first free block is taken; with none   *)
(* left they return -RT_EFULL at once.                                     *)
Take(t, v, then) ==
  /\ pc[t] = "none"
  /\ msg_queue_free # Null
  /\ msg' = [msg EXCEPT ![t] = msg_queue_free]
  /\ msg_queue_free' = next[msg_queue_free]
  /\ buffer' = [buffer EXCEPT ![t] = v]
  /\ pc' = [pc EXCEPT ![t] = then]
  /\ UNCHANGED <<next, data, msg_queue_head, msg_queue_tail, entry, thread, lost>>

(* Interrupts are on again: the message is copied into the block. *)
Fill(t) ==
  /\ pc[t] \in {"fill", "fill urgent"}
  /\ next' = IF pc[t] = "fill" THEN [next EXCEPT ![msg[t]] = Null] ELSE next
  /\ data' = [data EXCEPT ![msg[t]] = buffer[t]]
  /\ pc' = [pc EXCEPT ![t] = IF pc[t] = "fill" THEN "link" ELSE "link urgent"]
  /\ UNCHANGED <<list, thread, msg, buffer, lost>>

(* Mutant of Sent: no receiver is resumed for the first message. *)
SentWakesIfMore(t) ==
  /\ entry' = entry + 1
  /\ suspend_thread' = IF entry # 0 THEN Resumed(suspend_thread) ELSE suspend_thread
  /\ stat' = IF entry # 0 THEN Ready(suspend_thread, stat) ELSE stat
  /\ pc' = [pc EXCEPT ![t] = "none"]
  /\ msg' = [msg EXCEPT ![t] = Null]
  /\ buffer' = [buffer EXCEPT ![t] = NoMessage]
  /\ UNCHANGED <<data, msg_queue_free, error, timeout, lost>>

(* The call of a sender returns, after one receiver has been resumed. *)
Sent(t) ==
  /\ entry' = entry + 1
  /\ suspend_thread' = Resumed(suspend_thread)
  /\ stat' = Ready(suspend_thread, stat)
  /\ pc' = [pc EXCEPT ![t] = "none"]
  /\ msg' = [msg EXCEPT ![t] = Null]
  /\ buffer' = [buffer EXCEPT ![t] = NoMessage]
  /\ UNCHANGED <<data, msg_queue_free, error, timeout, lost>>

(* rt_mq_send: the block becomes the tail of the queue. *)
Link(t) ==
  /\ pc[t] = "link"
  /\ next' = IF msg_queue_tail = Null THEN next ELSE [next EXCEPT ![msg_queue_tail] = msg[t]]
  /\ msg_queue_tail' = msg[t]
  /\ msg_queue_head' = IF msg_queue_head = Null THEN msg[t] ELSE msg_queue_head
  /\ Sent(t)

(* Mutant of LinkUrgent: the block becomes the tail, as in rt_mq_send. *)
LinkUrgentLast(t) ==
  /\ pc[t] = "link urgent"
  /\ next' = IF msg_queue_tail = Null THEN [next EXCEPT ![msg[t]] = Null]
             ELSE [next EXCEPT ![msg_queue_tail] = msg[t], ![msg[t]] = Null]
  /\ msg_queue_tail' = msg[t]
  /\ msg_queue_head' = IF msg_queue_head = Null THEN msg[t] ELSE msg_queue_head
  /\ Sent(t)

(* rt_mq_urgent: the block becomes the head of the queue. *)
LinkUrgent(t) ==
  /\ pc[t] = "link urgent"
  /\ next' = [next EXCEPT ![msg[t]] = msg_queue_head]
  /\ msg_queue_head' = msg[t]
  /\ msg_queue_tail' = IF msg_queue_tail = Null THEN msg[t] ELSE msg_queue_tail
  /\ Sent(t)

-----------------------------------------------------------------------------
(* Mutant of Unqueue: the tail is left pointing at the block taken. *)
UnqueueKeepsTail(t) ==
  /\ entry # 0
  /\ msg' = [msg EXCEPT ![t] = msg_queue_head]
  /\ msg_queue_head' = next[msg_queue_head]
  /\ entry' = entry - 1
  /\ pc' = [pc EXCEPT ![t] = "copy"]
  /\ timeout' = [timeout EXCEPT ![t] = 0]
  /\ UNCHANGED <<next, data, msg_queue_free, msg_queue_tail, stat, error, suspend_thread, buffer, lost>>

(* Mutant of Unqueue: the block goes back to the free list at once. *)
UnqueueFrees(t) ==
  /\ entry # 0
  /\ msg' = [msg EXCEPT ![t] = msg_queue_head]
  /\ msg_queue_head' = next[msg_queue_head]
  /\ msg_queue_tail' = IF msg_queue_tail = msg_queue_head THEN Null ELSE msg_queue_tail
  /\ next' = [next EXCEPT ![msg_queue_head] = msg_queue_free]
  /\ msg_queue_free' = msg_queue_head
  /\ entry' = entry - 1
  /\ pc' = [pc EXCEPT ![t] = "copy"]
  /\ timeout' = [timeout EXCEPT ![t] = 0]
  /\ UNCHANGED <<data, stat, error, suspend_thread, buffer, lost>>

(* rt_mq_recv, once entry is not 0: the head is taken off the queue. *)
Unqueue(t) ==
  /\ entry # 0
  /\ msg' = [msg EXCEPT ![t] = msg_queue_head]
  /\ msg_queue_head' = next[msg_queue_head]
  /\ msg_queue_tail' = IF msg_queue_tail = msg_queue_head THEN Null ELSE msg_queue_tail
  /\ entry' = entry - 1
  /\ pc' = [pc EXCEPT ![t] = "copy"]
  /\ timeout' = [timeout EXCEPT ![t] = 0]
  /\ UNCHANGED <<next, data, msg_queue_free, stat, error, suspend_thread, buffer, lost>>

Suspend(t, to) ==
  /\ entry = 0 /\ to # 0
  /\ error' = [error EXCEPT ![t] = "EOK"]
  /\ stat' = [stat EXCEPT ![t] = "suspend"]
  /\ suspend_thread' = ListSuspend(suspend_thread, t, "FIFO", <<>>)
  /\ timeout' = [timeout EXCEPT ![t] = to]
  /\ pc' = [pc EXCEPT ![t] = "wait"]
  /\ UNCHANGED <<next, data, list, msg, buffer, lost>>

(* The call returns without a message. *)
Fail(t) ==
  /\ pc' = [pc EXCEPT ![t] = "none"]
  /\ timeout' = [timeout EXCEPT ![t] = 0]
  /\ UNCHANGED <<next, data, list, stat, suspend_thread, msg, buffer, lost>>

(* A new call is made with the caller's buffer cleared (rt_memset). *)
Clear(t) ==
  /\ pc[t] = "none" /\ buffer[t] # NoMessage
  /\ buffer' = [buffer EXCEPT ![t] = NoMessage]
  /\ UNCHANGED <<next, data, list, thread, pc, msg, lost>>

rt_mq_recv(t, to) ==
  /\ pc[t] = "none" /\ buffer[t] = NoMessage
  /\ Unqueue(t) \/ Suspend(t, to)

(* What is left of a timeout when a resumed thread looks at the clock. *)
TimeLeft(t) == IF timeout[t] = Some THEN {0, Some} ELSE {timeout[t]}

(* A receiver comes back from rt_schedule. *)
RecvResumed(t) ==
  /\ pc[t] = "wait" /\ stat[t] = "ready"
  /\ \/ error[t] # "EOK" /\ Fail(t) /\ UNCHANGED error
     \/ /\ error[t] = "EOK"
        /\ \/ Unqueue(t)
           \/ \E to \in TimeLeft(t) :
                \/ Suspend(t, to)
                \/ /\ entry = 0 /\ to = 0
                   /\ Fail(t)
                   /\ error' = [error EXCEPT ![t] = "ETIMEOUT"]

(* With interrupts on again the message is copied out of the block. *)
CopyOut(t) ==
  /\ pc[t] = "copy"
  /\ buffer' = [buffer EXCEPT ![t] = data[msg[t]]]
  /\ pc' = [pc EXCEPT ![t] = "free"]
  /\ UNCHANGED <<next, data, list, thread, msg, lost>>

(* The block goes back to the free list and the call returns. *)
Free(t) ==
  /\ pc[t] = "free"
  /\ next' = [next EXCEPT ![msg[t]] = msg_queue_free]
  /\ msg_queue_free' = msg[t]
  /\ pc' = [pc EXCEPT ![t] = "none"]
  /\ msg' = [msg EXCEPT ![t] = Null]
  /\ UNCHANGED <<data, msg_queue_head, msg_queue_tail, entry, thread, buffer, lost>>

-----------------------------------------------------------------------------
(* The timer of a suspended receiver runs out. *)
rt_thread_timeout(t) ==
  /\ stat[t] = "suspend" /\ timeout[t] = Some
  /\ stat' = [stat EXCEPT ![t] = "ready"]
  /\ error' = [error EXCEPT ![t] = "ETIMEOUT"]
  /\ suspend_thread' = Unlink(suspend_thread, t)
  /\ UNCHANGED <<next, data, list, timeout, pc, msg, buffer, lost>>

(* The blocks from b on, along next; a list that does not end within the   *)
(* pool shows as one that is too long.                                     *)
Chain(b) ==
  LET follow[k \in 0 .. max_msgs] ==
        IF k = 0 THEN (IF b = Null THEN <<>> ELSE <<b>>)
        ELSE IF follow[k-1] = <<>> \/ next[Last(follow[k-1])] = Null THEN follow[k-1]
        ELSE Append(follow[k-1], next[Last(follow[k-1])])
  IN follow[max_msgs]

Queue == Chain(msg_queue_head)
FreeList == Chain(msg_queue_free)

(* rt_mq_control(RT_IPC_CMD_RESET): the receivers are resumed with         *)
(* -RT_ERROR and the queued blocks are freed one after the other.          *)
Reset ==
  /\ suspend_thread' = <<>>
  /\ stat' = [t \in Threads |-> IF t \in Range(suspend_thread) THEN "ready" ELSE stat[t]]
  /\ error' = [t \in Threads |-> IF t \in Range(suspend_thread) THEN "ERROR" ELSE error[t]]
  /\ LET freed == Reverse(Queue) \o <<msg_queue_free>>
         place(b) == CHOOSE i \in 1 .. Len(Queue) : freed[i] = b
     IN /\ msg_queue_free' = freed[1]
        /\ next' = [b \in Blocks |-> IF b \in Range(Queue) THEN freed[place(b) + 1] ELSE next[b]]
  /\ msg_queue_head' = Null /\ msg_queue_tail' = Null
  /\ entry' = 0
  /\ UNCHANGED <<data, timeout, pc, msg, buffer, lost>>

(* rt_thread_detach and a fresh start: a block the thread has taken is in  *)
(* neither list and nobody returns it.                                     *)
rt_thread_detach(t) ==
  /\ pc[t] # "none"
  /\ suspend_thread' = Unlink(suspend_thread, t)
  /\ stat' = [stat EXCEPT ![t] = "ready"]
  /\ error' = [error EXCEPT ![t] = "EOK"]
  /\ timeout' = [timeout EXCEPT ![t] = 0]
  /\ pc' = [pc EXCEPT ![t] = "none"]
  /\ msg' = [msg EXCEPT ![t] = Null]
  /\ buffer' = [buffer EXCEPT ![t] = NoMessage]
  /\ lost' = lost \cup ({msg[t]} \ {Null})
  /\ UNCHANGED <<next, data, list>>

rt_mq_send(t) ==
  \/ \E v \in Message : Take(t, v, "fill")
  \/ Fill(t)
  \/ Link(t)

rt_mq_urgent(t) ==
  \/ \E v \in Message : Take(t, v, "fill urgent")
  \/ LinkUrgent(t)

Next ==
  \/ \E t \in Senders : rt_mq_send(t)
  \/ \E t \in Urgents : rt_mq_urgent(t)
  \/ \E t \in Receivers : \E to \in {Forever, Some} : rt_mq_recv(t, to)
  \/ \E t \in Receivers : RecvResumed(t) \/ CopyOut(t) \/ Free(t) \/ Clear(t)
  \/ \E t \in Receivers : rt_thread_timeout(t)
  \/ Reset
  \/ \E t \in Restartable : rt_thread_detach(t)

Spec == Init /\ [][Next]_vars

-----------------------------------------------------------------------------
(* Type correctness of the queue and of the threads that use it.           *)
TypeOK ==
  /\ next \in [Blocks -> Blocks \cup {Null}]
  /\ data \in [Blocks -> Message \cup {NoMessage}]
  /\ {msg_queue_head, msg_queue_tail, msg_queue_free} \subseteq Blocks \cup {Null}
  /\ entry \in 0 .. max_msgs
  /\ suspend_thread \in Seq(Receivers)
  /\ stat \in [Threads -> {"ready", "suspend"}]
  /\ error \in [Threads -> {"EOK", "ETIMEOUT", "ERROR"}]
  /\ pc \in [Threads -> {"none", "fill", "fill urgent", "link", "link urgent",
                         "wait", "copy", "free"}]
  /\ msg \in [Threads -> Blocks \cup {Null}]
  /\ buffer \in [Threads -> Message \cup {NoMessage}]
  /\ timeout \in [Threads -> {Forever, 0, Some}]
  /\ lost \subseteq Blocks

(* The blocks threads have taken and not yet linked or freed. *)
Held == {msg[t] : t \in Threads} \ {Null}

(* Every block of the pool is in exactly one place: in the queue, on the   *)
(* free list, with one thread, or lost with a thread that was restarted in *)
(* the middle of a copy.  A block in two places would be overwritten while *)
(* it waits to be read; a block in none shrinks the queue for good.        *)
BlocksConserved ==
  /\ IsInjective(Queue \o FreeList)
  /\ Range(Queue) \cap Range(FreeList) = {}
  /\ \A s, t \in Threads : msg[s] = msg[t] /\ msg[s] # Null => s = t
  /\ Held \cap (Range(Queue) \cup Range(FreeList) \cup lost) = {}
  /\ lost \cap (Range(Queue) \cup Range(FreeList)) = {}
  /\ Range(Queue) \cup Range(FreeList) \cup Held \cup lost = Blocks

(* entry and msg_queue_tail, which rt_mq_send, rt_mq_urgent, rt_mq_recv    *)
(* and the reset update separately from the links, agree with the links,   *)
(* and every field stays in its type.                                      *)
QueueConsistent ==
  /\ TypeOK
  /\ entry = Len(Queue)
  /\ msg_queue_tail = (IF Queue = <<>> THEN Null ELSE Last(Queue))

Woken == {t \in Threads : pc[t] = "wait" /\ stat[t] = "ready" /\ error[t] = "EOK"}

(* No lost wakeup: while a receiver sleeps, every message in the queue has *)
(* its own resumed receiver on the way to fetch it.                        *)
NoLostMessage == suspend_thread # <<>> => entry <= Cardinality(Woken)

(* The message a receiver's call has obtained: in its block until it is    *)
(* copied, then in its buffer.                                             *)
Got(t) == IF pc[t] = "copy" THEN data[msg[t]] ELSE buffer[t]

(* The message a sender's call has still to link, and at which end.        *)
Sending(t) ==
  IF pc[t] \in {"fill", "link", "fill urgent", "link urgent"}
  THEN [message |-> buffer[t], urgent |-> pc[t] \in {"fill urgent", "link urgent"}]
  ELSE [message |-> NoMessage, urgent |-> FALSE]

(* Messages are received in order, urgent ones first, and with the         *)
(* contents they were sent with, although they are copied with interrupts  *)
(* on while other threads take, fill, link and free blocks.                *)
Fifo == INSTANCE MsgFifo WITH
          queue <- [i \in 1 .. Len(Queue) |-> data[Queue[i]]],
          sending <- [t \in Senders |-> Sending(t)],
          got <- [t \in Receivers |-> Got(t)]
ImplementsFifo == Fifo!Spec
=============================================================================
