------------------------------ MODULE MailFifo ------------------------------
(***************************************************************************)
(* What an RT-Thread mailbox promises its callers: a FIFO of at most Size  *)
(* mails.  A call either takes effect in one step (Put, Get), or is left   *)
(* pending, or fails without touching the mails; Clear is the effect of a  *)
(* reset.  Mailbox.tla (the ring buffer, the two suspend lists and the     *)
(* thread states of src/src/ipc.c) is shown to implement this module.      *)
(***************************************************************************)
EXTENDS Integers, Sequences

CONSTANTS Senders, Receivers, Mail, NoMail, Size

VARIABLES
  queue,  \* the mails in the mailbox, oldest first
  ret     \* per thread: the outcome of its last call

vars == <<queue, ret>>

Outcome(code, mail) == [code |-> code, mail |-> mail]

Init ==
  /\ queue = <<>>
  /\ ret = [t \in Senders \cup Receivers |-> Outcome("none", NoMail)]

Put(t, v) ==
  /\ Len(queue) < Size
  /\ queue' = Append(queue, v)
  /\ ret' = [ret EXCEPT ![t] = Outcome("EOK", NoMail)]

Get(t) ==
  /\ queue # <<>>
  /\ queue' = Tail(queue)
  /\ ret' = [ret EXCEPT ![t] = Outcome("EOK", Head(queue))]

(* A call that has to wait: nothing but the caller's outcome changes. *)
Block(t) ==
  /\ \/ t \in Senders /\ Len(queue) = Size
     \/ t \in Receivers /\ queue = <<>>
  /\ ret' = [ret EXCEPT ![t] = Outcome("pending", NoMail)]
  /\ UNCHANGED queue

(* EFULL is only ever reported by a sender facing a full mailbox; a        *)
(* timeout or a reset of the mailbox is only reported to a call.           *)
Fail(t, c) ==
  /\ \/ c = "EFULL" /\ t \in Senders /\ Len(queue) = Size
     \/ c = "ETIMEOUT" /\ (queue = <<>> \/ ret[t].code = "pending")
     \/ c = "ERROR" /\ ret[t].code = "pending"
  /\ ret' = [ret EXCEPT ![t] = Outcome(c, NoMail)]
  /\ UNCHANGED queue

(* rt_thread_detach and a fresh start of a thread. *)
Forget(t) ==
  /\ ret' = [ret EXCEPT ![t] = Outcome("none", NoMail)]
  /\ UNCHANGED queue

Clear ==
  /\ queue' = <<>>
  /\ UNCHANGED ret

Next ==
  \/ \E t \in Senders, v \in Mail : Put(t, v)
  \/ \E t \in Receivers : Get(t) \/ Forget(t)
  \/ \E t \in Senders \cup Receivers :
        Block(t) \/ \E c \in {"EFULL", "ETIMEOUT", "ERROR"} : Fail(t, c)
  \/ Clear

Spec == Init /\ [][Next]_vars
=============================================================================
