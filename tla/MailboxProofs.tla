---------------------------- MODULE MailboxProofs ----------------------------
(***************************************************************************)
(* Proofs about Mailbox for any number of threads, any mails, any capacity *)
(* and both list disciplines: IInv is inductive (hence type correctness,   *)
(* no lost wakeups, the consistency of ring and suspend lists), and the    *)
(* mailbox implements the bounded FIFO of MailFifo; and a call that waits  *)
(* forever never times out.                                                *)
(*                                                                         *)
(* There is one lemma for each elementary step of the code (Put, Get, the  *)
(* two ways to suspend, a call that fails, a timeout, a reset, a restart), *)
(* and the handlers are put together from them.                            *)
(***************************************************************************)
EXTENDS Mailbox, IpcListProofs, FiniteSetTheorems

(* The resumed threads of a call can be counted. *)
LEMMA WokenFinite ==
  ASSUME NEW o
  PROVE  IsFiniteSet(Woken(o)) /\ Cardinality(Woken(o)) \in Nat
<1>1. Woken(o) \subseteq Threads
  BY DEF Woken
<1>. QED BY <1>1, ThreadsAssumption, FS_Subset, FS_CardinalityType

(* One resumed thread more, or at most one fewer.                          *)
LEMMA OneMore ==
  ASSUME NEW o, NEW h, h \notin Woken(o), NEW W, W = Woken(o) \cup {h}
  PROVE  Cardinality(W) = Cardinality(Woken(o)) + 1 /\ Cardinality(W) \in Nat
<1>1. Cardinality(W) = Cardinality(Woken(o)) + 1
  BY WokenFinite, FS_AddElement
<1>. QED BY <1>1, WokenFinite

(* One resumed thread that returns lowers their number by one at most. *)
LEMMA OneFewer ==
  ASSUME NEW o, NEW t, NEW W, W = Woken(o) \ {t}
  PROVE  Cardinality(W) >= Cardinality(Woken(o)) - 1 /\ Cardinality(W) \in Nat
<1>1. /\ IsFiniteSet(W)
      /\ Cardinality(W) = IF t \in Woken(o) THEN Cardinality(Woken(o)) - 1
                                            ELSE Cardinality(Woken(o))
  BY WokenFinite, FS_RemoveElement
<1>2. Cardinality(W) \in Nat /\ Cardinality(Woken(o)) \in Nat
  BY <1>1, WokenFinite, FS_CardinalityType
<1>. QED BY <1>1, <1>2

(* A thread that is in no call is not suspended.                           *)
LEMMA IdleIsReady ==
  ASSUME IInv, NEW t \in Threads, op[t] = "none"
  PROVE  stat[t] = "ready"
BY DEF IInv, TypeOK, SuspendedIffLinked, Suspended

(* Consequences of the invariant used for every step.                      *)
LEMMA ListFacts ==
  ASSUME IInv
  PROVE  /\ suspend_thread \in Seq(Receivers) /\ suspend_sender_thread \in Seq(Senders)
         /\ Distinct(suspend_thread) /\ Distinct(suspend_sender_thread)
         /\ Range(suspend_thread) = Suspended("recv")
         /\ Range(suspend_sender_thread) = Suspended("send")
         /\ Suspended("none") = {}
BY DEF IInv, TypeOK, SuspendedIffLinked

(* Storing a mail and resuming the first receiver.                         *)
LEMMA PutStep ==
  ASSUME IInv, NEW t \in Senders, NEW v \in Mail,
         op[t] \in {"none", "send"}, stat[t] = "ready", Put(t, v)
  PROVE  IInv'
<1> DEFINE h == Head(suspend_thread)
<1>0. t \in Threads
  BY DEF Threads
<1>1. /\ TypeOK /\ CallState /\ RingConsistent /\ NoLostMail /\ NoLostSlot
      /\ MostUrgentFirst /\ SuspendedIffLinked
  BY DEF IInv
<1>2. /\ Resumed(suspend_thread) \in Seq(Receivers) /\ Distinct(Resumed(suspend_thread))
      /\ \A priority : Sorted(suspend_thread, priority) =>
                         Sorted(Resumed(suspend_thread), priority)
      /\ suspend_thread # <<>> =>
           /\ h \in Range(suspend_thread)
           /\ Range(Resumed(suspend_thread)) = Range(suspend_thread) \ {h}
  BY ListFacts, ResumedLinks
<1>3. suspend_thread # <<>> => h \in Suspended("recv")
  BY <1>2, ListFacts
<1>4. CASE suspend_thread = <<>>
  <2>1. suspend_thread' = suspend_thread /\ stat' = stat
    BY <1>4 DEF Put, Resumed, Ready
  <2>2. TypeOK'
    BY <1>0, <1>1, <2>1, SizeAssumption DEF TypeOK, Put, Return, Outcome, Wrap, Timeouts
  <2>3. CallState'
    BY <1>0, <1>1, <2>1 DEF TypeOK, CallState, Put, Return
  <2>4. SuspendedIffLinked'
    <3>1. Suspended("recv")' = Suspended("recv") /\ Suspended("send")' = Suspended("send")
          /\ Suspended("none")' = Suspended("none")
      BY <1>0, <1>1, <2>1 DEF TypeOK, Suspended, Put, Return
    <3>. QED BY <1>1, <2>1, <3>1 DEF SuspendedIffLinked, Put
  <2>5. RingConsistent'
    BY <1>1, SizeAssumption DEF TypeOK, RingConsistent, Put, Wrap
  <2>6. NoLostMail'
    BY <1>4, <2>1 DEF NoLostMail
  <2>7. NoLostSlot'
    <3>1. Woken("send")' = Woken("send") \ {t}
      BY <1>0, <1>1, <2>1 DEF TypeOK, Woken, Put, Return
    <3>2. Cardinality(Woken("send")') >= Cardinality(Woken("send")) - 1
          /\ Cardinality(Woken("send")') \in Nat
      BY <3>1, OneFewer, Zenon
    <3>3. suspend_sender_thread' = suspend_sender_thread /\ entry' = entry + 1
      BY DEF Put
    <3>4. Cardinality(Woken("send")) \in Nat
      BY WokenFinite
    <3>. QED BY <1>1, <3>2, <3>3, <3>4, SizeAssumption DEF TypeOK, NoLostSlot
  <2>8. MostUrgentFirst'
    BY <1>1, <2>1 DEF MostUrgentFirst, Put
  <2>. QED BY <2>2, <2>3, <2>4, <2>5, <2>6, <2>7, <2>8 DEF IInv
<1>5. CASE suspend_thread # <<>>
  <2>1. /\ suspend_thread' = Resumed(suspend_thread)
        /\ stat' = [stat EXCEPT ![h] = "ready"]
        /\ h \in Threads /\ stat[h] = "suspend" /\ op[h] = "recv" /\ error[h] = "EOK"
        /\ h # t
    BY <1>0, <1>1, <1>3, <1>5 DEF Put, Ready, Suspended, CallState
  <2> HIDE DEF h
  <2>2. TypeOK'
    BY <1>0, <1>1, <1>2, <2>1, SizeAssumption
    DEF TypeOK, Put, Return, Outcome, Wrap, Timeouts
  <2>3. CallState'
    BY <1>0, <1>1, <2>1 DEF TypeOK, CallState, Put, Return
  <2>4. SuspendedIffLinked'
    <3>1. /\ Suspended("recv")' = Suspended("recv") \ {h}
          /\ Suspended("send")' = Suspended("send")
          /\ Suspended("none")' = Suspended("none")
      BY <1>0, <1>1, <2>1 DEF TypeOK, Suspended, Put, Return
    <3>. QED BY <1>1, <1>2, <1>5, <2>1, <3>1, Zenon DEF SuspendedIffLinked, Put
  <2>5. RingConsistent'
    BY <1>1, SizeAssumption DEF TypeOK, RingConsistent, Put, Wrap
  <2>6. NoLostMail'
    <3>1. Woken("recv")' = Woken("recv") \cup {h} /\ h \notin Woken("recv")
      BY <1>0, <1>1, <2>1 DEF TypeOK, Woken, Put, Return
    <3>2. Cardinality(Woken("recv")') = Cardinality(Woken("recv")) + 1
      BY <3>1, OneMore
    <3>3. entry <= Cardinality(Woken("recv"))
      BY <1>1, <1>5 DEF NoLostMail
    <3>4. entry \in Nat /\ entry' = entry + 1
      BY <1>1, SizeAssumption DEF TypeOK, Put
    <3>5. Cardinality(Woken("recv")) \in Nat
      BY WokenFinite
    <3>. QED BY <3>2, <3>3, <3>4, <3>5, SizeAssumption DEF NoLostMail
  <2>7. NoLostSlot'
    <3>1. Woken("send")' = Woken("send") \ {t}
      BY <1>0, <1>1, <2>1 DEF TypeOK, Woken, Put, Return
    <3>2. Cardinality(Woken("send")') >= Cardinality(Woken("send")) - 1
          /\ Cardinality(Woken("send")') \in Nat
      BY <3>1, OneFewer, Zenon
    <3>3. suspend_sender_thread' = suspend_sender_thread /\ entry' = entry + 1
      BY DEF Put
    <3>4. Cardinality(Woken("send")) \in Nat
      BY WokenFinite
    <3>. QED BY <1>1, <3>2, <3>3, <3>4, SizeAssumption DEF TypeOK, NoLostSlot
  <2>8. MostUrgentFirst'
    BY <1>1, <1>2, <2>1 DEF MostUrgentFirst, Put
  <2>. QED BY <2>2, <2>3, <2>4, <2>5, <2>6, <2>7, <2>8 DEF IInv
<1>. QED BY <1>4, <1>5

(* Taking a mail and resuming the first sender.                            *)
LEMMA GetStep ==
  ASSUME IInv, NEW t \in Receivers,
         op[t] \in {"none", "recv"}, stat[t] = "ready", Get(t)
  PROVE  IInv'
<1> DEFINE h == Head(suspend_sender_thread)
<1>0. t \in Threads
  BY DEF Threads
<1>1. /\ TypeOK /\ CallState /\ RingConsistent /\ NoLostSlot /\ NoLostMail
      /\ MostUrgentFirst /\ SuspendedIffLinked
  BY DEF IInv
<1>2. /\ Resumed(suspend_sender_thread) \in Seq(Senders) /\ Distinct(Resumed(suspend_sender_thread))
      /\ \A priority : Sorted(suspend_sender_thread, priority) =>
                         Sorted(Resumed(suspend_sender_thread), priority)
      /\ suspend_sender_thread # <<>> =>
           /\ h \in Range(suspend_sender_thread)
           /\ Range(Resumed(suspend_sender_thread)) = Range(suspend_sender_thread) \ {h}
  BY ListFacts, ResumedLinks
<1>3. suspend_sender_thread # <<>> => h \in Suspended("send")
  BY <1>2, ListFacts
<1>4. CASE suspend_sender_thread = <<>>
  <2>1. suspend_sender_thread' = suspend_sender_thread /\ stat' = stat
    BY <1>4 DEF Get, Resumed, Ready
  <2>2. TypeOK'
    BY <1>0, <1>1, <2>1, SizeAssumption DEF TypeOK, Get, Return, Outcome, Wrap, Timeouts
  <2>3. CallState'
    BY <1>0, <1>1, <2>1 DEF TypeOK, CallState, Get, Return
  <2>4. SuspendedIffLinked'
    <3>1. Suspended("send")' = Suspended("send") /\ Suspended("recv")' = Suspended("recv")
          /\ Suspended("none")' = Suspended("none")
      BY <1>0, <1>1, <2>1 DEF TypeOK, Suspended, Get, Return
    <3>. QED BY <1>1, <2>1, <3>1 DEF SuspendedIffLinked, Get
  <2>5. RingConsistent'
    BY <1>1, SizeAssumption DEF TypeOK, RingConsistent, Get, Wrap
  <2>6. NoLostSlot'
    BY <1>4, <2>1 DEF NoLostSlot
  <2>7. NoLostMail'
    <3>1. Woken("recv")' = Woken("recv") \ {t}
      BY <1>0, <1>1, <2>1 DEF TypeOK, Woken, Get, Return
    <3>2. Cardinality(Woken("recv")') >= Cardinality(Woken("recv")) - 1
          /\ Cardinality(Woken("recv")') \in Nat
      BY <3>1, OneFewer
    <3>3. suspend_thread' = suspend_thread /\ entry' = entry - 1
      BY DEF Get
    <3>4. Cardinality(Woken("recv")) \in Nat
      BY WokenFinite
    <3>. QED BY <1>1, <3>2, <3>3, <3>4, SizeAssumption DEF TypeOK, NoLostMail
  <2>8. MostUrgentFirst'
    BY <1>1, <2>1 DEF MostUrgentFirst, Get
  <2>. QED BY <2>2, <2>3, <2>4, <2>5, <2>6, <2>7, <2>8 DEF IInv
<1>5. CASE suspend_sender_thread # <<>>
  <2>1. /\ suspend_sender_thread' = Resumed(suspend_sender_thread)
        /\ stat' = [stat EXCEPT ![h] = "ready"]
        /\ h \in Threads /\ stat[h] = "suspend" /\ op[h] = "send" /\ error[h] = "EOK"
        /\ h # t
    BY <1>0, <1>1, <1>3, <1>5 DEF Get, Ready, Suspended, CallState
  <2> HIDE DEF h
  <2>2. TypeOK'
    BY <1>0, <1>1, <1>2, <2>1, SizeAssumption
    DEF TypeOK, Get, Return, Outcome, Wrap, Timeouts
  <2>3. CallState'
    BY <1>0, <1>1, <2>1 DEF TypeOK, CallState, Get, Return
  <2>4. SuspendedIffLinked'
    <3>1. /\ Suspended("send")' = Suspended("send") \ {h}
          /\ Suspended("recv")' = Suspended("recv")
          /\ Suspended("none")' = Suspended("none")
      BY <1>0, <1>1, <2>1 DEF TypeOK, Suspended, Get, Return
    <3>. QED BY <1>1, <1>2, <1>5, <2>1, <3>1, Zenon DEF SuspendedIffLinked, Get
  <2>5. RingConsistent'
    BY <1>1, SizeAssumption DEF TypeOK, RingConsistent, Get, Wrap
  <2>6. NoLostSlot'
    <3>1. Woken("send")' = Woken("send") \cup {h} /\ h \notin Woken("send")
      BY <1>0, <1>1, <2>1 DEF TypeOK, Woken, Get, Return
    <3>2. Cardinality(Woken("send")') = Cardinality(Woken("send")) + 1
      BY <3>1, OneMore
    <3>3. Size - entry <= Cardinality(Woken("send"))
      BY <1>1, <1>5 DEF NoLostSlot
    <3>4. entry \in Nat /\ entry' = entry - 1
      BY <1>1, SizeAssumption DEF TypeOK, Get
    <3>5. Cardinality(Woken("send")) \in Nat
      BY WokenFinite
    <3>. QED BY <3>2, <3>3, <3>4, <3>5, SizeAssumption DEF NoLostSlot
  <2>7. NoLostMail'
    <3>1. Woken("recv")' = Woken("recv") \ {t}
      BY <1>0, <1>1, <2>1 DEF TypeOK, Woken, Get, Return
    <3>2. Cardinality(Woken("recv")') >= Cardinality(Woken("recv")) - 1
          /\ Cardinality(Woken("recv")') \in Nat
      BY <3>1, OneFewer
    <3>3. suspend_thread' = suspend_thread /\ entry' = entry - 1
      BY DEF Get
    <3>4. Cardinality(Woken("recv")) \in Nat
      BY WokenFinite
    <3>. QED BY <1>1, <3>2, <3>3, <3>4, SizeAssumption DEF TypeOK, NoLostMail
  <2>8. MostUrgentFirst'
    BY <1>1, <1>2, <2>1 DEF MostUrgentFirst, Get
  <2>. QED BY <2>2, <2>3, <2>4, <2>5, <2>6, <2>7, <2>8 DEF IInv
<1>. QED BY <1>4, <1>5

(* A sender faces a full mailbox and is suspended.                         *)
LEMMA SendSuspendStep ==
  ASSUME IInv, NEW t \in Senders, NEW v \in Mail, NEW to \in Timeouts,
         op[t] \in {"none", "send"}, stat[t] = "ready", SendSuspend(t, v, to)
  PROVE  IInv'
<1> DEFINE new == ListSuspend(suspend_sender_thread, t, Flag, Priority)
<1>0. t \in Threads
  BY DEF Threads
<1>1. /\ TypeOK /\ CallState /\ RingConsistent /\ NoLostMail /\ NoLostSlot
      /\ MostUrgentFirst /\ SuspendedIffLinked
  BY DEF IInv
<1>2. t \notin Range(suspend_sender_thread)
  BY ListFacts DEF Suspended
<1>3. /\ new \in Seq(Senders) /\ Distinct(new)
      /\ Range(new) = Range(suspend_sender_thread) \cup {t}
  BY <1>2, ListFacts, ListSuspendLinks
<1>4. Flag = "PRIO" => Sorted(new, Priority)
  <2>1. ASSUME Flag = "PRIO" PROVE Sorted(new, Priority)
    <3>1. Sorted(suspend_sender_thread, Priority)
      BY <1>1, <2>1 DEF MostUrgentFirst
    <3>2. suspend_sender_thread \in Seq(Threads)
      BY ListFacts DEF Threads
    <3>. QED BY <1>0, <2>1, <3>1, <3>2, PriorityAssumption, ListSuspendSorts
  <2>. QED BY <2>1
<1>5. suspend_sender_thread' = new
  BY DEF SendSuspend
<1> HIDE DEF new
<1>6. TypeOK'
  BY <1>0, <1>1, <1>3, <1>5 DEF TypeOK, SendSuspend, Suspend, Outcome, ring
<1>7. CallState'
  BY <1>0, <1>1 DEF TypeOK, CallState, SendSuspend, Suspend
<1>8. SuspendedIffLinked'
  <2>1. /\ Suspended("send")' = Suspended("send") \cup {t}
        /\ Suspended("recv")' = Suspended("recv")
        /\ Suspended("none")' = Suspended("none")
    BY <1>0, <1>1 DEF TypeOK, Suspended, SendSuspend, Suspend
  <2>. QED BY <1>1, <1>3, <1>5, <2>1, Zenon DEF SuspendedIffLinked, SendSuspend
<1>9. RingConsistent' /\ MostUrgentFirst'
  BY <1>1, <1>4, <1>5 DEF RingConsistent, MostUrgentFirst, SendSuspend, ring
<1>10. NoLostMail'
  <2>1. Woken("recv")' = Woken("recv")
    BY <1>0, <1>1 DEF TypeOK, Woken, SendSuspend, Suspend
  <2>. QED BY <1>1, <2>1 DEF NoLostMail, SendSuspend, ring
<1>11. NoLostSlot'
  <2>1. Woken("send")' = Woken("send") \ {t}
    BY <1>0, <1>1 DEF TypeOK, Woken, SendSuspend, Suspend
  <2>2. Cardinality(Woken("send")') \in Nat
    BY <2>1, OneFewer, Zenon
  <2>3. entry' = Size
    BY DEF SendSuspend, ring
  <2>. QED BY <2>2, <2>3, SizeAssumption DEF NoLostSlot
<1>. QED BY <1>6, <1>7, <1>8, <1>9, <1>10, <1>11 DEF IInv

(* A receiver faces an empty mailbox and is suspended.                      *)
LEMMA RecvSuspendStep ==
  ASSUME IInv, NEW t \in Receivers, NEW to \in Timeouts,
         op[t] \in {"none", "recv"}, stat[t] = "ready", RecvSuspend(t, to)
  PROVE  IInv'
<1> DEFINE new == ListSuspend(suspend_thread, t, Flag, Priority)
<1>0. t \in Threads
  BY DEF Threads
<1>1. /\ TypeOK /\ CallState /\ RingConsistent /\ NoLostSlot /\ NoLostMail
      /\ MostUrgentFirst /\ SuspendedIffLinked
  BY DEF IInv
<1>2. t \notin Range(suspend_thread)
  BY ListFacts DEF Suspended
<1>3. /\ new \in Seq(Receivers) /\ Distinct(new)
      /\ Range(new) = Range(suspend_thread) \cup {t}
  BY <1>2, ListFacts, ListSuspendLinks
<1>4. Flag = "PRIO" => Sorted(new, Priority)
  <2>1. ASSUME Flag = "PRIO" PROVE Sorted(new, Priority)
    <3>1. Sorted(suspend_thread, Priority)
      BY <1>1, <2>1 DEF MostUrgentFirst
    <3>2. suspend_thread \in Seq(Threads)
      BY ListFacts DEF Threads
    <3>. QED BY <1>0, <2>1, <3>1, <3>2, PriorityAssumption, ListSuspendSorts
  <2>. QED BY <2>1
<1>5. suspend_thread' = new
  BY DEF RecvSuspend
<1> HIDE DEF new
<1>6. TypeOK'
  BY <1>0, <1>1, <1>3, <1>5 DEF TypeOK, RecvSuspend, Suspend, Outcome, ring
<1>7. CallState'
  BY <1>0, <1>1 DEF TypeOK, CallState, RecvSuspend, Suspend
<1>8. SuspendedIffLinked'
  <2>1. /\ Suspended("recv")' = Suspended("recv") \cup {t}
        /\ Suspended("send")' = Suspended("send")
        /\ Suspended("none")' = Suspended("none")
    BY <1>0, <1>1 DEF TypeOK, Suspended, RecvSuspend, Suspend
  <2>. QED BY <1>1, <1>3, <1>5, <2>1, Zenon DEF SuspendedIffLinked, RecvSuspend
<1>9. RingConsistent' /\ MostUrgentFirst'
  BY <1>1, <1>4, <1>5 DEF RingConsistent, MostUrgentFirst, RecvSuspend, ring
<1>10. NoLostSlot'
  <2>1. Woken("send")' = Woken("send")
    BY <1>0, <1>1 DEF TypeOK, Woken, RecvSuspend, Suspend
  <2>. QED BY <1>1, <2>1 DEF NoLostSlot, RecvSuspend, ring
<1>11. NoLostMail'
  <2>1. Woken("recv")' = Woken("recv") \ {t}
    BY <1>0, <1>1 DEF TypeOK, Woken, RecvSuspend, Suspend
  <2>2. Cardinality(Woken("recv")') \in Nat
    BY <2>1, OneFewer, Zenon
  <2>3. entry' = 0
    BY DEF RecvSuspend, ring
  <2>. QED BY <2>2, <2>3 DEF NoLostMail
<1>. QED BY <1>6, <1>7, <1>8, <1>9, <1>10, <1>11 DEF IInv

(* A call ends without touching the mails: it was refused, timed out or    *)
(* was cut off by a reset.                                                 *)
LEMMA FailStep ==
  ASSUME IInv, NEW t \in Threads, stat[t] = "ready",
         NEW code \in {"EFULL", "ETIMEOUT", "ERROR"}, Return(t, code, NoMail),
         UNCHANGED <<ring, lists, stat>>,
         error' = error \/ error' = [error EXCEPT ![t] = "ETIMEOUT"],
         \/ op[t] = "none" \/ error[t] # "EOK"
         \/ op[t] = "send" /\ entry = Size
         \/ op[t] = "recv" /\ entry = 0
  PROVE  IInv'
<1>1. /\ TypeOK /\ CallState /\ RingConsistent /\ NoLostMail /\ NoLostSlot
      /\ MostUrgentFirst /\ SuspendedIffLinked
  BY DEF IInv
<1>2. /\ entry' = entry /\ in_offset' = in_offset /\ out_offset' = out_offset
      /\ msg_pool' = msg_pool /\ suspend_thread' = suspend_thread
      /\ suspend_sender_thread' = suspend_sender_thread /\ stat' = stat
  BY DEF ring, lists
<1>3. error' \in [Threads -> {"EOK", "ETIMEOUT", "ERROR"}]
  BY <1>1, Zenon DEF TypeOK
<1>4. TypeOK'
  BY <1>1, <1>2, <1>3 DEF TypeOK, Return, Outcome, Timeouts
<1>5. CallState'
  BY <1>1, <1>2 DEF TypeOK, CallState, Return
<1>6. SuspendedIffLinked'
  <2>1. /\ Suspended("send")' = Suspended("send")
        /\ Suspended("recv")' = Suspended("recv")
        /\ Suspended("none")' = Suspended("none")
    BY <1>1, <1>2 DEF TypeOK, Suspended, Return
  <2>. QED BY <1>1, <1>2, <2>1, Zenon DEF SuspendedIffLinked
<1>7. RingConsistent' /\ MostUrgentFirst'
  BY <1>1, <1>2 DEF RingConsistent, MostUrgentFirst
<1>8. Woken("recv")' = Woken("recv") \ {t} /\ Woken("send")' = Woken("send") \ {t}
  BY <1>1, <1>2 DEF TypeOK, Woken, Return
<1>9. Cardinality(Woken("recv")') \in Nat /\ Cardinality(Woken("send")') \in Nat
  BY <1>8, OneFewer, Zenon
<1>10. NoLostMail'
  <2>1. CASE t \in Woken("recv")
    <3>1. entry' = 0
      BY <1>2, <2>1 DEF Woken
    <3>. QED BY <1>9, <3>1 DEF NoLostMail
  <2>2. CASE t \notin Woken("recv")
    <3>1. Woken("recv")' = Woken("recv")
      BY <1>8, <2>2
    <3>. QED BY <1>1, <1>2, <3>1 DEF NoLostMail
  <2>. QED BY <2>1, <2>2
<1>11. NoLostSlot'
  <2>1. CASE t \in Woken("send")
    <3>1. entry' = Size
      BY <1>2, <2>1 DEF Woken
    <3>. QED BY <1>9, <3>1, SizeAssumption DEF NoLostSlot
  <2>2. CASE t \notin Woken("send")
    <3>1. Woken("send")' = Woken("send")
      BY <1>8, <2>2
    <3>. QED BY <1>1, <1>2, <3>1 DEF NoLostSlot
  <2>. QED BY <2>1, <2>2
<1>. QED BY <1>4, <1>5, <1>6, <1>7, <1>10, <1>11 DEF IInv

(* The timer of a suspended thread runs out.                               *)
LEMMA TimeoutStep ==
  ASSUME IInv, NEW t \in Threads, rt_thread_timeout(t)
  PROVE  IInv'
<1> USE DEF rt_thread_timeout, ring, call
<1>1. /\ TypeOK /\ CallState /\ RingConsistent /\ NoLostMail /\ NoLostSlot
      /\ MostUrgentFirst /\ SuspendedIffLinked
  BY DEF IInv
<1>2. /\ Unlink(suspend_thread, t) \in Seq(Receivers)
      /\ Range(Unlink(suspend_thread, t)) = Range(suspend_thread) \ {t}
      /\ Distinct(Unlink(suspend_thread, t))
      /\ \A priority : Sorted(suspend_thread, priority) =>
                         Sorted(Unlink(suspend_thread, t), priority)
  BY ListFacts, UnlinkLinks
<1>3. /\ Unlink(suspend_sender_thread, t) \in Seq(Senders)
      /\ Range(Unlink(suspend_sender_thread, t)) = Range(suspend_sender_thread) \ {t}
      /\ Distinct(Unlink(suspend_sender_thread, t))
      /\ \A priority : Sorted(suspend_sender_thread, priority) =>
                         Sorted(Unlink(suspend_sender_thread, t), priority)
  BY ListFacts, UnlinkLinks
<1>4. TypeOK'
  BY <1>1, <1>2, <1>3, Zenon DEF TypeOK
<1>5. CallState'
  BY <1>1 DEF TypeOK, CallState
<1>6. SuspendedIffLinked'
  <2>1. /\ Suspended("send")' = Suspended("send") \ {t}
        /\ Suspended("recv")' = Suspended("recv") \ {t}
        /\ Suspended("none")' = Suspended("none") \ {t}
    BY <1>1 DEF TypeOK, Suspended
  <2>. QED BY <1>1, <1>2, <1>3, <2>1 DEF SuspendedIffLinked
<1>7. RingConsistent' /\ MostUrgentFirst'
  BY <1>1, <1>2, <1>3 DEF RingConsistent, MostUrgentFirst
<1>8. Woken("recv")' = Woken("recv") /\ Woken("send")' = Woken("send")
  BY <1>1 DEF TypeOK, Woken
<1>9. /\ suspend_thread' # <<>> => suspend_thread # <<>>
      /\ suspend_sender_thread' # <<>> => suspend_sender_thread # <<>>
  BY <1>2, <1>3, ListFacts, EmptyList, Zenon
<1>10. NoLostMail' /\ NoLostSlot'
  BY <1>1, <1>8, <1>9 DEF NoLostMail, NoLostSlot
<1>. QED BY <1>4, <1>5, <1>6, <1>7, <1>10, Zenon DEF IInv

(* The mailbox is reset, or detached and initialised again.                *)
LEMMA ResetStep ==
  ASSUME IInv, Reset
  PROVE  IInv'
<1> USE DEF Reset, ResumeAll, call
<1>1. TypeOK /\ CallState /\ SuspendedIffLinked
  BY DEF IInv
<1>0. \A t \in Threads : stat[t] = "suspend" <=> t \in Linked
  BY <1>1 DEF TypeOK, SuspendedIffLinked, Suspended, Linked
<1>2. TypeOK'
  BY <1>1, SizeAssumption DEF TypeOK
<1>3. CallState'
  BY <1>0, <1>1 DEF TypeOK, CallState
<1>4. SuspendedIffLinked'
  <2>0. \A t \in Threads : stat'[t] # "suspend"
    BY <1>0
  <2>1. \A o : Suspended(o)' = {}
    BY <2>0 DEF Suspended
  <2>2. Range(<<>>) = {} /\ Distinct(<<>>)
    BY DEF Range, Distinct
  <2>. QED BY <2>1, <2>2 DEF SuspendedIffLinked
<1>5. RingConsistent' /\ MostUrgentFirst' /\ NoLostMail' /\ NoLostSlot'
  BY SizeAssumption DEF RingConsistent, MostUrgentFirst, NoLostMail, NoLostSlot, Sorted
<1>. QED BY <1>2, <1>3, <1>4, <1>5 DEF IInv

(* The only receiver is detached and starts again.                         *)
LEMMA DetachStep ==
  ASSUME IInv, NEW t \in Restartable, rt_thread_detach(t)
  PROVE  IInv'
<1> USE DEF rt_thread_detach
<1>0. t \in Threads /\ t \in Receivers /\ t \notin Senders /\ Receivers = {t}
  BY RestartAssumption DEF Threads
<1>1. /\ TypeOK /\ CallState /\ RingConsistent /\ NoLostMail /\ NoLostSlot
      /\ MostUrgentFirst /\ SuspendedIffLinked
  BY DEF IInv
<1>2. /\ Unlink(suspend_thread, t) \in Seq(Receivers)
      /\ Range(Unlink(suspend_thread, t)) = Range(suspend_thread) \ {t}
      /\ Distinct(Unlink(suspend_thread, t))
      /\ \A priority : Sorted(suspend_thread, priority) =>
                         Sorted(Unlink(suspend_thread, t), priority)
  BY ListFacts, UnlinkLinks
<1>3. op[t] # "send"
  BY <1>0, <1>1, Zenon DEF CallState
<1>4. TypeOK'
  BY <1>0, <1>1, <1>2 DEF TypeOK, Return, Outcome, Timeouts, ring
<1>5. CallState'
  BY <1>0, <1>1 DEF TypeOK, CallState, Return
<1>6. SuspendedIffLinked'
  <2>1. /\ Suspended("send")' = Suspended("send")
        /\ Suspended("recv")' = Suspended("recv") \ {t}
        /\ Suspended("none")' = Suspended("none") \ {t}
    BY <1>0, <1>1, <1>3 DEF TypeOK, Suspended, Return
  <2>. QED BY <1>1, <1>2, <2>1 DEF SuspendedIffLinked
<1>7. RingConsistent' /\ MostUrgentFirst'
  BY <1>1, <1>2 DEF RingConsistent, MostUrgentFirst, ring
<1>8. NoLostMail'
  <2>1. Range(suspend_thread') = {}
    <3>1. Range(suspend_thread) \subseteq Receivers
      BY ListFacts, ToSetElement, SeqEntries
    <3>. QED BY <1>0, <1>2, <3>1
  <2>2. suspend_thread' = <<>>
    BY <1>2, <2>1, EmptyList
  <2>. QED BY <2>2 DEF NoLostMail
<1>9. NoLostSlot'
  <2>1. Woken("send")' = Woken("send")
    BY <1>0, <1>1, <1>3 DEF TypeOK, Woken, Return
  <2>. QED BY <1>1, <2>1 DEF NoLostSlot, ring
<1>. QED BY <1>4, <1>5, <1>6, <1>7, <1>8, <1>9 DEF IInv

-----------------------------------------------------------------------------
(* The handlers, put together from the steps.                              *)
LEMMA SendWaitStep ==
  ASSUME IInv, NEW t \in Senders, NEW v \in Mail, NEW to \in Timeouts,
         rt_mb_send_wait(t, v, to)
  PROVE  IInv'
<1>1. t \in Threads /\ op[t] = "none" /\ stat[t] = "ready"
  BY IdleIsReady, Zenon DEF rt_mb_send_wait, Threads
<1>2. CASE Put(t, v)
  BY <1>1, <1>2, PutStep
<1>3. CASE SendSuspend(t, v, to)
  BY <1>1, <1>3, SendSuspendStep
<1>4. CASE SendFull(t, to) /\ UNCHANGED error
  BY <1>1, <1>4, FailStep DEF SendFull
<1>. QED BY <1>2, <1>3, <1>4 DEF rt_mb_send_wait

(* A resumed sender that puts its mail, sleeps again or returns an error   *)
(* keeps the invariant.                                                    *)
LEMMA SendResumedStep ==
  ASSUME IInv, NEW t \in Senders, SendResumed(t)
  PROVE  IInv'
<1>1. t \in Threads /\ op[t] = "send" /\ stat[t] = "ready"
  BY DEF SendResumed, Threads
<1>2. value[t] \in Mail
  BY <1>1 DEF IInv, CallState
<1>3. CASE error[t] # "EOK"
  <2>1. error[t] \in {"ETIMEOUT", "ERROR"}
    BY <1>1, <1>3 DEF IInv, TypeOK
  <2>2. Return(t, error[t], NoMail) /\ UNCHANGED <<ring, lists, stat, error>>
    BY <1>3 DEF SendResumed
  <2>. QED BY <1>1, <1>3, <2>1, <2>2, FailStep
<1>4. CASE error[t] = "EOK"
  <2>1. PICK to \in TimeLeft(t) :
          \/ Put(t, value[t])
          \/ SendSuspend(t, value[t], to)
          \/ SendFull(t, to) /\ UNCHANGED error
    BY <1>4 DEF SendResumed
  <2>2. to \in Timeouts
    BY <1>1 DEF IInv, TypeOK, TimeLeft, Timeouts
  <2>3. CASE Put(t, value[t])
    BY <1>1, <1>2, <2>3, PutStep
  <2>4. CASE SendSuspend(t, value[t], to)
    BY <1>1, <1>2, <2>2, <2>4, SendSuspendStep
  <2>5. CASE SendFull(t, to) /\ UNCHANGED error
    BY <1>1, <2>5, FailStep DEF SendFull
  <2>. QED BY <2>1, <2>3, <2>4, <2>5, Zenon
<1>. QED BY <1>3, <1>4

(* rt_mb_recv keeps the invariant. *)
LEMMA RecvStep ==
  ASSUME IInv, NEW t \in Receivers, NEW to \in Timeouts, rt_mb_recv(t, to)
  PROVE  IInv'
<1>1. t \in Threads /\ op[t] = "none" /\ stat[t] = "ready"
  BY IdleIsReady DEF rt_mb_recv, Threads
<1>2. CASE Get(t)
  BY <1>1, <1>2, GetStep
<1>3. CASE RecvSuspend(t, to)
  BY <1>1, <1>3, RecvSuspendStep
<1>4. CASE RecvEmpty(t, to) /\ UNCHANGED error
  BY <1>1, <1>4, FailStep DEF RecvEmpty
<1>. QED BY <1>2, <1>3, <1>4 DEF rt_mb_recv

(* A resumed receiver that fetches a mail, sleeps again or returns an      *)
(* error keeps the invariant.                                              *)
LEMMA RecvResumedStep ==
  ASSUME IInv, NEW t \in Receivers, RecvResumed(t)
  PROVE  IInv'
<1>1. t \in Threads /\ op[t] = "recv" /\ stat[t] = "ready"
  BY DEF RecvResumed, Threads
<1>2. CASE error[t] # "EOK"
  <2>1. error[t] \in {"ETIMEOUT", "ERROR"}
    BY <1>1, <1>2 DEF IInv, TypeOK
  <2>2. Return(t, error[t], NoMail) /\ UNCHANGED <<ring, lists, stat, error>>
    BY <1>2, Zenon DEF RecvResumed
  <2>. QED BY <1>1, <1>2, <2>1, <2>2, FailStep
<1>3. CASE error[t] = "EOK"
  <2>1. PICK to \in TimeLeft(t) :
          \/ Get(t)
          \/ RecvSuspend(t, to)
          \/ RecvEmpty(t, to) /\ error' = [error EXCEPT ![t] = "ETIMEOUT"]
    BY <1>3 DEF RecvResumed
  <2>2. to \in Timeouts
    BY <1>1 DEF IInv, TypeOK, TimeLeft, Timeouts
  <2>3. CASE Get(t)
    BY <1>1, <2>3, GetStep
  <2>4. CASE RecvSuspend(t, to)
    BY <1>1, <2>2, <2>4, RecvSuspendStep
  <2>5. CASE RecvEmpty(t, to) /\ error' = [error EXCEPT ![t] = "ETIMEOUT"]
    BY <1>1, <2>5, FailStep, Zenon DEF RecvEmpty
  <2>. QED BY <2>1, <2>3, <2>4, <2>5
<1>. QED BY <1>2, <1>3

(* IInv holds initially and every step of Next preserves it: whatever      *)
(* senders, receivers, interrupt handlers, timers, resets and restarts do  *)
(* in whatever order, rt_mb_send_wait and rt_mb_recv keep the ring, the    *)
(* suspend lists and the thread states consistent.                         *)
THEOREM Inductive == Spec => []IInv
<1>1. Init => IInv
  <2> SUFFICES ASSUME Init PROVE IInv
    OBVIOUS
  <2>1. TypeOK /\ CallState
    BY SizeAssumption DEF Init, TypeOK, CallState, Outcome, Timeouts
  <2>2. SuspendedIffLinked
    <3>1. \A o : Suspended(o) = {}
      BY DEF Init, Suspended
    <3>2. Range(<<>>) = {} /\ Distinct(<<>>)
      BY DEF Range, Distinct
    <3>. QED BY <3>1, <3>2, Zenon DEF Init, SuspendedIffLinked
  <2>3. RingConsistent /\ MostUrgentFirst /\ NoLostMail /\ NoLostSlot
    BY SizeAssumption
    DEF Init, RingConsistent, MostUrgentFirst, NoLostMail, NoLostSlot, Sorted
  <2>. QED BY <2>1, <2>2, <2>3 DEF IInv
<1>2. IInv /\ [Next]_vars => IInv'
  <2> SUFFICES ASSUME IInv, [Next]_vars PROVE IInv'
    OBVIOUS
  <2>1. CASE Next
    BY <2>1, SendWaitStep, SendResumedStep, RecvStep, RecvResumedStep, TimeoutStep,
       ResetStep, DetachStep DEF Next
  <2>2. CASE UNCHANGED vars
    <3> USE <2>2 DEF vars, ring, lists, call
    <3>1. TypeOK' /\ CallState'
      BY DEF IInv, TypeOK, CallState
    <3>2. SuspendedIffLinked'
      BY Zenon DEF IInv, SuspendedIffLinked, Suspended
    <3>3. RingConsistent' /\ MostUrgentFirst'
      BY DEF IInv, RingConsistent, MostUrgentFirst
    <3>4. NoLostMail' /\ NoLostSlot'
      BY DEF IInv, NoLostMail, NoLostSlot, Woken
    <3>. QED BY <3>1, <3>2, <3>3, <3>4, Zenon DEF IInv
  <2>. QED BY <2>1, <2>2
<1>. QED BY <1>1, <1>2, PTL DEF Spec

(* Type correctness of ipc.c's mailbox for all constants.                  *)
THEOREM TypeCorrect == Spec => []TypeOK
BY Inductive, PTL DEF IInv

(* A thread waits in rt_mb_send_wait or rt_mb_recv with no error and no    *)
(* outcome yet: an error it finds when it is resumed is one of this wait.  *)
THEOREM CallsCorrect == Spec => []CallState
BY Inductive, PTL DEF IInv

(* No lost wakeup of a receiver of rt_mb_recv.                             *)
THEOREM NoLostWakeup == Spec => []NoLostMail
BY Inductive, PTL DEF IInv

(* No lost wakeup of a sender of rt_mb_send_wait.                          *)
THEOREM NoLostRoom == Spec => []NoLostSlot
BY Inductive, PTL DEF IInv

(* Suspend lists and thread states agree after every operation.            *)
THEOREM ListsCorrect == Spec => []SuspendedIffLinked
BY Inductive, PTL DEF IInv

(* The suspend lists of an RT_IPC_FLAG_PRIO mailbox stay sorted, whatever  *)
(* threads time out or restart in the middle of them.                      *)
THEOREM UrgentFirst == Spec => []MostUrgentFirst
BY Inductive, PTL DEF IInv

(* in_offset, out_offset and entry agree: the next mail is written right   *)
(* behind the newest unread one.                                           *)
THEOREM RingCorrect == Spec => []RingConsistent
BY Inductive, PTL DEF IInv

-----------------------------------------------------------------------------
(* The slots of the ring, one step at a time. *)
LEMMA ContentsFacts ==
  ASSUME TypeOK
  PROVE  /\ Contents \in Seq(Mail \cup {NoMail})
         /\ Len(Contents) = entry
         /\ \A i \in 1..entry : Contents[i] = msg_pool[Slot(i)]
<1>1. \A i \in 1..entry : Slot(i) \in 0..Size-1
  BY SizeAssumption DEF TypeOK, Slot
<1>2. \A i \in 1..entry : msg_pool[Slot(i)] \in Mail \cup {NoMail}
  BY <1>1 DEF TypeOK
<1>3. entry \in Nat
  BY DEF TypeOK
<1>. QED BY <1>2, <1>3 DEF Contents

(* The contents of the ring after a step. *)
LEMMA ContentsFactsNext ==
  ASSUME TypeOK'
  PROVE  /\ Contents' \in Seq(Mail \cup {NoMail})
         /\ Len(Contents') = entry'
         /\ \A i \in 1..entry' : Contents'[i] = msg_pool'[Slot(i)']
<1>0. entry' \in 0..Size /\ out_offset' \in 0..Size-1 /\ Size \in Nat
  BY SizeAssumption DEF TypeOK
<1>1. ASSUME NEW i \in 1..entry' PROVE Slot(i)' \in 0..Size-1
  <2>1. PICK o \in 0..Size-1 : o = out_offset'
    BY <1>0
  <2>2. Slot(i)' = IF o + i - 1 >= Size THEN o + i - 1 - Size ELSE o + i - 1
    BY <2>1 DEF Slot
  <2>3. i \in 1..Size
    BY <1>0
  <2>. QED BY <1>0, <2>2, <2>3
<1>2. \A i \in 1..entry' : msg_pool'[Slot(i)'] \in Mail \cup {NoMail}
  BY <1>1 DEF TypeOK
<1>3. entry' \in Nat
  BY DEF TypeOK
<1>. QED BY <1>2, <1>3 DEF Contents

(* Append and Tail, element by element. *)
LEMMA AppendByElement ==
  ASSUME NEW S, NEW s \in Seq(S), NEW v \in S, NEW f \in Seq(S),
         Len(f) = Len(s) + 1, f[Len(s) + 1] = v, \A i \in 1..Len(s) : f[i] = s[i]
  PROVE  f = Append(s, v)
<1> DEFINE g == Append(s, v)
<1>1. g \in Seq(S) /\ Len(g) = Len(f) /\ Len(s) \in Nat
  OBVIOUS
<1>2. \A i \in 1..Len(f) : f[i] = g[i]
  <2> SUFFICES ASSUME NEW i \in 1..Len(f) PROVE f[i] = g[i]
    OBVIOUS
  <2>1. CASE i = Len(s) + 1
    BY <2>1
  <2>2. CASE i # Len(s) + 1
    <3>1. i \in 1..Len(s)
      BY <1>1, <2>2
    <3>. QED BY <3>1
  <2>. QED BY <2>1, <2>2
<1> HIDE DEF g
<1>3. f = g
  BY <1>1, <1>2, SeqSame
<1>. QED BY <1>3 DEF g

(* A sequence is the tail of another if its elements are. *)
LEMMA TailByElement ==
  ASSUME NEW S, NEW s \in Seq(S), s # <<>>, NEW f \in Seq(S),
         Len(f) = Len(s) - 1, \A i \in 1..Len(f) : f[i] = s[i + 1]
  PROVE  f = Tail(s)
<1> DEFINE g == Tail(s)
<1>1. g \in Seq(S) /\ Len(g) = Len(f) /\ \A i \in 1..Len(f) : g[i] = s[i + 1]
  BY SeqRest
<1> HIDE DEF g
<1>2. f = g
  BY <1>1, SeqSame
<1>. QED BY <1>2 DEF g

(* Storing at in_offset appends to the contents. *)
LEMMA PutAppends ==
  ASSUME IInv, IInv', NEW t \in Threads, NEW v \in Mail, Put(t, v)
  PROVE  Len(Contents) < Size /\ Contents' = Append(Contents, v)
<1>0. PICK n \in Nat : n = entry
  BY DEF IInv, TypeOK
<1>1. /\ Contents \in Seq(Mail \cup {NoMail}) /\ Len(Contents) = n
      /\ \A i \in 1..n : Contents[i] = msg_pool[Slot(i)]
  BY <1>0, ContentsFacts DEF IInv
<1>2. /\ n \in 0..Size /\ n # Size /\ Size \in Nat
      /\ out_offset \in 0..Size-1 /\ out_offset' = out_offset
      /\ entry' = n + 1
      /\ in_offset \in 0..Size-1
  BY <1>0, SizeAssumption DEF Put, IInv, TypeOK
<1>3. /\ Contents' \in Seq(Mail \cup {NoMail}) /\ Len(Contents') = n + 1
      /\ \A i \in 1..n + 1 : Contents'[i] = msg_pool'[Slot(i)']
  <2>1. TypeOK'
    BY DEF IInv
  <2>2. /\ Contents' \in Seq(Mail \cup {NoMail}) /\ Len(Contents') = entry'
        /\ \A i \in 1..entry' : Contents'[i] = msg_pool'[Slot(i)']
    BY <2>1, ContentsFactsNext
  <2>. QED BY <1>2, <2>2
<1>4. \A i \in 1..n : Slot(i)' = Slot(i) /\ Slot(i) # in_offset /\ Slot(i) \in 0..Size-1
  BY <1>0, <1>2 DEF IInv, RingConsistent, Slot
<1>5. Slot(n + 1)' = in_offset
  BY <1>0, <1>2, SMTT(20) DEF IInv, RingConsistent, Slot
<1>6. /\ \A i \in 1..n : msg_pool'[Slot(i)'] = msg_pool[Slot(i)]
      /\ msg_pool'[Slot(n + 1)'] = v
  BY <1>2, <1>4, <1>5 DEF Put, IInv, TypeOK
<1>7. /\ \A i \in 1..n : i \in 1..n + 1
      /\ n + 1 \in 1..n + 1
  BY <1>0
<1>8. Contents'[n + 1] = v /\ \A i \in 1..n : Contents'[i] = Contents[i]
  BY <1>1, <1>3, <1>6, <1>7, Zenon
<1>9. Contents' = Append(Contents, v)
  BY <1>1, <1>3, <1>8, AppendByElement
<1>. QED BY <1>1, <1>2, <1>9

(* Fetching at out_offset takes the head of the contents. *)
LEMMA GetTakesHead ==
  ASSUME IInv, IInv', NEW t \in Threads, Get(t)
  PROVE  /\ Contents # <<>> /\ Contents' = Tail(Contents)
         /\ msg_pool[out_offset] = Head(Contents)
<1>0. PICK n \in Nat : n = entry
  BY DEF IInv, TypeOK
<1>1. /\ Contents \in Seq(Mail \cup {NoMail}) /\ Len(Contents) = n
      /\ \A i \in 1..n : Contents[i] = msg_pool[Slot(i)]
  BY <1>0, ContentsFacts DEF IInv
<1>2. /\ n \in 0..Size /\ n # 0 /\ Size \in Nat
      /\ out_offset \in 0..Size-1 /\ out_offset' = Wrap(out_offset + 1)
      /\ entry' = n - 1 /\ msg_pool' = msg_pool
  BY <1>0, SizeAssumption, Zenon DEF Get, IInv, TypeOK
<1>3. /\ Contents' \in Seq(Mail \cup {NoMail}) /\ Len(Contents') = n - 1
      /\ \A i \in 1..n - 1 : Contents'[i] = msg_pool[Slot(i)']
  <2>1. TypeOK'
    BY DEF IInv
  <2>2. /\ Contents' \in Seq(Mail \cup {NoMail}) /\ Len(Contents') = entry'
        /\ \A i \in 1..entry' : Contents'[i] = msg_pool'[Slot(i)']
    BY <2>1, ContentsFactsNext
  <2>. QED BY <1>2, <2>2
<1>4. Slot(1) = out_offset
  BY <1>2 DEF Slot
<1>5. \A i \in 1..n - 1 : Slot(i)' = Slot(i + 1) /\ i + 1 \in 1..n
  BY <1>2 DEF Slot, Wrap
<1>6. Contents # <<>> /\ Head(Contents) = Contents[1] /\ 1 \in 1..n
  BY <1>1, <1>2, SMTT(20)
<1>7. \A i \in 1..n - 1 : Contents'[i] = Contents[i + 1]
  BY <1>1, <1>3, <1>5
<1>8. Contents' = Tail(Contents)
  BY <1>1, <1>3, <1>6, <1>7, TailByElement
<1>. QED BY <1>1, <1>4, <1>6, <1>8

(* A mailbox without entries maps to the empty queue. *)
LEMMA EmptyContents == ASSUME entry = 0 PROVE Contents = <<>>
BY DEF Contents

(* A step that leaves the ring alone leaves the queue alone. *)
LEMMA SameContents ==
  ASSUME UNCHANGED ring PROVE Contents' = Contents
<1>1. \A i : Slot(i)' = Slot(i)
  BY DEF ring, Slot
<1>2. entry' = entry /\ msg_pool' = msg_pool
  BY DEF ring
<1>. QED BY <1>1, <1>2 DEF Contents

(* A call that must wait, or that fails, is a step of the FIFO. *)
LEMMA BlockMaps ==
  ASSUME IInv, NEW t \in Threads, NEW o, NEW to, NEW v,
         Suspend(t, o, to, v), UNCHANGED ring,
         \/ t \in Senders /\ entry = Size
         \/ t \in Receivers /\ entry = 0
  PROVE  Fifo!Next
<1>1. Contents' = Contents
  BY SameContents
<1>2. \/ t \in Senders /\ Len(Contents) = Size
      \/ t \in Receivers /\ Contents = <<>>
  BY ContentsFacts, EmptyContents DEF IInv
<1>3. Fifo!Block(t)
  BY <1>1, <1>2 DEF Fifo!Block, Suspend, Fifo!Outcome, Outcome
<1>. QED BY <1>3 DEF Fifo!Next, Threads

(* A call that fails is a failing call of MailFifo. *)
LEMMA FailMaps ==
  ASSUME IInv, NEW t \in Threads, NEW c \in {"EFULL", "ETIMEOUT", "ERROR"},
         Return(t, c, NoMail), UNCHANGED ring,
         \/ c = "EFULL" /\ t \in Senders /\ entry = Size
         \/ c = "ETIMEOUT" /\ (entry = 0 \/ op[t] # "none")
         \/ c = "ERROR" /\ op[t] # "none"
  PROVE  Fifo!Next
<1>1. Contents' = Contents
  BY SameContents
<1>2. op[t] # "none" => ret[t].code = "pending"
  BY DEF IInv, CallState, Outcome
<1>3. Fifo!Fail(t, c)
  BY <1>1, <1>2, ContentsFacts, EmptyContents
  DEF IInv, Fifo!Fail, Return, Fifo!Outcome, Outcome
<1>. QED BY <1>3 DEF Fifo!Next, Threads

(* A mail put into the ring is a send of MailFifo. *)
LEMMA PutMaps ==
  ASSUME IInv, IInv', NEW t \in Senders, NEW v \in Mail, Put(t, v)
  PROVE  Fifo!Next
<1>1. Len(Contents) < Size /\ Contents' = Append(Contents, v)
  BY PutAppends DEF Threads
<1>2. Fifo!Put(t, v)
  BY <1>1 DEF Fifo!Put, Put, Return, Fifo!Outcome, Outcome
<1>. QED BY <1>2 DEF Fifo!Next

(* A mail fetched from the ring is a receive of MailFifo. *)
LEMMA GetMaps ==
  ASSUME IInv, IInv', NEW t \in Receivers, Get(t)
  PROVE  Fifo!Next
<1>1. /\ Contents # <<>> /\ Contents' = Tail(Contents)
      /\ msg_pool[out_offset] = Head(Contents)
  BY GetTakesHead DEF Threads
<1>2. Fifo!Get(t)
  BY <1>1 DEF Fifo!Get, Get, Return, Fifo!Outcome, Outcome
<1>. QED BY <1>2 DEF Fifo!Next

-----------------------------------------------------------------------------
(* The mailbox of ipc.c is a bounded FIFO (MailFifo) for its callers: each *)
(* critical section of rt_mb_send_wait and rt_mb_recv is an atomic Put or  *)
(* Get at the end or the head of Contents, leaves the caller pending, or   *)
(* fails without touching a mail; timers change nothing a caller sees and  *)
(* only a reset drops mails.                                               *)
THEOREM RefinesFifo == Spec => ImplementsFifo
<1>1. Init => Fifo!Init
  BY EmptyContents DEF Init, Fifo!Init, Outcome, Fifo!Outcome, Threads
<1>2. IInv /\ IInv' /\ [Next]_vars => [Fifo!Next]_(Fifo!vars)
  <2> SUFFICES ASSUME IInv, IInv', [Next]_vars
               PROVE  Fifo!Next \/ UNCHANGED Fifo!vars
    OBVIOUS
  <2>1. ASSUME NEW t \in Senders, NEW v \in Mail, NEW to \in Timeouts,
               rt_mb_send_wait(t, v, to)
        PROVE  Fifo!Next
    <3>1. CASE Put(t, v)
      BY <3>1, PutMaps
    <3>2. CASE SendSuspend(t, v, to)
      BY <3>2, BlockMaps DEF SendSuspend, Threads
    <3>3. CASE SendFull(t, to)
      BY <3>3, FailMaps, Zenon DEF SendFull, Threads
    <3>. QED BY <2>1, <3>1, <3>2, <3>3 DEF rt_mb_send_wait
  <2>2. ASSUME NEW t \in Senders, SendResumed(t)
        PROVE  Fifo!Next
    <3>1. t \in Threads /\ op[t] = "send" /\ value[t] \in Mail
      BY <2>2, Zenon DEF SendResumed, IInv, CallState, Threads
    <3>2. CASE error[t] # "EOK"
      <4>1. error[t] \in {"ETIMEOUT", "ERROR"} /\ Return(t, error[t], NoMail) /\ UNCHANGED ring
        BY <2>2, <3>1, <3>2, Zenon DEF SendResumed, IInv, TypeOK
      <4>. QED BY <3>1, <4>1, FailMaps, Zenon
    <3>3. CASE Put(t, value[t])
      BY <3>1, <3>3, PutMaps
    <3>4. ASSUME NEW to, SendSuspend(t, value[t], to) PROVE Fifo!Next
      BY <3>1, <3>4, BlockMaps, Zenon DEF SendSuspend
    <3>5. ASSUME NEW to, SendFull(t, to) PROVE Fifo!Next
      BY <3>1, <3>5, FailMaps, Zenon DEF SendFull
    <3>. QED BY <2>2, <3>2, <3>3, <3>4, <3>5, Zenon DEF SendResumed
  <2>3. ASSUME NEW t \in Receivers, NEW to \in Timeouts, rt_mb_recv(t, to)
        PROVE  Fifo!Next
    <3>1. CASE Get(t)
      BY <3>1, GetMaps
    <3>2. CASE RecvSuspend(t, to)
      BY <3>2, BlockMaps DEF RecvSuspend, Threads
    <3>3. CASE RecvEmpty(t, to)
      BY <3>3, FailMaps, Zenon DEF RecvEmpty, Threads
    <3>. QED BY <2>3, <3>1, <3>2, <3>3 DEF rt_mb_recv
  <2>4. ASSUME NEW t \in Receivers, RecvResumed(t)
        PROVE  Fifo!Next
    <3>1. t \in Threads /\ op[t] = "recv"
      BY <2>4, Zenon DEF RecvResumed, Threads
    <3>2. CASE error[t] # "EOK"
      <4>1. error[t] \in {"ETIMEOUT", "ERROR"} /\ Return(t, error[t], NoMail) /\ UNCHANGED ring
        BY <2>4, <3>1, <3>2, Zenon DEF RecvResumed, IInv, TypeOK
      <4>. QED BY <3>1, <4>1, FailMaps, Zenon
    <3>3. CASE Get(t)
      BY <3>3, GetMaps
    <3>4. ASSUME NEW to, RecvSuspend(t, to) PROVE Fifo!Next
      BY <3>1, <3>4, BlockMaps DEF RecvSuspend
    <3>5. ASSUME NEW to, RecvEmpty(t, to) PROVE Fifo!Next
      BY <3>1, <3>5, FailMaps DEF RecvEmpty
    <3>. QED BY <2>4, <3>2, <3>3, <3>4, <3>5, Zenon DEF RecvResumed
  <2>5. ASSUME NEW t \in Threads, rt_thread_timeout(t)
        PROVE  UNCHANGED Fifo!vars
    BY <2>5, SameContents DEF rt_thread_timeout, Fifo!vars
  <2>6. CASE Reset
    <3>1. Contents' = <<>> /\ ret' = ret
      BY <2>6 DEF Reset, Contents
    <3>2. Fifo!Clear
      BY <3>1 DEF Fifo!Clear
    <3>. QED BY <3>2 DEF Fifo!Next
  <2>7. ASSUME NEW t \in Restartable, rt_thread_detach(t)
        PROVE  Fifo!Next
    <3>1. t \in Receivers /\ Contents' = Contents
      BY <2>7, SameContents, RestartAssumption DEF rt_thread_detach
    <3>2. Fifo!Forget(t)
      BY <2>7, <3>1 DEF rt_thread_detach, Return, Fifo!Forget, Outcome, Fifo!Outcome
    <3>. QED BY <3>1, <3>2 DEF Fifo!Next
  <2>8. CASE UNCHANGED vars
    BY <2>8, SameContents, Zenon DEF vars, Fifo!vars
  <2>. QED BY <2>1, <2>2, <2>3, <2>4, <2>5, <2>6, <2>7, <2>8 DEF Next
<1>. QED BY <1>1, <1>2, Inductive, PTL DEF Spec, ImplementsFifo, Fifo!Spec

-----------------------------------------------------------------------------
(* A pending call carries a timeout error only if it had a timeout.        *)
TimedErrors ==
  \A t \in Threads : op[t] # "none" /\ error[t] = "ETIMEOUT" => timeout[t] = Some

(* A step of thread t touches the call of no other thread. *)
LEMMA OthersKeepCalls ==
  ASSUME TypeOK, NEW t \in Threads, NEW u \in Threads, u # t,
         \/ \E c, m : Return(t, c, m)
         \/ \E o, to, v : Suspend(t, o, to, v)
  PROVE  op'[u] = op[u] /\ timeout'[u] = timeout[u]
BY Zenon DEF TypeOK, Return, Suspend

(* The steps of a call, as seen by its thread. *)
LEMMA SendSteps ==
  ASSUME TypeOK, TimedErrors, NEW t \in Threads, NEW v, NEW to,
         \/ Put(t, v)
         \/ SendSuspend(t, v, to)
         \/ SendFull(t, to) /\ UNCHANGED error
  PROVE  TimedErrors'
<1>1. CASE Put(t, v)
  <2>1. op'[t] = "none" /\ error' = error
    BY <1>1, Zenon DEF Put, Return, TypeOK
  <2>. QED BY <1>1, <2>1, OthersKeepCalls, Zenon DEF TimedErrors, Put
<1>2. CASE SendSuspend(t, v, to)
  <2>1. error'[t] = "EOK" /\ \A u \in Threads \ {t} : error'[u] = error[u]
    BY <1>2, Zenon DEF SendSuspend, Suspend, TypeOK
  <2>. QED BY <1>2, <2>1, OthersKeepCalls, Zenon DEF TimedErrors, SendSuspend
<1>3. CASE SendFull(t, to) /\ UNCHANGED error
  <2>1. op'[t] = "none" /\ error' = error
    BY <1>3, Zenon DEF SendFull, Return, TypeOK
  <2>. QED BY <1>3, <2>1, OthersKeepCalls, Zenon DEF TimedErrors, SendFull
<1>. QED BY <1>1, <1>2, <1>3

(* The outcomes of rt_mb_recv keep TimedErrors. *)
LEMMA RecvSteps ==
  ASSUME TypeOK, TimedErrors, NEW t \in Threads, NEW to,
         \/ Get(t)
         \/ RecvSuspend(t, to)
         \/ RecvEmpty(t, to) /\ UNCHANGED error
         \/ RecvEmpty(t, to) /\ error' = [error EXCEPT ![t] = "ETIMEOUT"]
  PROVE  TimedErrors'
<1>1. CASE Get(t)
  <2>1. op'[t] = "none" /\ error' = error
    BY <1>1, Zenon DEF Get, Return, TypeOK
  <2>. QED BY <1>1, <2>1, OthersKeepCalls, Zenon DEF TimedErrors, Get
<1>2. CASE RecvSuspend(t, to)
  <2>1. error'[t] = "EOK" /\ \A u \in Threads \ {t} : error'[u] = error[u]
    BY <1>2, Zenon DEF RecvSuspend, Suspend, TypeOK
  <2>. QED BY <1>2, <2>1, OthersKeepCalls, Zenon DEF TimedErrors, RecvSuspend
<1>3. ASSUME RecvEmpty(t, to),
             UNCHANGED error \/ error' = [error EXCEPT ![t] = "ETIMEOUT"]
      PROVE  TimedErrors'
  <2>1. op'[t] = "none" /\ \A u \in Threads \ {t} : error'[u] = error[u]
    BY <1>3, Zenon DEF RecvEmpty, Return, TypeOK
  <2>. QED BY <1>3, <2>1, OthersKeepCalls, Zenon DEF TimedErrors, RecvEmpty
<1>. QED BY <1>1, <1>2, <1>3

(* A call that returns the error it was resumed with keeps TimedErrors. *)
LEMMA ErrorReturns ==
  ASSUME TypeOK, TimedErrors, NEW t \in Threads,
         Return(t, error[t], NoMail), UNCHANGED error
  PROVE  TimedErrors'
<1>1. op'[t] = "none"
  BY DEF Return, TypeOK
<1>. QED BY <1>1, OthersKeepCalls, Zenon DEF TimedErrors

(* A thread that waits for ever never has the error code of a timeout. *)
LEMMA TimedErrorsHold == Spec => []TimedErrors
<1>1. Init => TimedErrors
  BY DEF Init, TimedErrors
<1>2. IInv /\ TimedErrors /\ [Next]_vars => TimedErrors'
  <2> SUFFICES ASSUME TypeOK, TimedErrors, [Next]_vars PROVE TimedErrors'
    BY DEF IInv
  <2>1. ASSUME NEW t \in Senders, NEW v \in Mail, NEW to \in Timeouts,
               rt_mb_send_wait(t, v, to)
        PROVE  TimedErrors'
    BY <2>1, SendSteps DEF rt_mb_send_wait, Threads
  <2>2. ASSUME NEW t \in Senders, SendResumed(t) PROVE TimedErrors'
    BY <2>2, SendSteps, ErrorReturns, Zenon DEF SendResumed, Threads
  <2>3. ASSUME NEW t \in Receivers, NEW to \in Timeouts, rt_mb_recv(t, to)
        PROVE  TimedErrors'
    BY <2>3, RecvSteps, Zenon DEF rt_mb_recv, Threads
  <2>4. ASSUME NEW t \in Receivers, RecvResumed(t) PROVE TimedErrors'
    BY <2>4, RecvSteps, ErrorReturns, Zenon DEF RecvResumed, Threads
  <2>5. ASSUME NEW t \in Threads, rt_thread_timeout(t) PROVE TimedErrors'
    BY <2>5, Zenon DEF rt_thread_timeout, TimedErrors, TypeOK, call
  <2>6. CASE Reset
    BY <2>6, Zenon DEF Reset, ResumeAll, TimedErrors, TypeOK, call
  <2>7. ASSUME NEW t \in Restartable, rt_thread_detach(t) PROVE TimedErrors'
    <3>1. t \in Threads /\ op'[t] = "none" /\ \A u \in Threads \ {t} : error'[u] = error[u]
      BY <2>7, RestartAssumption, Zenon DEF rt_thread_detach, Return, TypeOK, Threads
    <3>. QED BY <2>7, <3>1, OthersKeepCalls, Zenon DEF TimedErrors, rt_thread_detach
  <2>8. CASE UNCHANGED vars
    BY <2>8, Zenon DEF vars, call, TimedErrors
  <2>. QED BY <2>1, <2>2, <2>3, <2>4, <2>5, <2>6, <2>7, <2>8, Zenon DEF Next
<1>. QED BY <1>1, <1>2, Inductive, PTL DEF Spec

(* Waiting with RT_WAITING_FOREVER really is: a resumed call whose mail or *)
(* slot was taken by somebody else goes back to sleep and never reports a  *)
(* timeout or a full mailbox.                                              *)
THEOREM ForeverNeverTimesOut == Spec => ForeverIsForever
<1> DEFINE A == \A t \in Threads :
        op[t] # "none" /\ timeout[t] = Forever /\ op'[t] = "none"
          => ret'[t].code \in {"EOK", "ERROR", "none"}
<1>1. IInv /\ TimedErrors /\ [Next]_vars => [A]_vars
  <2> SUFFICES ASSUME TypeOK, TimedErrors, Next,
                      NEW u \in Threads, op[u] # "none", timeout[u] = Forever, op'[u] = "none"
               PROVE  ret'[u].code \in {"EOK", "ERROR", "none"}
    BY Zenon DEF IInv
  <2>0. error[u] # "ETIMEOUT" /\ error[u] \in {"EOK", "ETIMEOUT", "ERROR"} /\ TimeLeft(u) = {Forever}
    BY SMTT(20) DEF TimedErrors, TypeOK, Some, Forever, TimeLeft
  <2>1. \A c, m : Return(u, c, m) => ret'[u].code = c
    <3>1. u \in DOMAIN ret
      BY DEF TypeOK
    <3>. QED BY <3>1 DEF Return, Outcome
  <2>2. \A t \in Threads : \A c, m : Return(t, c, m) => u = t
    BY DEF Return, TypeOK
  <2>3. \A t \in Threads, o \in {"send", "recv"} : \A to, v : ~Suspend(t, o, to, v)
    BY DEF Suspend, TypeOK
  <2>4. ASSUME NEW t \in Senders, NEW v \in Mail, NEW to \in Timeouts,
               rt_mb_send_wait(t, v, to)
        PROVE  FALSE
    BY <2>2, <2>3, <2>4, Zenon DEF rt_mb_send_wait, Put, SendSuspend, SendFull, Threads
  <2>5. ASSUME NEW t \in Senders, SendResumed(t)
        PROVE  ret'[u].code \in {"EOK", "ERROR", "none"}
    <3>1. t \in Threads
      BY Zenon DEF Threads
    <3>2. CASE Return(t, error[t], NoMail) /\ error[t] # "EOK"
      BY <2>0, <2>1, <2>2, <3>1, <3>2, Zenon
    <3>3. CASE Put(t, value[t])
      BY <2>1, <2>2, <3>1, <3>3, Zenon DEF Put
    <3>4. ASSUME NEW to \in TimeLeft(t), SendSuspend(t, value[t], to) PROVE FALSE
      BY <2>3, <3>1, <3>4, Zenon DEF SendSuspend
    <3>5. ASSUME NEW to \in TimeLeft(t), SendFull(t, to) PROVE FALSE
      BY <2>0, <2>2, <3>1, <3>5 DEF SendFull, Forever
    <3>. QED BY <2>5, <3>2, <3>3, <3>4, <3>5, Zenon DEF SendResumed
  <2>6. ASSUME NEW t \in Receivers, NEW to \in Timeouts, rt_mb_recv(t, to)
        PROVE  FALSE
    BY <2>2, <2>3, <2>6, Zenon DEF rt_mb_recv, Get, RecvSuspend, RecvEmpty, Threads
  <2>7. ASSUME NEW t \in Receivers, RecvResumed(t)
        PROVE  ret'[u].code \in {"EOK", "ERROR", "none"}
    <3>1. t \in Threads
      BY DEF Threads
    <3>2. CASE Return(t, error[t], NoMail) /\ error[t] # "EOK"
      BY <2>0, <2>1, <2>2, <3>1, <3>2, Zenon
    <3>3. CASE Get(t)
      BY <2>1, <2>2, <3>1, <3>3, Zenon DEF Get
    <3>4. ASSUME NEW to \in TimeLeft(t), RecvSuspend(t, to) PROVE FALSE
      BY <2>3, <3>1, <3>4, Zenon DEF RecvSuspend
    <3>5. ASSUME NEW to \in TimeLeft(t), RecvEmpty(t, to) PROVE FALSE
      BY <2>0, <2>2, <3>1, <3>5 DEF RecvEmpty, Forever
    <3>. QED BY <2>7, <3>2, <3>3, <3>4, <3>5, Zenon DEF RecvResumed
  <2>8. ASSUME NEW t \in Threads, rt_thread_timeout(t) PROVE FALSE
    BY <2>8 DEF rt_thread_timeout, call
  <2>9. ~Reset
    BY Zenon DEF Reset, call
  <2>10. ASSUME NEW t \in Restartable, rt_thread_detach(t)
         PROVE  ret'[u].code \in {"EOK", "ERROR", "none"}
    BY <2>1, <2>2, <2>10, RestartAssumption, SMTT(20) DEF rt_thread_detach, Threads
  <2>. QED BY <2>4, <2>5, <2>6, <2>7, <2>8, <2>9, <2>10, Zenon DEF Next
<1>. QED BY <1>1, Inductive, TimedErrorsHold, PTL DEF Spec, ForeverIsForever
=============================================================================
