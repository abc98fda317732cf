------------------------------- MODULE MsgFifo -------------------------------
(***************************************************************************)
(* What an RT-Thread message queue promises: messages are received in the  *)
(* order in which they were sent, urgent ones before all others, and each  *)
(* with the contents its sender gave it.  MessageQueue.tla (the blocks,    *)
(* the linked lists and the copying of src/src/ipc.c) implements it.       *)
(***************************************************************************)
EXTENDS Sequences

CONSTANTS Senders, Receivers, Message, NoMessage

VARIABLES
  queue,    \* the messages waiting, next one first
  sending,  \* per sender: the message of its call in progress, and whether it is urgent
  got       \* per receiver: the message its last successful call obtained

vars == <<queue, sending, got>>

Nothing == [message |-> NoMessage, urgent |-> FALSE]

Init ==
  /\ queue = <<>>
  /\ sending = [t \in Senders |-> Nothing]
  /\ got = [t \in Receivers |-> NoMessage]

Begin(t) ==
  /\ sending[t] = Nothing
  /\ \E v \in Message, u \in BOOLEAN :
        sending' = [sending EXCEPT ![t] = [message |-> v, urgent |-> u]]
  /\ UNCHANGED <<queue, got>>

Send(t) ==
  /\ sending[t] # Nothing
  /\ queue' = IF sending[t].urgent THEN <<sending[t].message>> \o queue
              ELSE Append(queue, sending[t].message)
  /\ sending' = [sending EXCEPT ![t] = Nothing]
  /\ UNCHANGED got

(* The sender is started afresh, and its message is dropped. *)
Abandon(t) == sending' = [sending EXCEPT ![t] = Nothing] /\ UNCHANGED <<queue, got>>

Receive(t) ==
  /\ queue # <<>>
  /\ queue' = Tail(queue)
  /\ got' = [got EXCEPT ![t] = Head(queue)]
  /\ UNCHANGED sending

(* A new call, or a fresh start of the thread, forgets the last message. *)
Forget(t) == got' = [got EXCEPT ![t] = NoMessage] /\ UNCHANGED <<queue, sending>>

Clear == queue' = <<>> /\ UNCHANGED <<sending, got>>

Next ==
  \/ \E t \in Senders : Begin(t) \/ Send(t) \/ Abandon(t)
  \/ \E t \in Receivers : Receive(t) \/ Forget(t)
  \/ Clear

Spec == Init /\ [][Next]_vars
=============================================================================
