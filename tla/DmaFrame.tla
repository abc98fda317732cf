------------------------------ MODULE DmaFrame ------------------------------
(* Reception of fixed-size frames by DMA (drivers/dma.c, drivers/          *)
(* dma_rx_isr.c): the two handles (9 bytes), the laser range finder        *)
(* (5 bytes) and the motor (8 bytes) send frames that start with a head    *)
(* byte.  The stream is circular: it raises an interrupt when NDTR bytes   *)
(* have come in, and the handler either hands the frame over or changes    *)
(* NDTR so that the following transfers begin at a head.  No frame carries *)
(* a length, and the handler checks no sum.                                *)
(*                                                                         *)
(* A byte is its place in the sender's frame and whether it has the value  *)
(* of the head.  The handler runs within the time of one byte (87 us at    *)
(* 115200 baud), so no byte comes in between the interrupt and its end.    *)
EXTENDS Naturals, Sequences, FiniteSets

CONSTANTS recv_size,   \* bytes of a frame
          Lookalikes,  \* whether a payload byte may have the head's value
          MaxLost      \* bytes the line loses in a behaviour

ASSUME SizeAssumption == recv_size \in Nat \ {0} /\ MaxLost \in Nat
ASSUME LookalikesAssumption == Lookalikes \in BOOLEAN

VARIABLES next,     \* place in its frame of the byte the sender sends next
          M0AR,     \* the bytes of the transfer in progress
          NDTR,     \* length of the transfer in progress
          recv,     \* what recv_addr holds: the frame the threads read
          rx_cnt,   \* the count of frames, of which one bit is kept
          lost,     \* history: bytes lost in all
          hurt,     \* history: bytes lost since the last intact frame; a start in
                    \* the middle of a frame counts as one
          missed    \* history: transfers since the last frame handed over

vars == <<next, M0AR, NDTR, recv, rx_cnt, lost, hurt, missed>>

Byte == [at: 0..(recv_size - 1), head: BOOLEAN]

(* No frame has come in yet. *)
Blank == << >>

(* uart_dma_init: a transfer is a frame long.  The sender may be anywhere  *)
(* in its frame when the stream is enabled.                                *)
Init ==
  /\ next \in 0..(recv_size - 1)
  /\ M0AR = << >> /\ NDTR = recv_size
  /\ recv = Blank /\ rx_cnt = 0
  /\ lost = 0 /\ missed = 0
  /\ hurt = IF next = 0 THEN 0 ELSE 1

(* The line: a byte comes in, or is lost.                                  *)
Sendable == {b \in Byte : /\ b.at = next
                          /\ b.at = 0 => b.head
                          /\ b.head => b.at = 0 \/ Lookalikes}

Pass == next' = IF next + 1 = recv_size THEN 0 ELSE next + 1

Receive ==
  /\ Len(M0AR) < NDTR
  /\ \E b \in Sendable : M0AR' = Append(M0AR, b)
  /\ Pass
  /\ UNCHANGED <<NDTR, recv, rx_cnt, lost, hurt, missed>>

Lose ==
  /\ Len(M0AR) < NDTR
  /\ lost < MaxLost
  /\ lost' = lost + 1 /\ hurt' = hurt + 1
  /\ Pass
  /\ UNCHANGED <<M0AR, NDTR, recv, rx_cnt, missed>>

Heads == {i \in 0..(recv_size - 1) : M0AR[i + 1].head}

(* The place of the first head byte in the first recv_size bytes,          *)
(* recv_size if there is none.                                             *)
FirstHead == IF Heads = {} THEN recv_size
             ELSE CHOOSE i \in Heads : \A j \in Heads : i <= j

Frame == SubSeq(M0AR, 1, recv_size)

Intact(f) == Len(f) = recv_size /\ \A k \in 1..recv_size : f[k].at = k - 1

(* Counts missed transfers up to the 3 that tell the properties apart.     *)
Missed == missed' = IF missed < 3 THEN missed + 1 ELSE 3

(* Mutant of Deliver: the length of the transfer is not tested.            *)
DeliverAnyLength ==
  /\ FirstHead = 0
  /\ recv' = Frame
  /\ rx_cnt' = (rx_cnt + 1) % 2
  /\ hurt' = IF Intact(Frame) THEN 0 ELSE hurt
  /\ missed' = 0
  /\ UNCHANGED NDTR

(* Mutant of Deliver: the frame is not counted.                            *)
DeliverUncounted ==
  /\ FirstHead = 0 /\ NDTR = recv_size
  /\ recv' = Frame
  /\ hurt' = IF Intact(Frame) THEN 0 ELSE hurt
  /\ missed' = 0
  /\ UNCHANGED <<NDTR, rx_cnt>>

(* The transfer begins with a head and is a frame long.                    *)
Deliver ==
  /\ FirstHead = 0 /\ NDTR = recv_size
  /\ recv' = Frame
  /\ rx_cnt' = (rx_cnt + 1) % 2
  /\ hurt' = IF Intact(Frame) THEN 0 ELSE hurt
  /\ missed' = 0
  /\ UNCHANGED NDTR

(* Mutant of FirstError: recv_size is added when there is no head.         *)
FirstErrorAddsNone ==
  /\ FirstHead # 0 /\ NDTR = recv_size
  /\ NDTR' = NDTR + FirstHead
  /\ Missed
  /\ UNCHANGED <<recv, rx_cnt, hurt>>

(* A frame long, but not aligned: the next transfer is longer by the place *)
(* of the head, so that it ends where a frame ends.                        *)
FirstError ==
  /\ FirstHead # 0 /\ NDTR = recv_size
  /\ NDTR' = IF FirstHead = recv_size THEN NDTR ELSE NDTR + FirstHead
  /\ Missed
  /\ UNCHANGED <<recv, rx_cnt, hurt>>

(* Mutant of SecondError: the length is never reset.                       *)
SecondErrorStaysLong ==
  /\ NDTR # recv_size
  /\ Missed
  /\ UNCHANGED <<NDTR, recv, rx_cnt, hurt>>

(* The longer transfer: back to a frame's length if the head is where the  *)
(* first error found it.                                                   *)
SecondError ==
  /\ NDTR # recv_size
  /\ NDTR' = IF FirstHead # recv_size /\ NDTR = FirstHead + recv_size
             THEN recv_size ELSE NDTR
  /\ Missed
  /\ UNCHANGED <<recv, rx_cnt, hurt>>

(* rt_hw_serial_dma_rx_isr: enabling the stream again makes it start at    *)
(* the beginning of the buffer.                                            *)
Isr ==
  /\ Len(M0AR) = NDTR
  /\ M0AR' = << >>
  /\ Deliver \/ FirstError \/ SecondError
  /\ UNCHANGED <<next, lost>>

Next == Receive \/ Lose \/ Isr

Spec == Init /\ [][Next]_vars

(* The senders send all the time, and the interrupt is served.             *)
FairSpec == Spec /\ WF_vars(Receive) /\ WF_vars(Isr)

-----------------------------------------------------------------------------
(* The transfer never grows beyond one frame and the rest of another, so   *)
(* it stays inside the 20 bytes of uart_dma_buf (dma.c:64).                *)
TypeOK ==
  /\ next \in 0..(recv_size - 1)
  /\ NDTR \in recv_size..(2 * recv_size - 1)
  /\ M0AR \in Seq(Byte) /\ Len(M0AR) <= NDTR
  /\ recv = Blank \/ (recv \in Seq(Byte) /\ Len(recv) = recv_size)
  /\ rx_cnt \in {0, 1}
  /\ lost \in 0..MaxLost /\ hurt \in 0..(lost + 1) /\ missed \in 0..3

(* If at most one byte was lost since the last intact frame, or reception  *)
(* began in the middle of a frame and none was lost, at most two transfers *)
(* in a row hand over no frame (dma_rx_isr.c:48-90).                       *)
OneLossTwoFrames == hurt <= 1 => missed <= 2

(* Once a whole frame has been handed over, the receiver stays in step for *)
(* as long as no byte is lost, whatever the payload holds, a byte of the   *)
(* head's value included (dma_rx_isr.c:32).                                *)
StaysInStep ==
  Intact(recv) /\ hurt = 0 =>
    NDTR = recv_size /\ \A k \in 1..Len(M0AR) : M0AR[k].at = k - 1

(* After the last loss frames are handed over again, for ever: the comment *)
(* at dma_rx_isr.c:51 says that the new length reaches alignment.          *)
Resynchronises == []<><<rx_cnt' # rx_cnt>>_vars
=============================================================================
