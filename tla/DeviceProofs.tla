---------------------------- MODULE DeviceProofs ----------------------------
(***************************************************************************)
(* Proofs about the two receive interrupts.                                *)
(*                                                                         *)
(* DmaFrame, for every frame size, every payload and any number of lost    *)
(* bytes: type correctness, with it the bound on the transfer, and that a  *)
(* receiver in step stays in step or soon is again.                        *)
(*                                                                         *)
(* ImgSave, for every size of the image and every ring that is smaller     *)
(* than it: what it promises of a saved image.                             *)
(***************************************************************************)
EXTENDS DmaFrame, ImgSave, WellFoundedInduction, TLAPS

(* A set of natural numbers that is not empty has a least member: the      *)
(* search loop of the handler stops at it.                                 *)
LEMMA Least ==
  ASSUME NEW S \in SUBSET Nat, S # {}
  PROVE  \E i \in S : \A j \in S : i <= j
<1> DEFINE R == OpToRel(<, Nat)
<1>1. PICK i \in S : \A j \in S : ~(<<j, i>> \in R)
  <2> HIDE DEF R
  <2>1. IsWellFoundedOn(R, Nat)
    BY NatLessThanWellFounded, Zenon DEF R
  <2> QED BY <2>1, WFMin, Zenon
<1>2. ASSUME NEW j \in S PROVE i <= j
  <2>1. i \in Nat /\ j \in Nat
    OBVIOUS
  <2>2. ~(j < i)
    BY <1>1, <2>1, Zenon DEF OpToRel
  <2> QED BY <2>1, <2>2
<1> QED BY <1>2

(* FirstHead is a place in the frame or recv_size, and 0 if the first byte *)
(* is a head (dma_rx_isr.c:55-59).                                         *)
LEMMA FirstHeadPlace ==
  /\ FirstHead \in 0..recv_size
  /\ M0AR[1].head => FirstHead = 0
<1> USE SizeAssumption
<1>1. Heads \in SUBSET Nat /\ Heads \subseteq 0..(recv_size - 1)
  BY DEF Heads
<1>2. M0AR[1].head => 0 \in Heads
  BY DEF Heads
<1>3. CASE Heads = {}
  BY <1>2, <1>3 DEF FirstHead
<1>4. CASE Heads # {}
  <2>1. \E i \in Heads : \A j \in Heads : i <= j
    BY <1>1, <1>4, Least
  <2>2. FirstHead \in Heads /\ \A j \in Heads : FirstHead <= j
    BY <1>4, <2>1 DEF FirstHead
  <2> QED BY <1>1, <1>2, <2>2
<1> QED BY <1>3, <1>4

(* What a full transfer hands over has the length of a frame and the bytes *)
(* of the buffer.                                                          *)
LEMMA FrameOfBuffer ==
  ASSUME M0AR \in Seq(Byte), Len(M0AR) >= recv_size
  PROVE  /\ Frame \in Seq(Byte) /\ Len(Frame) = recv_size
         /\ \A k \in 1..recv_size : Frame[k] = M0AR[k]
BY SizeAssumption DEF Frame

-----------------------------------------------------------------------------
(* Type correctness: the type invariant is inductive.                      *)
LEMMA TypeStep == TypeOK /\ [Next]_vars => TypeOK'
<1> SUFFICES ASSUME TypeOK, [Next]_vars PROVE TypeOK'
  OBVIOUS
<1> USE SizeAssumption
<1>1. CASE Receive
  <2>1. PICK b \in Byte : M0AR' = Append(M0AR, b)
    BY <1>1 DEF Receive, Sendable
  <2>2. M0AR' \in Seq(Byte) /\ Len(M0AR') = Len(M0AR) + 1
    BY <2>1 DEF TypeOK
  <2>3. Len(M0AR') <= NDTR' /\ NDTR' = NDTR
    BY <1>1, <2>2 DEF Receive, TypeOK
  <2>4. next' \in 0..(recv_size - 1)
    BY <1>1 DEF Receive, Pass, TypeOK
  <2> QED BY <1>1, <2>2, <2>3, <2>4 DEF Receive, TypeOK
<1>2. CASE Lose
  <2>1. next' \in 0..(recv_size - 1)
    BY <1>2 DEF Lose, Pass, TypeOK
  <2>2. lost' \in 0..MaxLost /\ hurt' \in 0..(lost' + 1)
    BY <1>2 DEF Lose, TypeOK
  <2> QED BY <1>2, <2>1, <2>2 DEF Lose, TypeOK
<1>3. CASE Isr
  <2>1. M0AR' \in Seq(Byte) /\ Len(M0AR') = 0 /\ next' = next /\ lost' = lost
    BY <1>3 DEF Isr
  <2>2. M0AR \in Seq(Byte) /\ Len(M0AR) >= recv_size
    BY <1>3 DEF Isr, TypeOK
  <2>3. CASE Deliver
    <3>1. recv' \in Seq(Byte) /\ Len(recv') = recv_size
      BY <2>2, <2>3, FrameOfBuffer DEF Deliver
    <3>2. rx_cnt' \in {0, 1} /\ missed' \in 0..3 /\ hurt' \in 0..(lost + 1) /\ NDTR' = NDTR
      BY <2>3 DEF Deliver, TypeOK
    <3> QED BY <2>1, <3>1, <3>2 DEF TypeOK
  <2>4. CASE FirstError
    <3>1. NDTR' \in recv_size..(2 * recv_size - 1)
      BY <2>4, FirstHeadPlace DEF FirstError, TypeOK
    <3>2. missed' \in 0..3
      BY <2>4 DEF FirstError, Missed, TypeOK
    <3> QED BY <2>1, <2>4, <3>1, <3>2 DEF FirstError, TypeOK
  <2>5. CASE SecondError
    <3>1. NDTR' \in recv_size..(2 * recv_size - 1)
      BY <2>5 DEF SecondError, TypeOK
    <3>2. missed' \in 0..3
      BY <2>5 DEF SecondError, Missed, TypeOK
    <3> QED BY <2>1, <2>5, <3>1, <3>2 DEF SecondError, TypeOK
  <2> QED BY <1>3, <2>3, <2>4, <2>5 DEF Isr
<1>4. CASE UNCHANGED vars
  BY <1>4 DEF vars, TypeOK
<1> QED BY <1>1, <1>2, <1>3, <1>4 DEF Next

(* The transfer and everything else has its type: NDTR never exceeds one   *)
(* frame and the rest of another, for any frame size and any losses        *)
(* (dma_rx_isr.c:66, 87).                                                  *)
THEOREM TransferBounded == Spec => []TypeOK
<1>1. Init => TypeOK
  BY SizeAssumption DEF Init, TypeOK, Blank
<1> QED BY <1>1, TypeStep, PTL DEF Spec

-----------------------------------------------------------------------------
(* In step: the transfer is a frame long and holds the beginning of one,   *)
(* the rest of which the sender is about to send.                          *)
InStep ==
  /\ NDTR = recv_size
  /\ \A k \in 1..Len(M0AR) : M0AR[k].at = k - 1
  /\ next = IF Len(M0AR) = recv_size THEN 0 ELSE Len(M0AR)

(* The inductive form of StaysInStep.  The sender's place is part of it,   *)
(* as are the facts that the head of a frame has the head's value and that *)
(* nothing is lost between the last byte of a transfer and the interrupt.  *)
Inv ==
  /\ TypeOK
  /\ \A k \in 1..Len(M0AR) : M0AR[k].at = 0 => M0AR[k].head
  /\ Len(M0AR) = NDTR =>
       next = IF M0AR[NDTR].at + 1 = recv_size THEN 0 ELSE M0AR[NDTR].at + 1
  /\ Intact(recv) /\ hurt = 0 => InStep

(* The receiver as the start-up code leaves it. *)
LEMMA InvInit == Init => Inv
<1> SUFFICES ASSUME Init PROVE Inv
  OBVIOUS
<1> USE SizeAssumption
<1>1. TypeOK
  BY DEF Init, TypeOK, Blank
<1>2. ~Intact(recv)
  BY DEF Init, Blank, Intact
<1> QED BY <1>1, <1>2 DEF Inv, Init

(* Every byte, loss and interrupt keeps Inv. *)
LEMMA InvStep == Inv /\ [Next]_vars => Inv'
<1> SUFFICES ASSUME Inv, [Next]_vars PROVE Inv'
  OBVIOUS
<1> USE SizeAssumption
<1>0. TypeOK /\ TypeOK'
  BY TypeStep DEF Inv
<1>1. CASE Receive
  <2>1. PICK b \in Sendable : M0AR' = Append(M0AR, b)
    BY <1>1 DEF Receive
  <2>2. b \in Byte /\ b.at = next /\ (b.at = 0 => b.head)
    BY <2>1 DEF Sendable
  <2>3. PICK n \in Nat : n = Len(M0AR) /\ n < NDTR
    BY <1>0, <1>1 DEF Receive, TypeOK
  <2>4. /\ Len(M0AR') = n + 1
        /\ \A k \in 1..n : M0AR'[k] = M0AR[k]
        /\ M0AR'[n + 1] = b
    BY <1>0, <2>1, <2>2, <2>3 DEF TypeOK
  <2>5. next' = IF next + 1 = recv_size THEN 0 ELSE next + 1
    BY <1>1 DEF Receive, Pass
  <2>6. NDTR' = NDTR /\ recv' = recv /\ hurt' = hurt
    BY <1>1 DEF Receive
  <2>7. \A k \in 1..Len(M0AR') : M0AR'[k].at = 0 => M0AR'[k].head
    BY <2>2, <2>3, <2>4 DEF Inv
  <2>8. Len(M0AR') = NDTR' =>
          next' = IF M0AR'[NDTR'].at + 1 = recv_size THEN 0 ELSE M0AR'[NDTR'].at + 1
    BY <2>2, <2>4, <2>5, <2>6
  <2>9. ASSUME Intact(recv'), hurt' = 0 PROVE InStep'
    <3>1. InStep
      BY <2>6, <2>9 DEF Inv, Intact
    <3>2. next = n /\ NDTR = recv_size
      BY <2>3, <3>1 DEF InStep
    <3>3. \A k \in 1..Len(M0AR') : M0AR'[k].at = k - 1
      BY <2>2, <2>3, <2>4, <3>1, <3>2 DEF InStep
    <3> QED BY <2>3, <2>4, <2>5, <2>6, <3>2, <3>3 DEF InStep
  <2> QED BY <1>0, <2>7, <2>8, <2>9 DEF Inv, Intact
<1>2. CASE Lose
  <2>1. hurt' # 0
    BY <1>0, <1>2 DEF Lose, TypeOK
  <2>2. M0AR' = M0AR /\ NDTR' = NDTR /\ Len(M0AR) < NDTR
    BY <1>2 DEF Lose
  <2>3. Len(M0AR') # NDTR'
    BY <1>0, <2>2 DEF TypeOK
  <2> QED BY <1>0, <2>1, <2>2, <2>3 DEF Inv
<1>3. CASE Isr
  <2>1. M0AR' = << >> /\ Len(M0AR') = 0 /\ next' = next /\ Len(M0AR) = NDTR
    BY <1>3 DEF Isr
  <2>2. Len(M0AR') # NDTR'
    BY <1>0, <2>1 DEF TypeOK
  <2>3. M0AR \in Seq(Byte) /\ Len(M0AR) >= recv_size
    BY <1>0, <2>1 DEF TypeOK
  <2>4. ASSUME Intact(recv), hurt = 0 PROVE FirstHead = 0 /\ NDTR = recv_size
    <3>1. NDTR = recv_size /\ M0AR[1].at = 0
      BY <2>1, <2>3, <2>4 DEF Inv, InStep
    <3>2. M0AR[1].head
      BY <2>3, <3>1 DEF Inv
    <3> QED BY <3>1, <3>2, FirstHeadPlace
  <2>5. ASSUME Intact(recv'), hurt' = 0 PROVE InStep'
    <3>1. CASE Deliver
      <4>1. NDTR = recv_size /\ NDTR' = recv_size /\ recv' = Frame
        BY <3>1 DEF Deliver
      <4>2. M0AR[recv_size].at = recv_size - 1
        <5>1. Frame[recv_size].at = recv_size - 1
          BY <2>5, <4>1 DEF Intact
        <5> QED BY <2>3, <5>1, FrameOfBuffer
      <4>3. next = 0
        BY <2>1, <4>1, <4>2 DEF Inv
      <4> QED BY <2>1, <4>1, <4>3 DEF InStep
    <3>2. CASE FirstError
      BY <2>4, <2>5, <3>2 DEF FirstError, Intact
    <3>3. CASE SecondError
      BY <2>4, <2>5, <3>3 DEF SecondError, Intact
    <3> QED BY <1>3, <3>1, <3>2, <3>3 DEF Isr
  <2> QED BY <1>0, <2>1, <2>2, <2>5 DEF Inv, Intact
<1>4. CASE UNCHANGED vars
  BY <1>0, <1>4 DEF vars, Inv, InStep, Intact
<1> QED BY <1>1, <1>2, <1>3, <1>4 DEF Next

(* Once a whole frame has come in the receiver stays in step until a byte  *)
(* is lost, whatever the payload holds (dma_rx_isr.c:32).                  *)
THEOREM InStepUntilLoss == Spec => []StaysInStep
<1>1. Inv => StaysInStep
  BY DEF Inv, InStep, StaysInStep
<1> QED BY <1>1, InvInit, InvStep, PTL DEF Spec

-----------------------------------------------------------------------------
(* The remainder of x by recv_size, for the x below 3 * recv_size that the *)
(* places in a transfer need.                                              *)
Wrap(x) ==
  IF x < recv_size THEN x
  ELSE IF x < 2 * recv_size THEN x - recv_size ELSE x - 2 * recv_size

(* The transfer holds consecutive bytes of the sender, from place a on.    *)
Run(a) ==
  /\ \A k \in 1..Len(M0AR) : M0AR[k].at = Wrap(a + k - 1)
  /\ next = Wrap(a + Len(M0AR))

(* The transfer began with a frame, and one byte of that frame is missing. *)
Gap ==
  /\ missed = 0 /\ hurt = 1 /\ NDTR = recv_size
  /\ Len(M0AR) > 0 /\ M0AR[1].at = 0
  /\ next = Wrap(Len(M0AR) + 1)

(* The way back into step after one loss: the transfer that shows that the *)
(* frames begin at another place, the longer one that ends with a frame,   *)
(* and the first in step again.                                            *)
Recovering(a) ==
  /\ Run(a)
  /\ \/ missed = 0 /\ NDTR = recv_size /\ (hurt = 0 => a = 0)
     \/ missed = 1 /\ hurt = 1 /\ a # 0 /\ NDTR = 2 * recv_size - a
     \/ missed = 2 /\ hurt = 1 /\ a = 0 /\ NDTR = recv_size

Recovery ==
  /\ Inv
  /\ \A k \in 1..Len(M0AR) : M0AR[k].head => M0AR[k].at = 0
  /\ hurt <= 1 => Gap \/ \E a \in 0..(recv_size - 1) : Recovering(a)

(* In consecutive bytes from place a the first head is where place 0 comes *)
(* round.                                                                  *)
LEMMA HeadOfRun ==
  ASSUME Recovery, NEW a \in 0..(recv_size - 1), Run(a), Len(M0AR) >= recv_size
  PROVE  FirstHead = IF a = 0 THEN 0 ELSE recv_size - a
<1> USE SizeAssumption
<1>1. PICK h \in 0..(recv_size - 1) : h = IF a = 0 THEN 0 ELSE recv_size - a
  <2>1. (IF a = 0 THEN 0 ELSE recv_size - a) \in 0..(recv_size - 1)
    OBVIOUS
  <2> QED BY <2>1, Zenon
<1>2. Len(M0AR) \in Nat
  BY DEF Recovery, Inv, TypeOK
<1>3. M0AR[h + 1].head
  <2>1. M0AR[h + 1].at = Wrap(a + h)
    BY <1>2 DEF Run
  <2>2. Wrap(a + h) = 0
    BY <1>1 DEF Wrap
  <2> QED BY <1>2, <2>1, <2>2 DEF Recovery, Inv
<1>4. ASSUME NEW i \in 0..(recv_size - 1), M0AR[i + 1].head PROVE i = h
  <2>1. M0AR[i + 1].at = 0
    BY <1>2, <1>4 DEF Recovery
  <2>2. M0AR[i + 1].at = Wrap(a + i)
    BY <1>2 DEF Run
  <2> QED BY <1>1, <2>1, <2>2 DEF Wrap
<1>5. Heads = {h}
  BY <1>2, <1>3, <1>4 DEF Heads
<1>6. \E i \in Heads : \A j \in Heads : i <= j
  BY <1>5
<1>7. FirstHead \in Heads
  BY <1>5, <1>6 DEF FirstHead
<1> QED BY <1>1, <1>5, <1>7

(* A start in the middle of a frame counts as one loss. *)
LEMMA RecoveryInit == Init => Recovery
<1> SUFFICES ASSUME Init PROVE Recovery
  OBVIOUS
<1>1. Inv /\ Len(M0AR) = 0
  BY InvInit DEF Init
<1>2. Recovering(next)
  BY <1>1, SizeAssumption DEF Init, Recovering, Run, Wrap
<1> QED BY <1>1, <1>2 DEF Recovery, Init

(* Every byte, loss and interrupt keeps Recovery. *)
LEMMA RecoveryStep ==
  ASSUME Lookalikes = FALSE, Recovery, [Next]_vars
  PROVE  Recovery'
<1> USE SizeAssumption
<1>0. Inv /\ Inv' /\ TypeOK /\ TypeOK'
  BY InvStep DEF Recovery, Inv
<1>1. CASE Receive
  <2>1. PICK b \in Sendable : M0AR' = Append(M0AR, b)
    BY <1>1 DEF Receive
  <2>2. b \in Byte /\ b.at = next /\ (b.head => b.at = 0)
    BY <2>1 DEF Sendable
  <2>3. PICK n \in Nat : n = Len(M0AR) /\ n < NDTR
    BY <1>0, <1>1 DEF Receive, TypeOK
  <2>4. /\ Len(M0AR') = n + 1
        /\ \A k \in 1..n : M0AR'[k] = M0AR[k]
        /\ M0AR'[n + 1] = b
    BY <1>0, <2>1, <2>2, <2>3 DEF TypeOK
  <2>5. next' = IF next + 1 = recv_size THEN 0 ELSE next + 1
    BY <1>1 DEF Receive, Pass
  <2>6. NDTR' = NDTR /\ hurt' = hurt /\ missed' = missed
    BY <1>1 DEF Receive
  <2>7. \A k \in 1..Len(M0AR') : M0AR'[k].head => M0AR'[k].at = 0
    BY <2>2, <2>3, <2>4 DEF Recovery
  <2>8. n < 2 * recv_size - 1
    BY <1>0, <2>3 DEF TypeOK
  <2>9. CASE Gap
    <3>1. n > 0 /\ n < recv_size /\ next = Wrap(n + 1)
      BY <2>3, <2>9 DEF Gap
    <3>2. next' = Wrap(n + 2)
      BY <2>5, <3>1 DEF Wrap
    <3>3. Gap'
      BY <2>3, <2>4, <2>6, <2>9, <3>1, <3>2 DEF Gap, Wrap
    <3> QED BY <1>0, <2>7, <3>3 DEF Recovery
  <2>10. ASSUME NEW a \in 0..(recv_size - 1), Recovering(a) PROVE Recovery'
    <3>1. next = Wrap(a + n) /\ \A k \in 1..n : M0AR[k].at = Wrap(a + k - 1)
      BY <2>3, <2>10 DEF Recovering, Run
    <3>2. next' = Wrap(a + (n + 1))
      BY <2>5, <2>8, <3>1 DEF Wrap
    <3>3. \A k \in 1..(n + 1) : M0AR'[k].at = Wrap(a + k - 1)
      <4>1. ASSUME NEW k \in 1..(n + 1), k # n + 1 PROVE M0AR'[k].at = Wrap(a + k - 1)
        BY <2>3, <2>4, <3>1, <4>1
      <4>2. M0AR'[n + 1].at = Wrap(a + (n + 1) - 1)
        <5>1. a + (n + 1) - 1 = a + n
          OBVIOUS
        <5> QED BY <2>2, <2>4, <3>1, <5>1
      <4> QED BY <4>1, <4>2
    <3>4. Run(a)'
      BY <2>4, <3>2, <3>3 DEF Run, Wrap
    <3>5. Recovering(a)'
      BY <2>6, <2>10, <3>4 DEF Recovering
    <3> QED BY <1>0, <2>7, <3>5 DEF Recovery
  <2>11. CASE ~(hurt <= 1)
    BY <1>0, <2>6, <2>7, <2>11 DEF Recovery
  <2> QED BY <2>9, <2>10, <2>11 DEF Recovery
<1>2. CASE Lose
  <2>1. M0AR' = M0AR /\ NDTR' = NDTR /\ missed' = missed /\ hurt' = hurt + 1
    BY <1>2 DEF Lose
  <2>2. next' = IF next + 1 = recv_size THEN 0 ELSE next + 1
    BY <1>2 DEF Lose, Pass
  <2>3. \A k \in 1..Len(M0AR') : M0AR'[k].head => M0AR'[k].at = 0
    BY <2>1 DEF Recovery
  <2>4. ASSUME hurt' <= 1 PROVE Gap' \/ \E a \in 0..(recv_size - 1) : Recovering(a)'
    <3>1. hurt = 0 /\ hurt' = 1
      BY <1>0, <2>1, <2>4 DEF TypeOK
    <3>2. Run(0) /\ missed = 0 /\ NDTR = recv_size
      BY <3>1 DEF Recovery, Gap, Recovering
    <3>3. PICK n \in Nat : n = Len(M0AR) /\ n < recv_size
      BY <1>0, <1>2, <3>2 DEF Lose, TypeOK
    <3>4. next = n
      BY <3>2, <3>3 DEF Run, Wrap
    <3>5. CASE n = 0
      <4>1. PICK c \in 0..(recv_size - 1) : next' = c
        BY <1>0 DEF TypeOK
      <4>2. Run(c)'
        BY <2>1, <3>3, <3>5, <4>1 DEF Run, Wrap
      <4>3. Recovering(c)'
        BY <2>1, <3>1, <3>2, <4>2 DEF Recovering
      <4> QED BY <4>3
    <3>6. CASE n > 0
      <4>1. M0AR[1].at = 0
        BY <3>2, <3>3, <3>6 DEF Run, Wrap
      <4>2. next' = Wrap(n + 1)
        BY <2>2, <3>3, <3>4 DEF Wrap
      <4>3. Gap'
        BY <2>1, <3>1, <3>2, <3>3, <3>6, <4>1, <4>2 DEF Gap, Wrap
      <4> QED BY <4>3
    <3> QED BY <3>5, <3>6
  <2> QED BY <1>0, <2>3, <2>4 DEF Recovery
<1>3. CASE Isr
  <2>1. M0AR' = << >> /\ Len(M0AR') = 0 /\ next' = next /\ Len(M0AR) = NDTR
    BY <1>3 DEF Isr
  <2>2. M0AR \in Seq(Byte) /\ Len(M0AR) >= recv_size
    BY <1>0, <2>1 DEF TypeOK
  <2>3. PICK c \in 0..(recv_size - 1) : next' = c
    BY <1>0 DEF TypeOK
  <2>4. Run(c)'
    BY <2>1, <2>3 DEF Run, Wrap
  <2>5. ASSUME hurt' <= 1 PROVE Recovering(c)'
    <3>0. hurt' = 0 => (Intact(Frame) /\ Deliver) \/ hurt = 0
      BY <1>3 DEF Isr, Deliver, FirstError, SecondError
    <3>1. CASE hurt <= 1
      <4>1. CASE Gap
        <5>1. M0AR[1].head /\ FirstHead = 0 /\ NDTR = recv_size
          BY <1>0, <2>2, <4>1, FirstHeadPlace DEF Gap, Inv
        <5>2. Deliver
          BY <1>3, <5>1 DEF Isr, FirstError, SecondError
        <5>3. missed' = 0 /\ NDTR' = recv_size
          BY <5>1, <5>2 DEF Deliver
        <5>4. hurt' = 0 => next' = 0
          <6>1. hurt' = 0 => Intact(recv')
            BY <3>0, <4>1, <5>2 DEF Gap, Deliver
          <6> QED BY <1>0, <2>1, <6>1 DEF Inv, InStep
        <5> QED BY <2>3, <2>4, <5>3, <5>4 DEF Recovering
      <4>2. ASSUME NEW a \in 0..(recv_size - 1), Recovering(a)
            PROVE  Recovering(c)'
        <5>1. FirstHead = IF a = 0 THEN 0 ELSE recv_size - a
          BY <2>2, <4>2, HeadOfRun DEF Recovering
        <5>2. next = Wrap(a + NDTR)
          BY <2>1, <4>2 DEF Recovering, Run
        <5>3. CASE a = 0
          <6>1. NDTR = recv_size /\ FirstHead = 0
            BY <4>2, <5>1, <5>3 DEF Recovering
          <6>2. missed' = 0 /\ NDTR' = recv_size
            BY <1>3, <6>1 DEF Isr, Deliver, FirstError, SecondError
          <6>3. next' = 0
            BY <2>1, <5>2, <5>3, <6>1 DEF Wrap
          <6> QED BY <2>3, <2>4, <6>2, <6>3 DEF Recovering
        <5>4. CASE a # 0 /\ missed = 0
          <6>1. NDTR = recv_size /\ FirstHead = recv_size - a /\ FirstHead # 0
                /\ FirstHead # recv_size /\ hurt # 0
            BY <4>2, <5>1, <5>4 DEF Recovering
          <6>2. NDTR' = 2 * recv_size - a /\ missed' = 1 /\ hurt' = hurt
            BY <1>3, <5>4, <6>1 DEF Isr, Deliver, FirstError, SecondError, Missed
          <6>3. hurt' = 1
            BY <1>0, <2>5, <6>1, <6>2 DEF TypeOK
          <6>4. next' = a
            BY <2>1, <5>2, <6>1 DEF Wrap
          <6> QED BY <2>3, <2>4, <5>4, <6>2, <6>3, <6>4 DEF Recovering
        <5>5. CASE a # 0 /\ missed # 0
          <6>1. missed = 1 /\ hurt = 1 /\ NDTR = 2 * recv_size - a
            BY <4>2, <5>5 DEF Recovering
          <6>2. NDTR # recv_size /\ FirstHead # recv_size /\ NDTR = FirstHead + recv_size
            BY <5>1, <5>5, <6>1
          <6>3. NDTR' = recv_size /\ missed' = 2 /\ hurt' = 1
            BY <1>3, <6>1, <6>2 DEF Isr, Deliver, FirstError, SecondError, Missed
          <6>4. next' = 0
            BY <2>1, <5>2, <6>1 DEF Wrap
          <6> QED BY <2>3, <2>4, <6>3, <6>4 DEF Recovering
        <5> QED BY <5>3, <5>4, <5>5
      <4> QED BY <3>1, <4>1, <4>2 DEF Recovery
    <3>2. CASE ~(hurt <= 1)
      <4>1. hurt' = 0 /\ Intact(Frame) /\ Deliver
        BY <1>0, <1>3, <2>5, <3>2 DEF Isr, Deliver, FirstError, SecondError, TypeOK
      <4>2. Intact(recv')
        BY <4>1 DEF Deliver
      <4>3. next' = 0 /\ NDTR' = recv_size
        BY <1>0, <2>1, <4>1, <4>2 DEF Inv, InStep
      <4>4. missed' = 0
        BY <4>1 DEF Deliver
      <4> QED BY <2>3, <2>4, <4>3, <4>4 DEF Recovering
    <3> QED BY <3>1, <3>2
  <2> QED BY <1>0, <2>1, <2>5 DEF Recovery
<1>4. CASE UNCHANGED vars
  BY <1>0, <1>4 DEF vars, Recovery, Gap, Recovering, Run
<1> QED BY <1>1, <1>2, <1>3, <1>4 DEF Next

(* With a payload that never looks like the head, one loss, or a start in  *)
(* the middle of a frame, costs at most two transfers, whatever the frame  *)
(* size and wherever it happens (dma_rx_isr.c:48-90).                      *)
THEOREM RecoversInTwo ==
  ASSUME Lookalikes = FALSE
  PROVE  Spec => []OneLossTwoFrames
<1>1. Recovery => OneLossTwoFrames
  BY DEF Recovery, Gap, Recovering, OneLossTwoFrames
<1>2. Recovery /\ [Next]_vars => Recovery'
  BY RecoveryStep, Zenon
<1> QED BY <1>1, <1>2, RecoveryInit, PTL DEF Spec

-----------------------------------------------------------------------------
(* The place of the i-th frame that Save_Img has still to pass, and the    *)
(* frames it has passed.  While r_index is Slots, it stands for 0.         *)
Place(i) == IF r + i >= Slots THEN r + i - Slots ELSE r + i
Saved == IF pc = "written" THEN Len(file) - 1 ELSE Len(file)

Before == {"open", "reply", "check", "break", "ready"}
Saving == {"loop", "drain", "written", "wrap", "pause", "stamp", "end"}

InOrder == \A i \in 1..Len(file) : file[i] = i

(* Where Save_Img is and how far the image has come. *)
Phases ==
  /\ pc \in Before => r = 0 /\ file = <<>>
  /\ pc = "ready" => sta # "NoReady"
  /\ pc \in Saving => sta \in {"Transmit", "Finish"}
  /\ pc = "written" => Len(file) > 0
  /\ (pc # "menu" /\ sta \in {"Transmit", "Finish"}) => stamp <= MaxStamp

(* Before the reply: nothing has been stored. *)
Waiting ==
  /\ w = r /\ file = <<>>
  /\ cam = 0 \/ (~dropped /\ cam = 1) \/ (dropped /\ cam = 2)

(* During the image: the camera and the counter of the interrupt handler   *)
(* agree with what has been stored, a lost frame apart.  A counter that an *)
(* aborted image left behind is ahead; the state is then still Ready.      *)
Receiving ==
  /\ \/ cam = 0
     \/ ~dropped /\ cam = Saved + Unsaved + 2
     \/ dropped /\ cam = Saved + Unsaved + 3
  /\ fcnt = Saved + Unsaved \/ (sta = "Ready" /\ fcnt > Saved + Unsaved)

(* After the frame that ends the image. *)
Complete == cam = 0 /\ ~dropped /\ Saved + Unsaved = N

Ordered ==
  /\ InOrder
  /\ \A i \in 0..Unsaved-1 : buf[Place(i)] = Saved + i + 1

(* The inductive invariant: what holds while no error is flagged, if the   *)
(* camera was free when the call began and the ring never became full      *)
(* while r_index was outside of it.                                        *)
Transfer ==
  /\ pc # "menu" =>
       /\ sta = "NoReady" => Waiting
       /\ sta \in {"Ready", "Transmit"} => Receiving
       /\ sta = "Finish" => Complete
       /\ ~dropped => Ordered
       /\ pc = "open" => sta = "NoReady" /\ cam = 0
       /\ pc = "written" => w # r
       /\ pc = "end" => sta = "Finish"
  /\ pc = "menu" =>
       /\ ~dropped => InOrder
       /\ result = "OK" => cam = 0 /\ ~dropped /\ Len(file) + Unsaved = N

IInv == SITypeOK /\ Phases /\ ((~err /\ ~mixed /\ ~unseen) => Transfer)

-----------------------------------------------------------------------------
(* img_save_isr keeps the ring or stores one frame in it. *)
LEMMA IsrShape ==
  ASSUME NEW f, img_save_isr(f)
  PROVE  \/ UNCHANGED <<buf, w>> /\ (fcnt' = fcnt \/ fcnt' = 0) /\ (stamp' = stamp \/ stamp' = 0)
         \/ /\ fcnt < N /\ fcnt' = fcnt + 1 /\ stamp' = 0
            /\ buf' = [buf EXCEPT ![w] = f] /\ w' = Inc(w)
BY Zenon DEF img_save_isr, Store

(* What img_save_isr does when it flags no error: it takes the reply of    *)
(* the camera, stores a frame in a ring that has room for it, or takes the *)
(* frame that ends the image.                                              *)
LEMMA IsrClean ==
  ASSUME NEW f, img_save_isr(f), err \in BOOLEAN, unseen \in BOOLEAN, ~err', ~unseen'
  PROVE  /\ ~err /\ ~unseen
         /\ \/ /\ sta = "NoReady" /\ f = Head0
               /\ sta' = "Ready" /\ UNCHANGED <<buf, w, fcnt>>
            \/ /\ sta # "NoReady" /\ fcnt < N /\ Inc(w) # r /\ (r = Slots => Inc(w) # 0)
               /\ sta' = IF fcnt = 0 THEN "Transmit" ELSE sta
               /\ buf' = [buf EXCEPT ![w] = f] /\ w' = Inc(w) /\ fcnt' = fcnt + 1
            \/ /\ sta # "NoReady" /\ fcnt = N /\ f = Head0
               /\ sta' = "Finish" /\ fcnt' = 0 /\ UNCHANGED <<buf, w>>
<1>1. Store(f) => ~err /\ ~unseen /\ Inc(w) # r /\ (r = Slots => Inc(w) # 0)
  BY Zenon DEF Store
<1>2. CASE /\ sta = "NoReady"
           /\ IF f = Head0 THEN sta' = "Ready" /\ err' = err ELSE sta' = sta /\ err' = TRUE
           /\ UNCHANGED <<buf, w, fcnt, stamp, unseen>>
  BY <1>2
<1>3. CASE /\ sta # "NoReady" /\ fcnt < N
           /\ sta' = IF fcnt = 0 THEN "Transmit" ELSE sta
           /\ Store(f)
  BY <1>1, <1>3, Zenon DEF Store
<1>4. CASE /\ sta # "NoReady" /\ fcnt = N /\ fcnt' = 0
           /\ IF f = Head0 THEN sta' = "Finish" /\ err' = err ELSE sta' = sta /\ err' = TRUE
           /\ UNCHANGED <<buf, w, unseen>>
  BY <1>4
<1> QED BY <1>2, <1>3, <1>4, Zenon DEF img_save_isr

(* One step of Save_Img or of the camera keeps the types and the phases. *)
LEMMA StepTypes ==
  ASSUME SITypeOK, Phases, [SINext]_sivars
  PROVE  SITypeOK' /\ Phases'
<1> USE RingAssumption, LimitAssumption DEF SITypeOK, Phases, Before, Saving, Indices, isr
<1>1. CASE Save_Img
  <2>1. mixed' \in BOOLEAN /\ unseen' \in BOOLEAN
    BY <1>1, Zenon DEF Save_Img
  <2>2. /\ pc' = "open" /\ result' = "none" /\ err' = FALSE /\ sta' = "NoReady"
        /\ r' = 0 /\ w' = 0 /\ file' = <<>>
        /\ UNCHANGED <<buf, fcnt, stamp, old, waits, cam, dropped>>
    BY <1>1, Zenon DEF Save_Img
  <2>3. r' \in 0..Slots /\ w' \in Indices /\ r' # Slots /\ file' \in Seq(0..N)
    BY <2>2
  <2>4. SITypeOK'
    BY <2>1, <2>2, <2>3, Zenon
  <2>5. Phases'
    BY <2>2
  <2> QED BY <2>4, <2>5, Zenon
<1>2. CASE Request
  <2>1. Asked => mixed' \in BOOLEAN /\ dropped' \in BOOLEAN /\ cam' \in 0..N+2
    <3>1. Asked => mixed' \in BOOLEAN
      BY Zenon DEF Asked
    <3>2. Asked => dropped' \in BOOLEAN /\ cam' \in 0..N+2
      <4>1. ASSUME Asked
            PROVE  (cam' = 1 /\ dropped' = FALSE) \/ (cam' = cam /\ dropped' = dropped)
        BY <4>1, Zenon DEF Asked
      <4>2. Asked => dropped' \in BOOLEAN
        BY <4>1, Zenon
      <4>3. Asked => cam' = 1 \/ cam' = cam
        BY <4>1, Zenon
      <4> QED BY <4>2, <4>3
    <3> QED BY <3>1, <3>2
  <2>2. mixed' \in BOOLEAN /\ dropped' \in BOOLEAN /\ cam' \in 0..N+2
    BY <1>2, <2>1, Zenon DEF Request
  <2> QED BY <1>2, <2>2 DEF Request, Returns, Goto
<1>3. CASE Reply
  BY <1>3 DEF Reply, Goto
<1>4. CASE Check \/ Break
  BY <1>4, ZenonT(30) DEF Check, Break, Returns, Goto
<1>5. CASE Ready \/ Loop
  BY <1>5, ZenonT(30) DEF Ready, Loop, Goto
<1>6. CASE Drain
  <2>1. Append(file, buf[r]) \in Seq(0..N) /\ Len(Append(file, buf[r])) > 0
    <3>1. r \in Indices
      BY <1>6 DEF Drain
    <3> QED BY <3>1
  <2>2. CASE file' = Append(file, buf[r]) /\ Goto("written")
    BY <1>6, <2>1, <2>2 DEF Drain, Goto
  <2>3. CASE file' = file /\ (Goto("pause") \/ Returns("file"))
    BY <1>6, <2>3 DEF Drain, Goto, Returns
  <2> QED BY <1>6, <2>2, <2>3, Zenon DEF Drain
<1>7. CASE Written
  BY <1>7 DEF Written, Goto
<1>14. CASE Wrapped
  <2>1. r' \in Indices
    BY <1>14 DEF Wrapped
  <2> QED BY <1>14, <2>1 DEF Wrapped, Goto
<1>8. CASE Pause
  BY <1>8 DEF Pause, Goto
<1>13. CASE Stamp
  <2>1. CASE old + 1 > MaxStamp
    BY <1>13, <2>1 DEF Stamp, Returns
  <2>2. CASE ~(old + 1 > MaxStamp)
    BY <1>13, <2>2 DEF Stamp, Goto
  <2> QED BY <2>1, <2>2, Zenon
<1>9. CASE End
  BY <1>9 DEF End, Returns
<1>10. CASE FrameComes
  <2>1. FrameAt(cam) \in 0..N /\ Sent \in 0..N+2
    BY DEF FrameAt, Sent, Head0
  <2>2. PICK f \in 0..N : img_save_isr(f)
    BY <1>10, <2>1 DEF FrameComes
  <2>3. SITypeOK'
    <3>1. err' \in BOOLEAN
      <4>1. (err \/ Inc(w) = r) \in BOOLEAN
        BY Zenon
      <4>2. err' = err \/ err' = TRUE \/ err' = (err \/ Inc(w) = r)
        BY <2>2, Zenon DEF img_save_isr, Store
      <4> QED BY <4>1, <4>2, Zenon
    <3>4. unseen' \in BOOLEAN
      <4>1. (unseen \/ (r = Slots /\ Inc(w) = 0)) \in BOOLEAN
        BY Zenon
      <4>2. unseen' = unseen \/ unseen' = (unseen \/ (r = Slots /\ Inc(w) = 0))
        BY <2>2, Zenon DEF img_save_isr, Store
      <4> QED BY <4>1, <4>2, Zenon
    <3>2. /\ buf' \in [Indices -> 0..N] /\ w' \in Indices
          /\ fcnt' \in 0..N /\ stamp' \in 0..MaxStamp+1
      <4>1. CASE UNCHANGED <<buf, w>> /\ (fcnt' = fcnt \/ fcnt' = 0) /\ (stamp' = stamp \/ stamp' = 0)
        BY <4>1
      <4>2. CASE /\ fcnt < N /\ fcnt' = fcnt + 1 /\ stamp' = 0
                 /\ buf' = [buf EXCEPT ![w] = f] /\ w' = Inc(w)
        <5>1. buf' \in [Indices -> 0..N]
          BY <2>2, <4>2
        <5>2. w' \in Indices /\ fcnt' \in 0..N /\ stamp' \in 0..MaxStamp+1
          BY <4>2 DEF Inc
        <5> QED BY <5>1, <5>2, Zenon
      <4> QED BY <2>2, <4>1, <4>2, IsrShape, Zenon
    <3>3. sta' \in {"NoReady", "Ready", "Transmit", "Finish"}
      BY <2>2 DEF img_save_isr
    <3> QED BY <1>10, <2>1, <3>1, <3>2, <3>3, <3>4, Zenon DEF FrameComes
  <2>4. Phases'
    <3>1. \/ sta' \in {"Transmit", "Finish"} /\ stamp' = 0
          \/ sta' = "Ready" /\ sta \in {"NoReady", "Ready"}
          \/ sta' = sta /\ (stamp' = stamp \/ stamp' = 0)
      BY <2>2 DEF img_save_isr
    <3> QED BY <1>10, <3>1 DEF FrameComes
  <2> QED BY <2>3, <2>4, Zenon
<1>11. CASE FrameLost \/ Fail
  <2>0. cam' = Sent \/ cam' = 0
    BY <1>11, Zenon DEF FrameLost, Fail
  <2>1. cam' \in 0..N+2
    <3>1. cam \in 0..N+2 /\ N \in Nat
      OBVIOUS
    <3> QED BY ONLY <2>0, <3>1 DEF Sent
  <2>2. dropped' \in BOOLEAN
    BY <1>11, Zenon DEF FrameLost, Fail
  <2>3. UNCHANGED <<pc, isr, r, old, waits, file, result, mixed>>
    BY <1>11, Zenon DEF FrameLost, Fail
  <2> QED BY <2>1, <2>2, <2>3
<1>12. CASE UNCHANGED sivars
  BY <1>12 DEF sivars
<1> QED
  BY <1>1, <1>2, <1>3, <1>4, <1>5, <1>6, <1>7, <1>8, <1>9, <1>10, <1>11, <1>12, <1>13, <1>14, Zenon
  DEF SINext, Thread

-----------------------------------------------------------------------------
(* A step that only moves on in Save_Img keeps Transfer. *)
LEMMA Quiet ==
  ASSUME SITypeOK, Transfer,
         UNCHANGED <<sta, buf, w, fcnt, file, cam, dropped>>,
         r' = r \/ (r = Slots /\ r' = 0),
         pc \notin {"menu", "written"}, pc' \notin {"open", "written"},
         pc' = "menu" => result' # "OK",
         pc' = "end" => sta = "Finish"
  PROVE  Transfer'
<1>1. Saved' = Saved /\ Unsaved' = Unsaved /\ (\A i \in 0..Unsaved-1 : Place(i)' = Place(i))
  <2>1. Saved' = Saved
    BY DEF Saved
  <2>2. w' = w /\ w \in 0..Slots-1 /\ r \in 0..Slots /\ Slots \in Nat
    BY RingAssumption DEF SITypeOK, Indices
  <2>3. Unsaved' = Unsaved
    BY <2>2 DEF Unsaved
  <2>4. \A i \in 0..Unsaved-1 : Place(i)' = Place(i)
    BY <2>2 DEF Unsaved, Place
  <2> QED BY <2>1, <2>3, <2>4
<1>2. (Waiting => Waiting') /\ (Complete => Complete')
  BY <1>1, RingAssumption DEF Waiting, Complete, SITypeOK, Indices
<1>3. Receiving => Receiving'
  BY <1>1 DEF Receiving
<1>4. (InOrder => InOrder') /\ (Ordered => Ordered')
  BY <1>1 DEF InOrder, Ordered
<1>5. Ordered => InOrder
  BY DEF Ordered
<1> QED BY <1>2, <1>3, <1>4, <1>5 DEF Transfer

(* A frame that goes into a ring with room for it is counted, and its      *)
(* place is the next one.                                                  *)
LEMMA StoreCounts ==
  ASSUME SITypeOK, UNCHANGED <<pc, r, file>>, w' = Inc(w), Inc(w) # r, r = Slots => Inc(w) # 0
  PROVE  /\ Unsaved' = Unsaved + 1 /\ Saved' = Saved
         /\ Unsaved \in 0..Slots-2
         /\ Place(Unsaved) = w
         /\ \A i \in 0..Unsaved-1 : Place(i)' = Place(i) /\ Place(i) # w /\ Place(i) \in Indices
         /\ \A i : i = Unsaved => Place(i)' = w
<1> USE RingAssumption DEF SITypeOK, Unsaved, Indices, Inc
<1>1. Unsaved' = Unsaved + 1 /\ Saved' = Saved
  BY DEF Saved
<1>2. Unsaved \in 0..Slots-2
  OBVIOUS
<1>3. \A i : Place(i)' = Place(i)
  BY DEF Place
<1>4. Place(Unsaved) = w
  BY DEF Place
<1>5. \A i \in 0..Unsaved-1 : Place(i) # w /\ Place(i) \in Indices
  BY DEF Place
<1> QED BY <1>1, <1>2, <1>3, <1>4, <1>5, Zenon

(* A step of a transfer without a flagged error keeps the frames in order. *)
LEMMA StepTransfer ==
  ASSUME IInv, [SINext]_sivars, ~err', ~mixed', ~unseen'
  PROVE  Transfer'
<1> USE DEF IInv
<1>1. CASE Save_Img
  <2>1. cam = 0
    BY <1>1, Zenon DEF Save_Img
  <2>2. /\ pc' = "open" /\ sta' = "NoReady" /\ r' = 0 /\ w' = 0 /\ file' = <<>> /\ cam' = 0
    BY <1>1, <2>1, Zenon DEF Save_Img
  <2> QED BY <2>2 DEF Transfer, Waiting, Ordered, InOrder, Unsaved
<1>2. CASE Request
  <2>1. ~err /\ ~mixed /\ ~unseen
    <3>1. ~err /\ ~unseen
      BY <1>2, Zenon DEF Request, isr
    <3>2. Asked => ~mixed
      BY Zenon DEF Asked
    <3>3. ~mixed \/ Asked
      BY <1>2, Zenon DEF Request
    <3> QED BY <3>1, <3>2, <3>3, Zenon
  <2>2. sta = "NoReady" /\ cam = 0 /\ w = 0 /\ r = 0 /\ file = <<>>
    BY <1>2, <2>1 DEF Request, Transfer, Waiting, Phases, Before
  <2>3. /\ sta' = "NoReady" /\ w' = 0 /\ r' = 0 /\ file' = <<>>
        /\ cam' = 0 \/ (cam' = 1 /\ ~dropped')
        /\ pc' = "menu" \/ pc' = "reply"
        /\ pc' = "menu" => result' # "OK"
    BY <1>2, <2>2 DEF Request, Asked, Returns, Goto, isr
  <2> QED BY <2>3 DEF Transfer, Waiting, Ordered, InOrder, Unsaved
<1>3. CASE Reply \/ Check \/ Break \/ Ready \/ Wrapped \/ Pause \/ Stamp \/ Loop
  <2>1. ~err /\ ~mixed /\ ~unseen
    <3>1. ~mixed
      BY <1>3, Zenon DEF Reply, Check, Break, Ready, Wrapped, Pause, Stamp, Loop
    <3>2. isr' = isr \/ (~err /\ ~unseen)
      BY <1>3, Zenon DEF Reply, Check, Break, Ready, Wrapped, Pause, Stamp, Loop
    <3>3. ASSUME isr' = isr PROVE ~err /\ ~unseen
      <4>1. err' = err /\ unseen' = unseen
        BY <3>3, Zenon DEF isr
      <4> QED BY <4>1
    <3> QED BY <3>1, <3>2, <3>3, Zenon
  <2>2. /\ UNCHANGED <<sta, buf, w, fcnt, file, cam, dropped>>
        /\ r' = r \/ (r = Slots /\ r' = 0)
    BY <1>3, Zenon DEF Reply, Check, Break, Ready, Wrapped, Pause, Stamp, Loop, isr
  <2>3. pc \notin {"menu", "written"} /\ pc' \notin {"open", "written"}
    BY <1>3 DEF Reply, Check, Break, Ready, Wrapped, Pause, Stamp, Loop, Goto, Returns
  <2>4. pc' = "menu" => result' # "OK"
    BY <1>3 DEF Reply, Check, Break, Ready, Wrapped, Pause, Stamp, Loop, Goto, Returns
  <2>5. pc' = "end" => sta = "Finish"
    BY <1>3, <2>1 DEF Reply, Check, Break, Ready, Wrapped, Pause, Stamp, Loop, Goto, Returns, Phases, Saving
  <2> QED BY <2>1, <2>2, <2>3, <2>4, <2>5, Quiet
<1>4. CASE Drain
  <2>1. ~err /\ ~mixed /\ ~unseen /\ Transfer
    BY <1>4, Zenon DEF Drain, isr
  <2>2. UNCHANGED <<sta, buf, w, fcnt, r, cam, dropped>> /\ pc = "drain"
    BY <1>4, Zenon DEF Drain, isr
  <2>3. CASE file' = file
    <3>1. pc' \notin {"open", "written", "end"} /\ (pc' = "menu" => result' # "OK")
      <4>1. pc' = "pause" \/ (pc' = "menu" /\ result' = "file") \/ file' = Append(file, buf[r])
        BY <1>4 DEF Drain, Goto, Returns
      <4>2. file' # Append(file, buf[r])
        BY <2>3, <2>2 DEF SITypeOK
      <4> QED BY <4>1, <4>2
    <3> QED BY <2>1, <2>2, <2>3, <3>1, Quiet
  <2>4. CASE file' # file
    <3>1. pc' = "written" /\ r # w /\ file' = Append(file, buf[r])
      BY <1>4, <2>4 DEF Drain, Goto
    <3>2. Saved' = Saved /\ Unsaved' = Unsaved /\ (\A i : Place(i)' = Place(i))
      BY <2>2, <3>1 DEF Saved, Unsaved, Place, SITypeOK
    <3>3. Unsaved > 0 /\ Place(0) = r
      BY <2>2, <3>1, RingAssumption DEF Unsaved, Place, SITypeOK, Indices
    <3>4. Ordered => Ordered'
      <4>1. ASSUME Ordered PROVE buf[r] = Len(file) + 1
        <5>1. 0 \in 0..Unsaved-1 /\ Saved = Len(file) /\ Len(file) \in Nat
          BY <2>2, <3>3, RingAssumption DEF Saved, SITypeOK, Unsaved, Indices
        <5>2. buf[Place(0)] = Saved + 0 + 1
          BY <4>1, <5>1 DEF Ordered
        <5> QED BY <3>3, <5>1, <5>2
      <4>2. ASSUME Ordered PROVE InOrder'
        BY <3>1, <4>1, <4>2 DEF Ordered, InOrder, SITypeOK
      <4>3. ASSUME Ordered PROVE \A i \in 0..Unsaved'-1 : buf'[Place(i)'] = Saved' + i + 1
        BY <2>2, <3>2, <4>3 DEF Ordered
      <4> QED BY <4>2, <4>3 DEF Ordered
    <3>5. (Receiving => Receiving') /\ (Complete => Complete')
      BY <2>2, <3>2 DEF Receiving, Complete
    <3>6. sta # "NoReady"
      BY <2>2 DEF Phases, Saving
    <3> QED BY <2>1, <2>2, <3>1, <3>4, <3>5, <3>6 DEF Transfer
  <2> QED BY <2>3, <2>4
<1>5. CASE Written
  <2>1. ~err /\ ~mixed /\ ~unseen /\ Transfer
    BY <1>5, Zenon DEF Written, isr
  <2>2. /\ UNCHANGED <<sta, buf, w, fcnt, file, cam, dropped>>
        /\ pc = "written" /\ pc' = "wrap" /\ r' = r + 1 /\ w # r
    BY <1>5, <2>1, Zenon DEF Written, isr, Goto, Transfer
  <2>3. /\ Saved' = Saved + 1 /\ Unsaved' = Unsaved - 1
        /\ \A i \in 0..Unsaved-2 : Place(i)' = Place(i+1)
    BY <2>2, RingAssumption DEF Saved, Unsaved, Place, SITypeOK, Indices
  <2>4. Saved \in Int /\ Unsaved \in Int
    BY RingAssumption DEF Saved, Unsaved, SITypeOK, Indices
  <2>5. Ordered => Ordered'
    <3>1. ASSUME Ordered PROVE InOrder'
      BY <2>2, <3>1 DEF Ordered, InOrder
    <3>2. ASSUME Ordered, NEW i \in 0..Unsaved'-1 PROVE buf'[Place(i)'] = Saved' + i + 1
      <4>1. i + 1 \in 0..Unsaved-1 /\ i \in 0..Unsaved-2
        BY <2>3, <2>4, <3>2
      <4>2. buf[Place(i+1)] = Saved + (i + 1) + 1
        BY <3>2, <4>1 DEF Ordered
      <4> QED BY <2>2, <2>3, <2>4, <4>1, <4>2
    <3> QED BY <3>1, <3>2 DEF Ordered
  <2>6. (Receiving => Receiving') /\ (Complete => Complete')
    BY <2>2, <2>3, <2>4 DEF Receiving, Complete
  <2>7. sta # "NoReady"
    BY <2>2 DEF Phases, Saving
  <2> QED BY <2>1, <2>2, <2>5, <2>6, <2>7 DEF Transfer
<1>6. CASE End
  <2>1. ~err /\ ~mixed /\ ~unseen /\ Transfer
    BY <1>6, Zenon DEF End, isr
  <2>2. /\ UNCHANGED <<r, w, file, cam, dropped>>
        /\ pc = "end" /\ pc' = "menu" /\ sta = "Finish"
    BY <1>6, <2>1 DEF End, isr, Transfer, Returns
  <2>3. Complete /\ Ordered
    BY <2>1, <2>2 DEF Transfer, Complete
  <2>4. Len(file') + Unsaved' = N
    BY <2>2, <2>3 DEF Complete, Saved, Unsaved
  <2> QED BY <2>2, <2>3, <2>4 DEF Transfer, Complete, Ordered, InOrder
<1>7. CASE FrameComes
  <2>1. UNCHANGED <<pc, r, file, result, dropped, mixed>> /\ cam # 0 /\ cam' = Sent
    BY <1>7, Zenon DEF FrameComes
  <2> DEFINE f == FrameAt(cam)
  <2>2. /\ ~err /\ ~unseen
        /\ \/ /\ sta = "NoReady" /\ f = Head0
              /\ sta' = "Ready" /\ UNCHANGED <<buf, w, fcnt>>
           \/ /\ sta # "NoReady" /\ fcnt < N /\ Inc(w) # r /\ (r = Slots => Inc(w) # 0)
              /\ sta' = IF fcnt = 0 THEN "Transmit" ELSE sta
              /\ buf' = [buf EXCEPT ![w] = f] /\ w' = Inc(w) /\ fcnt' = fcnt + 1
           \/ /\ sta # "NoReady" /\ fcnt = N /\ f = Head0
              /\ sta' = "Finish" /\ fcnt' = 0 /\ UNCHANGED <<buf, w>>
    <3>1. img_save_isr(f) /\ err \in BOOLEAN /\ unseen \in BOOLEAN
      BY <1>7, Zenon DEF FrameComes, SITypeOK
    <3> HIDE DEF f
    <3> QED BY <3>1, IsrClean
  <2>3. Transfer
    BY <2>1, <2>2, Zenon
  <2>4. CASE pc = "menu"
    BY <2>1, <2>3, <2>4 DEF Transfer, InOrder
  <2>5. CASE pc # "menu" /\ sta = "NoReady"
    <3>1. w = r /\ file = <<>> /\ ~dropped /\ cam = 1 /\ cam' = 2
      BY <2>1, <2>2, <2>3, <2>5, RingAssumption DEF Transfer, Waiting, FrameAt, Head0, Sent
    <3>2. sta' = "Ready" /\ UNCHANGED <<buf, w, fcnt>>
      BY <2>2, <2>5
    <3>3. Receiving'
      BY <2>1, <3>1, <3>2 DEF Receiving, Saved, Unsaved, SITypeOK, Phases, Indices
    <3>4. Ordered'
      BY <2>1, <3>1, <3>2 DEF Ordered, InOrder, Unsaved, SITypeOK, Indices
    <3> QED BY <2>1, <2>3, <2>5, <3>1, <3>2, <3>3, <3>4 DEF Transfer, Phases, Saving
  <2>6. ASSUME pc # "menu", sta # "NoReady"
        PROVE  Receiving /\ sta \in {"Ready", "Transmit"} /\ pc # "open" /\ pc # "end"
    BY <2>1, <2>3, <2>6 DEF Transfer, Complete, SITypeOK
  <2>7. CASE /\ pc # "menu"
             /\ sta # "NoReady" /\ fcnt < N /\ Inc(w) # r /\ (r = Slots => Inc(w) # 0)
             /\ sta' = IF fcnt = 0 THEN "Transmit" ELSE sta
             /\ buf' = [buf EXCEPT ![w] = f] /\ w' = Inc(w) /\ fcnt' = fcnt + 1
    <3>1. /\ Unsaved' = Unsaved + 1 /\ Saved' = Saved
          /\ Unsaved \in 0..Slots-2
          /\ Place(Unsaved) = w
          /\ \A i \in 0..Unsaved-1 : Place(i)' = Place(i) /\ Place(i) # w /\ Place(i) \in Indices
          /\ \A i : i = Unsaved => Place(i)' = w
      BY <2>1, <2>7, StoreCounts
    <3>2. Saved \in Nat
      BY <2>7 DEF Saved, SITypeOK, Phases
    <3>3. sta' \in {"Ready", "Transmit"} /\ Receiving'
      <4>1. /\ \/ cam = 0
               \/ ~dropped /\ cam = Saved + Unsaved + 2
               \/ dropped /\ cam = Saved + Unsaved + 3
            /\ fcnt = Saved + Unsaved \/ (sta = "Ready" /\ fcnt > Saved + Unsaved)
        BY <2>6, <2>7 DEF Receiving
      <4>2. \/ cam' = 0
            \/ ~dropped' /\ cam' = Saved' + Unsaved' + 2
            \/ dropped' /\ cam' = Saved' + Unsaved' + 3
        BY <2>1, <3>1, <3>2, <4>1 DEF Sent, SITypeOK
      <4>3. fcnt' = Saved' + Unsaved' \/ (sta' = "Ready" /\ fcnt' > Saved' + Unsaved')
        BY <2>7, <3>1, <3>2, <4>1 DEF SITypeOK
      <4> QED BY <2>6, <2>7, <4>2, <4>3 DEF Receiving
    <3>4. ~dropped => Ordered'
      <4> SUFFICES ASSUME ~dropped PROVE Ordered'
        OBVIOUS
      <4>1. Ordered
        BY <2>3, <2>7 DEF Transfer
      <4>2. f = Saved + Unsaved + 1
        <5>1. cam = Saved + Unsaved + 2 /\ Saved + Unsaved < N
          <6>1. fcnt \in Nat /\ fcnt < N /\ cam # 0 /\ N \in Nat
            BY <2>1, <2>7, RingAssumption DEF SITypeOK
          <6>2. Receiving
            BY <2>6, <2>7
          <6>3. cam = Saved + Unsaved + 2 /\ fcnt >= Saved + Unsaved
            BY <6>1, <6>2, <3>1, <3>2 DEF Receiving
          <6> QED BY <6>1, <6>3, <3>1, <3>2
        <5>2. cam \in 2..N+1
          BY <3>1, <3>2, <5>1, RingAssumption
        <5> QED BY <3>1, <3>2, <5>1, <5>2 DEF FrameAt
      <4> HIDE DEF f
      <4>3. \A i \in 0..Unsaved-1 : buf'[Place(i)'] = Saved' + i + 1
        <5> TAKE i \in 0..Unsaved-1
        <5>1. buf[Place(i)] = Saved + i + 1
          BY <4>1 DEF Ordered
        <5>2. buf'[Place(i)] = buf[Place(i)]
          BY <2>7, <3>1 DEF SITypeOK
        <5> QED BY <3>1, <5>1, <5>2
      <4>4. \A i : i = Unsaved => buf'[Place(i)'] = Saved' + i + 1
        BY <2>7, <3>1, <4>2 DEF SITypeOK
      <4>5. \A i \in 0..Unsaved'-1 : buf'[Place(i)'] = Saved' + i + 1
        <5> TAKE i \in 0..Unsaved'-1
        <5>1. CASE i = Unsaved
          BY <4>4, <5>1
        <5>2. CASE i # Unsaved
          <6>1. i \in 0..Unsaved-1
            BY <3>1, <5>2
          <6> QED BY <4>3, <6>1
        <5> QED BY <5>1, <5>2
      <4>6. InOrder'
        BY <2>1, <4>1 DEF Ordered, InOrder
      <4> QED BY <4>5, <4>6 DEF Ordered
    <3>5. w' # r'
      BY <2>1, <2>7
    <3> QED BY <2>1, <2>6, <2>7, <3>3, <3>4, <3>5 DEF Transfer
  <2>8. CASE /\ pc # "menu"
             /\ sta # "NoReady" /\ fcnt = N /\ f = Head0
             /\ sta' = "Finish" /\ fcnt' = 0 /\ UNCHANGED <<buf, w>>
    <3>1. Saved \in Nat /\ Unsaved \in 0..Slots-1
      BY RingAssumption DEF Saved, Unsaved, SITypeOK, Phases, Indices
    <3>2. cam = N + 2 /\ cam' = 0
      BY <2>1, <2>6, <2>8, <3>1, RingAssumption DEF Receiving, FrameAt, Head0, Sent, SITypeOK
    <3>3. sta = "Ready" => Saved = 0
      BY <2>8 DEF Phases, Before, Saving, Saved, SITypeOK
    <3>4. ~dropped /\ Saved + Unsaved = N
      BY <2>6, <2>8, <3>1, <3>2, <3>3, RingAssumption DEF Receiving
    <3>5. Saved' = Saved /\ Unsaved' = Unsaved /\ (\A i : Place(i)' = Place(i))
      BY <2>1, <2>8 DEF Saved, Unsaved, Place
    <3>6. Complete'
      BY <2>1, <3>2, <3>4, <3>5 DEF Complete
    <3>7. Ordered'
      BY <2>1, <2>3, <2>8, <3>4, <3>5 DEF Transfer, Ordered, InOrder
    <3> QED BY <2>1, <2>3, <2>6, <2>8, <3>6, <3>7 DEF Transfer
  <2> HIDE DEF f
  <2> QED BY <2>2, <2>4, <2>5, <2>7, <2>8
<1>8. CASE FrameLost \/ Fail
  <2>1. ~err /\ ~mixed /\ ~unseen /\ Transfer
    <3>1. mixed' = mixed /\ isr' = isr
      BY <1>8, Zenon DEF FrameLost, Fail
    <3>2. err' = err /\ unseen' = unseen
      BY <3>1, Zenon DEF isr
    <3> QED BY <3>1, <3>2, Zenon
  <2>2. UNCHANGED <<pc, sta, buf, w, fcnt, r, file, result>> /\ cam # 0
    BY <1>8, Zenon DEF FrameLost, Fail, isr
  <2>3. \/ ~dropped /\ dropped' /\ cam' = Sent
        \/ (dropped' => dropped) /\ (~dropped' => ~dropped) /\ cam' = 0
    BY <1>8, Zenon DEF FrameLost, Fail
  <2>4. CASE pc = "menu"
    BY <2>1, <2>2, <2>3, <2>4 DEF Transfer, InOrder
  <2>5. CASE pc # "menu"
    <3>1. Saved' = Saved /\ Unsaved' = Unsaved /\ (\A i : Place(i)' = Place(i))
      BY <2>2 DEF Saved, Unsaved, Place
    <3>2. ~dropped' => Ordered'
      BY <2>1, <2>2, <2>3, <2>5, <3>1 DEF Transfer, Ordered, InOrder
    <3>3. sta = "NoReady" => Waiting'
      BY <2>1, <2>2, <2>3, <2>5, RingAssumption DEF Transfer, Waiting, Sent
    <3>4. Saved \in Int /\ Unsaved \in Int
      BY RingAssumption DEF Saved, Unsaved, SITypeOK, Indices
    <3>5. sta \in {"Ready", "Transmit"} => Receiving'
      BY <2>1, <2>2, <2>3, <2>5, <3>1, <3>4, SMTT(20) DEF Transfer, Receiving, Sent
    <3> QED BY <2>1, <2>2, <2>5, <3>2, <3>3, <3>5 DEF Transfer, Complete
  <2> QED BY <2>4, <2>5
<1>9. CASE UNCHANGED sivars
  <2>1. ~err /\ ~mixed /\ ~unseen /\ Transfer
    BY <1>9, Zenon DEF sivars
  <2> QED BY <1>9, <2>1, Zenon DEF sivars, Transfer, Waiting, Receiving, Complete, Ordered, InOrder, Saved, Unsaved, Place
<1> QED
  BY <1>1, <1>2, <1>3, <1>4, <1>5, <1>6, <1>7, <1>8, <1>9 DEF SINext, Thread

-----------------------------------------------------------------------------
(* The invariant of a transfer holds for every image and every ring that   *)
(* is smaller than the image.                                              *)
THEOREM ImgInductive == SISpec => []IInv
<1>1. SIInit => IInv
  <2> SUFFICES ASSUME SIInit PROVE IInv
    OBVIOUS
  <2>1. SITypeOK
    <3>1. 0 \in Indices /\ 0 \in 0..Slots /\ Slots # 0 /\ 0 \in 0..N /\ 0 \in 0..N+2
      BY RingAssumption DEF Indices
    <3>2. 0 \in 0..MaxStamp+1 /\ 0 \in 0..MaxStamp /\ 0 \in 0..MaxWait+1
      BY LimitAssumption
    <3>3. buf \in [Indices -> 0..N]
      BY <3>1, Zenon DEF SIInit
    <3>4. file \in Seq(0..N)
      BY DEF SIInit
    <3> QED BY <3>1, <3>2, <3>3, <3>4, Zenon DEF SIInit, SITypeOK
  <2>2. Phases
    BY DEF SIInit, Phases, Before, Saving
  <2>3. Transfer
    BY DEF SIInit, Transfer, InOrder
  <2> QED BY <2>1, <2>2, <2>3 DEF IInv
<1>2. IInv /\ [SINext]_sivars => IInv'
  BY StepTypes, StepTransfer, Zenon DEF IInv
<1> QED BY <1>1, <1>2, PTL DEF SISpec

(* The indices, the counter of the interrupt handler and what is saved     *)
(* keep their types.  r_index leaves the ring for the moment between its   *)
(* two stores only (sd_save.c:170-173), so f_write reads inside the ring.  *)
THEOREM ImgTypes == SISpec => []SITypeOK
<1>1. IInv => SITypeOK
  BY DEF IInv
<1> QED BY <1>1, ImgInductive, PTL

(* An image for which Save_Img returns OK with no error flagged, from a    *)
(* camera that was free, and with a ring that did not fill up between the  *)
(* two stores that move r_index, lost no frame: each is in the file, in    *)
(* order, or still in the ring.                                            *)
THEOREM ImgOkIsPrefix == SISpec => []OkIsPrefix
<1>1. IInv => OkIsPrefix
  BY DEF IInv, Transfer, InOrder, OkIsPrefix
<1> QED BY <1>1, ImgInductive, PTL

(* While no error is flagged, no frame was lost, the camera was free and   *)
(* the ring did not fill up between the two stores that move r_index, the  *)
(* saved frames follow one another: no other overflow goes unnoticed.      *)
THEOREM ImgOverflowNoticed == SISpec => []OverflowNoticed
<1>1. IInv => OverflowNoticed
  <2> SUFFICES ASSUME IInv, ~err, ~dropped, ~mixed, ~unseen, NEW i \in 1..Len(file)-1
               PROVE  file[i+1] = file[i] + 1
    BY DEF OverflowNoticed
  <2>1. InOrder
    BY DEF IInv, Transfer, Ordered
  <2>2. Len(file) \in Nat
    BY DEF IInv, SITypeOK
  <2>3. i \in 1..Len(file) /\ i + 1 \in 1..Len(file)
    BY <2>2
  <2> QED BY <2>1, <2>3 DEF InOrder
<1> QED BY <1>1, ImgInductive, PTL
=============================================================================
