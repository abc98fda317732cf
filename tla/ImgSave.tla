------------------------------- MODULE ImgSave -------------------------------
(***************************************************************************)
(* Saving the image of a camera on the SD card                             *)
(* (src/bsp/stm32f40x/drivers/sd_save.c).  Save_Img asks the camera for an *)
(* image; the CAN receive interrupt, img_save_isr, puts the frames that    *)
(* come into the ring Img_Cbuf, from which Save_Img writes them to a file. *)
(* The unit of the ring and of the image is a frame of 8 bytes.  A data    *)
(* frame is its number in the image; Head is cam_trsimg_fh, with which the *)
(* camera replies, and which ends the image.                               *)
(***************************************************************************)
EXTENDS Integers, Sequences

CONSTANTS
  N,        \* IMG_SIZE / 8, the data frames of an image
  Slots,    \* sizeof(Img_Cbuf.buf) / 8
  MaxWait,  \* 400: the bound on wait_time
  MaxStamp  \* 20: the bound on Time_Stamp

(* 19200 and 768 in the code. *)
ASSUME RingAssumption == N \in Nat /\ Slots \in Nat /\ 1 < Slots /\ Slots < N
ASSUME LimitAssumption == MaxWait \in Nat /\ MaxStamp \in Nat

Head0 == 0
Indices == 0..Slots-1

VARIABLES
  pc,      \* where Save_Img is; "menu" outside of it
  sta,     \* Cam_Sta of the camera
  err,     \* Cam_ErrFlg is not camErr_OK
  buf,     \* Img_Cbuf.buf
  r, w,    \* r_index and w_index
  fcnt,    \* img_fcnt, static in img_save_isr
  stamp,   \* Time_Stamp
  old,     \* the value of Time_Stamp that Save_Img increments
  waits,   \* wait_time, static in Save_Img
  file,    \* what has been written
  result,  \* what Save_Img returned last
  cam,     \* the camera: 0, or the place of its next frame
  dropped, \* a frame of this image did not reach the interrupt handler
  mixed,   \* the camera was still sending for another call when this one began
  unseen   \* the ring became full while r_index was outside of it

isr == <<sta, err, buf, w, fcnt, stamp, unseen>>
sivars == <<pc, sta, err, buf, r, w, fcnt, stamp, old, waits, file, result, cam, dropped, mixed, unseen>>

SITypeOK ==
  /\ pc \in {"menu", "open", "reply", "check", "break", "ready", "loop", "drain", "written",
            "wrap", "pause", "stamp", "end"}
  /\ sta \in {"NoReady", "Ready", "Transmit", "Finish"} /\ err \in BOOLEAN
  /\ buf \in [Indices -> 0..N] /\ r \in 0..Slots /\ w \in Indices
  /\ r = Slots => pc = "wrap"
  /\ fcnt \in 0..N /\ stamp \in 0..MaxStamp+1 /\ old \in 0..MaxStamp /\ waits \in 0..MaxWait+1
  /\ file \in Seq(0..N) /\ result \in {"none", "OK", "Timeout", "file", "can", "err"}
  /\ cam \in 0..N+2 /\ dropped \in BOOLEAN /\ mixed \in BOOLEAN /\ unseen \in BOOLEAN

SIInit ==
  /\ pc = "menu" /\ sta = "NoReady" /\ err = FALSE
  /\ buf = [i \in Indices |-> 0] /\ r = 0 /\ w = 0
  /\ fcnt = 0 /\ stamp = 0 /\ old = 0 /\ waits = 0
  /\ file = <<>> /\ result = "none" /\ cam = 0
  /\ dropped = FALSE /\ mixed = FALSE /\ unseen = FALSE

(* Mutant of Inc: the index may become the size of the ring. *)
IncLate(i) == IF i = Slots THEN 0 ELSE i + 1

Inc(i) == IF i + 1 = Slots THEN 0 ELSE i + 1

-----------------------------------------------------------------------------
(* Save_Img, one action for the code between two accesses to what the      *)
(* interrupt handler uses as well.                                         *)
Goto(l) == pc' = l /\ UNCHANGED result
Returns(res) == pc' = "menu" /\ result' = res

(* The call, from the menu: the initial values.  A frame that comes while   *)
(* they are being set is one of a camera that is still sending.            *)
Save_Img ==
  /\ pc = "menu"
  /\ pc' = "open" /\ result' = "none"
  /\ err' = FALSE /\ sta' = "NoReady" /\ r' = 0 /\ w' = 0
  /\ file' = <<>>
  /\ mixed' = (cam # 0) /\ unseen' = FALSE
  /\ UNCHANGED <<buf, fcnt, stamp, old, waits, cam, dropped>>

(* The camera gets the command.  What one does that is still sending is    *)
(* not known: it goes on, or begins again.                                 *)
Asked ==
  /\ mixed' = (mixed \/ cam # 0)
  /\ \/ cam' = 1 /\ dropped' = FALSE
     \/ cam # 0 /\ UNCHANGED <<cam, dropped>>

(* A new file is opened and the camera is asked for its image.  A command    *)
(* that finds a CAN mailbox at the last try is sent, and yet the call      *)
(* fails.                                                                  *)
Request ==
  /\ pc = "open"
  /\ \/ Returns("file") /\ UNCHANGED <<cam, dropped, mixed>>
     \/ Returns("can") /\ UNCHANGED <<cam, dropped, mixed>>
     \/ Returns("can") /\ Asked
     \/ Goto("reply") /\ Asked
  /\ UNCHANGED <<isr, r, old, waits, file>>

(* The loop that waits for the reply, its exit, and the test after its     *)
(* Delay_ms.                                                               *)
Reply ==
  /\ pc = "reply"
  /\ \/ sta # "NoReady" /\ Goto("ready") /\ UNCHANGED waits
     \/ sta = "NoReady" /\ waits < MaxWait /\ waits' = waits + 1 /\ Goto("check")
     \/ sta = "NoReady" /\ waits >= MaxWait /\ waits' = MaxWait + 1 /\ Goto("break")
  /\ UNCHANGED <<isr, r, old, file, cam, dropped, mixed>>

Break ==
  /\ pc = "break"
  /\ IF sta = "NoReady" THEN Returns("Timeout") ELSE Goto("ready")
  /\ UNCHANGED <<isr, r, old, waits, file, cam, dropped, mixed>>

Check ==
  /\ pc = "check"
  /\ IF err THEN Returns("err") ELSE Goto("reply")
  /\ UNCHANGED <<isr, r, old, waits, file, cam, dropped, mixed>>

(* The loop that waits for the first data frame. *)
Ready ==
  /\ pc = "ready" /\ sta # "Ready"
  /\ Goto("loop")
  /\ UNCHANGED <<isr, r, old, waits, file, cam, dropped, mixed>>

(* The loop that saves the image. *)
Loop ==
  /\ pc = "loop"
  /\ Goto(IF sta = "Transmit" /\ ~err THEN "drain" ELSE "end")
  /\ UNCHANGED <<isr, r, old, waits, file, cam, dropped, mixed>>

Drain ==
  /\ pc = "drain"
  /\ \/ r = w /\ Goto("pause") /\ UNCHANGED file
     \/ r # w /\ Goto("written") /\ file' = Append(file, buf[r])
     \/ r # w /\ Returns("file") /\ UNCHANGED file
  /\ UNCHANGED <<isr, r, old, waits, cam, dropped, mixed>>

(* Mutant of Wrapped: r_index is set to 0 a frame too early. *)
WrappedEarly ==
  /\ pc = "wrap"
  /\ r' = IF r >= Slots - 1 THEN 0 ELSE r
  /\ Goto("drain")
  /\ UNCHANGED <<isr, old, waits, file, cam, dropped, mixed>>

(* r_index goes on by a frame, and is set to 0 in another store if that    *)
(* has left the ring.                                                      *)
Written ==
  /\ pc = "written"
  /\ r' = r + 1
  /\ Goto("wrap")
  /\ UNCHANGED <<isr, old, waits, file, cam, dropped, mixed>>

Wrapped ==
  /\ pc = "wrap"
  /\ r' = IF r = Slots THEN 0 ELSE r
  /\ Goto("drain")
  /\ UNCHANGED <<isr, old, waits, file, cam, dropped, mixed>>

(* Time_Stamp ++ after Delay_ms: the interrupt handler may set it to 0     *)
(* between the read and the write.                                         *)
Pause ==
  /\ pc = "pause"
  /\ old' = stamp
  /\ Goto("stamp")
  /\ UNCHANGED <<isr, r, waits, file, cam, dropped, mixed>>

(* Mutant of Stamp: Time_Stamp has no bound that ends the call. *)
StampNoLimit ==
  /\ pc = "stamp"
  /\ stamp' = IF old < MaxStamp THEN old + 1 ELSE old
  /\ Goto("loop")
  /\ old' = 0
  /\ UNCHANGED <<sta, err, buf, w, fcnt, r, waits, file, cam, dropped, mixed, unseen>>

Stamp ==
  /\ pc = "stamp"
  /\ stamp' = old + 1
  /\ IF old + 1 > MaxStamp THEN Returns("Timeout") ELSE Goto("loop")
  /\ old' = 0
  /\ UNCHANGED <<sta, err, buf, w, fcnt, r, waits, file, cam, dropped, mixed, unseen>>

(* The value of Cam_ErrFlg that is returned at the end may be camErr_OK. *)
End ==
  /\ pc = "end"
  /\ Returns(IF sta = "Finish" \/ ~err THEN "OK" ELSE "err")
  /\ UNCHANGED <<isr, r, old, waits, file, cam, dropped, mixed>>

-----------------------------------------------------------------------------
(* A frame goes into the ring.  The ring is full when the indices meet,    *)
(* which they cannot while r_index is Slots and has yet to be set to 0.    *)
Store(f) ==
  /\ buf' = [buf EXCEPT ![w] = f]
  /\ w' = Inc(w)
  /\ err' = (err \/ Inc(w) = r)
  /\ unseen' = (unseen \/ (r = Slots /\ Inc(w) = 0))
  /\ fcnt' = fcnt + 1

(* Mutant of img_save_isr: the frame Head ends the image at any place. *)
EndsAnywhere(f) ==
  \/ /\ sta = "NoReady"
     /\ IF f = Head0 THEN sta' = "Ready" /\ err' = err ELSE sta' = sta /\ err' = TRUE
     /\ UNCHANGED <<buf, w, fcnt, stamp, unseen>>
  \/ /\ sta # "NoReady" /\ f # Head0
     /\ sta' = IF fcnt = 0 THEN "Transmit" ELSE sta
     /\ stamp' = 0
     /\ IF fcnt < N THEN Store(f) ELSE fcnt' = 0 /\ err' = TRUE /\ UNCHANGED <<buf, w, unseen>>
  \/ /\ sta # "NoReady" /\ f = Head0
     /\ stamp' = 0 /\ fcnt' = 0 /\ sta' = "Finish"
     /\ UNCHANGED <<err, buf, w, unseen>>

(* img_save_isr for the frame f.  Its test for camSta_Finish is always     *)
(* passed: the frame that ends an image leaves fcnt 0, and with that the   *)
(* next frame of any kind begins a new one.                                *)
img_save_isr(f) ==
  \/ /\ sta = "NoReady"
     /\ IF f = Head0 THEN sta' = "Ready" /\ err' = err ELSE sta' = sta /\ err' = TRUE
     /\ UNCHANGED <<buf, w, fcnt, stamp, unseen>>
  \/ /\ sta # "NoReady" /\ fcnt < N
     /\ sta' = IF fcnt = 0 THEN "Transmit" ELSE sta
     /\ stamp' = 0
     /\ Store(f)
  \/ /\ sta # "NoReady" /\ fcnt = N
     /\ stamp' = 0 /\ fcnt' = 0
     /\ IF f = Head0 THEN sta' = "Finish" /\ err' = err ELSE sta' = sta /\ err' = TRUE
     /\ UNCHANGED <<buf, w, unseen>>

(* The camera sends its next frame, which the interrupt handler sees or    *)
(* not, or it fails.  It goes on after Save_Img has given up.              *)
FrameAt(i) == IF i \in 2..N+1 THEN i - 1 ELSE Head0
Sent == IF cam = N + 2 THEN 0 ELSE cam + 1

FrameComes ==
  /\ cam # 0
  /\ img_save_isr(FrameAt(cam))
  /\ cam' = Sent
  /\ UNCHANGED <<pc, r, old, waits, file, result, dropped, mixed>>

FrameLost ==
  /\ cam # 0 /\ ~dropped
  /\ cam' = Sent /\ dropped' = TRUE
  /\ UNCHANGED <<pc, isr, r, old, waits, file, result, mixed>>

Fail ==
  /\ cam # 0
  /\ cam' = 0
  /\ UNCHANGED <<pc, isr, r, old, waits, file, result, dropped, mixed>>

Thread ==
  \/ Request \/ Reply \/ Check \/ Break \/ Ready \/ Loop \/ Drain \/ Written
  \/ Wrapped \/ Pause \/ Stamp \/ End

SINext == Save_Img \/ Thread \/ FrameComes \/ FrameLost \/ Fail

SISpec == SIInit /\ [][SINext]_sivars

(* The menu thread runs on whenever it does not wait, and its delays end. *)
SIFairSpec == SISpec /\ WF_sivars(Thread)

-----------------------------------------------------------------------------
(* The frames in the ring that Save_Img has still to pass. *)
Unsaved == IF w >= r THEN w - r ELSE w - r + Slots

(* If Save_Img returns OK, no error is flagged, the camera was free and    *)
(* the ring was not filled between the two stores that move r_index, then  *)
(* the file is the beginning of the image, in order, and every frame that  *)
(* it lacks is still in the ring: what came in during the last Delay_ms is *)
(* left there.                                                             *)
OkIsPrefix ==
  (pc = "menu" /\ result = "OK" /\ ~err /\ ~mixed /\ ~unseen) =>
     /\ ~dropped
     /\ \A i \in 1..Len(file) : file[i] = i
     /\ Len(file) + Unsaved = N

(* A frame that is overwritten in the ring before it was saved is noticed, *)
(* with one exception: if the ring fills up while r_index stands at its    *)
(* size (sd_save.c:170-173), the comparison of img_save_isr cannot see it. *)
(* Otherwise, unless an error is flagged, a frame did not arrive or the    *)
(* camera was still busy, the frames in the file follow one another.       *)
OverflowNoticed ==
  (~err /\ ~dropped /\ ~mixed /\ ~unseen) => \A i \in 1..Len(file)-1 : file[i+1] = file[i] + 1

(* Save_Img returns, except that it may wait for ever in camSta_Ready, for *)
(* the first data frame of a camera that has replied.                      *)
ReturnsUnlessReady ==
  []<>(pc = "menu") \/ <>[](pc = "ready" /\ sta = "Ready")
=============================================================================
