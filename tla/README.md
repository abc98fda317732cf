# Verification of the badminton robot firmware

TLA+ models, TLC runs and TLAPS proofs for the firmware in
`src/bsp/stm32f40x` and for the RT-Thread 1.2.0 kernel objects in `src/src`
that it is built on. `PROJECT.json` lists the components, the runs, the source
lines behind each definition, the hazards and the theorems; this file explains
them.

## The system and its parts

The robot is a set of RT-Thread threads on one STM32F40x, with a tick of 5 ms
and fixed priorities (a smaller number is more urgent;
`applications/application.c:67-111`):

| thread | priority | what it does | talks through |
|---|---|---|---|
| emergency | 4 | on key 6 empties mailboxes and restarts threads | `Mb_Emergency` |
| realspe | 5 | computes the actual speed | globals |
| keyboard | 6 | menus; starts a match or an arm test | `Mb_Key`, `Mb_Auto`, `Mb_Arm` |
| handle (X), tim | 7 | manual control from the X handle; timing | `HandleData_X`, `time_flag` |
| handle Y, arm | 8 | manual control from the Y handle; upper-body work | `time_flag_y`, `Mb_Arm` |
| auto | 9 | drives the routes of the seven stages | `Mb_Auto`, `RouteFinish` |
| lcd_refresh | 15 | redraws | globals |
| test | 26 | tests | - |
| FATfs | 27 | writes log lines to the SD card | `mq_sd` |

Below the threads are interrupt handlers (keys, DMA reception of frames, CAN,
SysTick), above them the operator with two radio handles and a keyboard.
Outside the two directories named above everything is vendor code.

What runs concurrently and shares state, and is therefore worth a model:

1. the scheduler with its ready lists, the timers, and the kernel's objects:
   semaphore, mutex, event set, mailbox, message queue;
2. the two handle threads, which watch each other's lost-handle flag;
3. the match: the auto, arm and keyboard threads, button 8 and the emergency;
4. the emergency thread, which works with interrupts off, and the CAN bus;
5. the DMA receiver, which has to find the beginning of frames on a line that
   loses bytes;
6. the saving of camera images, from the CAN interrupt through a ring to a file.

All six are modelled. The hazards each is exposed to are listed with their
lines in `PROJECT.json`.

## Modules

| module | models | abstract specification | proofs |
|---|---|---|---|
| `IpcList` | waiting lists: `rt_ipc_list_suspend`, `_resume`, unlinking | - | `IpcListProofs` |
| `Scheduler` | ready lists, bit map, `rt_schedule`, thread operations, timer list, tick, as functions on the kernel's state | `SchedulerContract` | `SchedulerProofs` |
| `Kernel` | threads that sleep, yield, lock the scheduler and share a semaphore, a mutex and an event set | - | `KernelInvariant`, `KernelProofs`, `KernelDelivery`, `KernelSafety` |
| `Mailbox` | `rt_mb_*` of `ipc.c`, `rt_thread_timeout`, `rt_thread_detach` | `MailFifo` | `MailboxProofs` |
| `MessageQueue` | `rt_mq_*` of `ipc.c` with its linked blocks | `MsgFifo` | - |
| `Handles` | `Thread/t_handle.c`, `Y_handle.c`, the emergency's effect on them | - | - |
| `Mission` | `Auto/*`, `menuSys/m_route.c`, `Thread/t_emergency.c` | - | `MissionProofs` |
| `Emergency` | `Thread/t_emergency.c`, `drivers/can.c`, on `Scheduler` | - | - |
| `DmaFrame` | `drivers/dma.c`, `drivers/dma_rx_isr.c` | - | `DeviceProofs` |
| `ImgSave` | `Save_Img` and `img_save_isr` of `drivers/sd_save.c` | - | `DeviceProofs` |

Each `MC*` module extends a component for TLC, and the `.cfg` files give the
constants their values. The modules are layered: `IpcList` is used by all that
wait, `Scheduler` by `Kernel` and `Emergency`. `Mailbox`, `MessageQueue`,
`Handles` and `Mission` assume of the scheduler only what `Kernel` checks of it:
a suspended thread is woken by the object or by its timer, and the most urgent
ready thread runs.

**Scheduler and Kernel.** The kernel's state is one record; each C function is
an operator from such a record to the next, so that `Kernel` and `Emergency` can
compose them as the code does. In `Kernel` a step is what a call does with
interrupts off; before its `rt_schedule` and after it interrupts come in, and
they may be the tick, a release of the semaphore or a send of events. So
`rt_thread_yield` is two steps when a thread calls it, and one when the tick
does, which no other interrupt of the model comes in between. A loop
that runs with interrupts off is one step for each turn while `busy` keeps
everything else out. The tick counter wraps. A run of the system uses one
program, that is, a set of objects and calls its threads may use. `Booted` is
the state `rt_system_scheduler_start` finds, with the threads of one priority in
the order in which they were started.

**Mailbox.** The variables are the fields of `struct rt_mailbox`, the `stat` and
`error` of the threads, and the arguments of the calls they are blocked in. One
action is one stretch of code with interrupts off: the part of a call up to its
sleep, the part from the wake-up to the next sleep or the return, the timer, a
reset, a restart of the receiver. Ticks are abstracted to what the code tests:
a timeout is none, zero or positive, and what is left of a positive one at a
wake-up may be zero.

**MessageQueue.** The same grain with one difference that matters: the copies
are made with interrupts on, in a block that is in no list, so they are steps
of their own. Links, tail and counter are separate variables, as in the code.
`rt_thread_detach` may strike between any two steps. A block held by a thread
that is restarted is lost for good; the history variable `lost` keeps these, and
`BlocksConserved` says that no other block is lost.

**Handles.** A step is the code between two accesses to shared data; time
passes in ticks; thread X preempts thread Y between any two steps, also between
its two tests of `time_flag` (`Y_handle.c:104-109`). A link that is up delivers
a frame within `MaxGap` ticks; links fail and return at ticks. A stick is
centred or not. Speeds that a route assigns are left out, and of `SetSpeed` only
who commanded the wheels last and whether they turn is kept.

**Mission.** A routine (`GoRouteN`, `armactionN`) is the sequence of points
where it can wait, computed from the options, and an action takes a thread from
one point to the next, which is the code between two calls of `Delay_ms` or
`rt_mb_recv`. Waits whose end does not depend on this state (motors, sensors,
keys) are the step `work`. A mail is a stage number. `Pause` carries the one
timing assumption: a pause of 50 ms outlasts the 5 ms period with which the
auto thread looks at button 8. What is simplified:

- The delay of 50 ms in stage 5 before `SetLine` is part of the step that starts
  the stage: the arm has no mail before its end.
- `CamCircle_Static` takes the state of button 8 it compares with after
  `ChooseFunction` has queued a CAN frame; in the model, when the route ends.
  The arm moves motors in between and does not watch the button yet. A change is
  kept in `pressed` until the thread looks.
- `Motor3` clears `Auto_flag` only if it is asked to watch the button, which no
  call does; it is `work` like the other motors.
- The emergency comes at any moment, without the test of its mail: key 6 is the
  only one that is mailed to the thread (`stm32f4xx_it.c:260`).
- In `GoRoute` the back key returns to the menu, and a key without a case ends
  in the endless loop with no stage started (`halted`).
- Stage numbers are 1 to 7. The menus accept others; `RouteTest` then reads
  outside `Route` (`m_route.c:279`), and the auto and the arm thread ignore the
  mail.
- That the arm works after the path (`PathOverBeforeWork`) is said of what the
  code places behind its wait. Some stages move the arm before it, by design.

**DmaFrame.** A byte is its place in the sender's frame and whether it has the
value of the head. The stream counts `NDTR` bytes and calls the handler, whose
three branches are three actions. The line may lose bytes. The stream and the
sender are hardware and are modelled from how the handler uses them: enabling
the stream again restarts it at the beginning of the buffer with the length in
`NDTR`. The handler is assumed to run within the time of one byte, 87 us.

**Emergency.** The thread runs with `PRIMASK` set, so the scheduler may name
another thread as the current one while the emergency's code goes on; `cpu` is
the thread whose code is executed and `k.current` the one the kernel believes in.

**ImgSave.** The unit is a frame of 8 bytes and a data frame is its number in
the image. The thread is split at its delays and at its accesses to the ring;
the interrupt may come between any two of them, frames may be lost and the
camera may fail or be busy with an earlier request. What the model keeps and a
reader may not expect: after the end of the image the ring is not drained, so a
file reported as OK lacks what came in during the last delay, which is exactly
what the ring still holds (`Unsaved`); an overflow is flagged and not returned; a camera that falls silent right
after its reply is waited for without limit (`while (Cam_Sta == camSta_Ready)`).
`r_index` is moved by two stores (`sd_save.c:170-173`). Between them it is the
size of the ring, which `w_index` never is, so `img_save_isr` does not notice a
ring that fills there, and the file lacks frames with no error flagged. The
history variable `unseen` marks this case. `mixed` marks a call made while the
camera was still sending for an earlier one: frames carry no number, and nothing
can be said of the file. `OkIsPrefix` and `OverflowNoticed` except these two.

## Runs

| run | instance | properties |
|---|---|---|
| `mailbox_prio` | 2 senders, 2 competing receivers, priorities, 2 slots, with fairness | `TypeOK`, `CallState`, `NoLostMail`, `NoLostSlot`, `MostUrgentFirst`, `WakeupsDeliver` |
| `mailbox_fifo` | 2 senders, 1 restartable receiver, 2 mails, 2 slots | `SuspendedIffLinked`, `RingConsistent`, `ForeverIsForever`, `ImplementsFifo` |
| `message_queue` | 2 blocks, 2 messages, an ordinary and an urgent sender, restarts | `BlocksConserved`, `QueueConsistent`, `NoLostMessage`, `ImplementsFifo` |
| `kernel` | 3 threads and the idle thread, 3 programs, a tick of 5 values | `TypeOK`, `ReadyQueues`, `TimersRight`, `NoneForgotten`, `TokensConserved`, `MutexExclusive`, `Inheritance`, `EventsDelivered`, `PreemptionKept` |
| `handles` | limit 3; five kinds of match; with fairness | `TypeOK`, `NoFalseBrake`, `ModeSettles` |
| `handles_both_lost` | limit 4; both links fail; with fairness | `BothLostBrakes` is violated |
| `mission` | all stages, 16 settings of the options, with fairness | `TypeOK`, `Lockstep`, `PathOverUnlessStale`, `OneDriver`, `SkipsOnlyIfConfirmed`, `Completes` |
| `mission_dyn_circle` | the camera-driven circle | `PathOverBeforeWork` is violated |
| `emergency_sleep` | the emergency thread, two senders, 3 CAN mailboxes | `SleepsItself` is violated |
| `dma_frame_laser` | 5 bytes, 3 losses, with fairness | `TypeOK`, `OneLossTwoFrames`, `StaysInStep`, `Resynchronises` |
| `dma_frame_stuck` | 9 bytes, 1 loss, with fairness | `Resynchronises` is violated |
| `img_save` | 5 data frames, a ring of 2, limits of 2, with fairness | `SITypeOK`, `OkIsPrefix`, `OverflowNoticed`, `ReturnsUnlessReady` |

The longest are `handles` (733,000 states), `img_save` (536,000) and `kernel`
(500,000), each under 2 minutes on two cores; the others take a minute or less.

Why the bounds are enough:

- Mailbox: two receivers and two slots are the least with which a mail is taken
  from under a resumed receiver while another mail and another sleeper are left.
  A receiver may be restarted only where it is the only one, as the keyboard
  thread is on `Mb_Key`, hence two runs.
- Message queue: two blocks give a queue with a head that is not the tail, an
  empty pool, and both senders holding a block at once. Three blocks with one
  message were tried as well. The robot has one receiver; competing receivers
  are not part of the run.
- Kernel: two threads of one priority and one above them give round robin,
  preemption, inheritance and two waiters in a list; timeouts are -1, 0 and 1
  tick. The counter wraps at `Ticks` = 5, the least value with which half its
  range is more than a tick (`TicksAssumption`). `MaxLock` and `MaxHold` are 2,
  so that nesting happens, `MaxValue` is 1. One program has the semaphore with
  sleeping, yielding and the lock of the scheduler, one the mutex with sleeping,
  one the event set; requests are for two bits, with AND and CLEAR or with OR.
  The symmetry exchanges the two threads of equal priority (they start in a fixed
  order, but the steps and the properties do not tell them apart) and the two
  bits, which only occur together in requests. The theorems of `KernelSafety`
  need no bound on the threads, priorities, bits, ticks or timeouts.
- Handles: the limit of 60 sleeps is cut to 3 or 4, which stays above the gap
  between two frames of a working link (`LimitAssumption`). The matches are
  those in which both links fail, one fails and the emergency key is pressed
  (with the sticks centred: they matter neither to the mode nor to the loss of a
  handle), or X fails while the operators drive and change the mode.
- Mission: the 16 settings are all combinations of the options within each
  stage (`StageSettings`); options of different stages go together.
- Emergency: `Report` is cut from 100 ticks to 2, and the tick wraps at 8.
- DMA: the frame sizes are the real ones. Each loss shifts the frames by one
  place and the start may be anywhere, so three losses visit many shifts. The
  payload of the runs never looks like a head; payloads that do are covered by
  the theorem `InStepUntilLoss`.
- Images: the ring is smaller than the image, as in the code (768 and 19200
  frames), so it turns round twice and overflows. 7 frames and a ring of 3 were
  tried as well (3.1 million states). Deadlock is not checked there,
  because the wait for a silent camera is one.

The four violated properties state what a comment says and the code does not
do:

- With both handles lost the robot is not always braked (`t_handle.c:131`): a
  thread shows the flag 0 for two ticks only and then counts again. For the same
  reason X does not always take over when Y is lost (`t_handle.c:104`).
- In the match after an emergency the arm does not wait for the camera-driven
  circle (`armaction.c:316`): `CircleFinish` is never set again.
- The receiver of the handles' 9-byte frames can lose alignment for good
  (`dma_rx_isr.c:51`): with the transfer 3 or 6 bytes too long, the place of
  the head runs through a cycle that misses the one place at which the handler
  would shorten it again. Frames of 5 bytes recover.
- `rt_thread_sleep` does not always let its caller sleep (`thread.c:414`): the
  emergency thread calls it with interrupts off when the CAN mailboxes are in
  use, and the second call suspends another thread (`t_emergency.c:65`).

## Fairness

- `Mailbox` (`WakeupsDeliver`): weak fairness of the steps of resumed threads.
  The scheduler runs every ready thread in the end as long as the more urgent
  ones sleep, and all robot threads sleep in every round.
- `Handles`: time passes, a thread that has the processor runs on, and a link
  that is up delivers before its gap is over. Whether a link is up is never
  forced.
- `Mission`: both threads poll in loops with an exit that is tested in every
  round; base and arm get where they are sent; the operator goes on pressing.
  An early confirmation is not forced.
- `DmaFrame`: the sender sends all the time and the interrupt is served. Losses
  are finite in number (`MaxLost`) and not forced.
- `ImgSave`: the menu thread runs on and its delays end. The camera is not
  assumed to answer.

## Proofs

The theorems hold for every value of the constants, from the assumptions named
`...Assumption` in the modules and those stated in the theorems themselves.
Each rests on an inductive invariant; TLC was run on the invariant first.

**Mailbox** (`MailboxProofs`, on the facts about lists in `IpcListProofs`).
`Inductive` proves `IInv`. That no mail waits beside a sleeping receiver is not
inductive: a mail may be there because a receiver has been resumed and has not
run. `IInv` counts the resumed threads of each side against the mails and the
free slots, says what the waiting lists contain and in which order, and where
the offsets of the ring are. From it follow `TypeCorrect`, `CallsCorrect`,
`NoLostWakeup`, `NoLostRoom`, `ListsCorrect`, `UrgentFirst` and `RingCorrect`.
`RefinesFifo` maps the ring between its two offsets to the sequence of
`MailFifo`; every action maps to one of its steps or to a stutter.
`ForeverNeverTimesOut` is the action property, from `TimedErrors`: a thread that
waits for ever never carries the error of a timeout.

**Scheduler** (`SchedulerContract`, `SchedulerProofs`). The contract says what
each function of `Scheduler` promises to its callers: from a state that is
`Good` (the ready lists, the bit map, the waiting lists, the timers and the
`stat` of the threads agree) it leads to such a state and changes nothing else;
it keeps the timers in time (`InTime`: seen from the tick at hand each fires
within half the range of the counter, the first of the list soonest); and
`rt_schedule` leaves a running thread that no ready one precedes (`Urgent`).
`SchedulerMeetsContract` proves it from the functions. The proofs about `Kernel`
use the contract and no definition of a function, which keeps them short.

**Kernel** (`KernelInvariant` holds the invariants, `KernelProofs` and
`KernelDelivery` one lemma for each call, which assumes the contract,
`KernelSafety` the theorems, where the contract is discharged).

- `Inductive` proves `IInv`: `Good`; the program counters and the loops with
  interrupts off (`Control`); each suspended thread is in a call and has a timer
  or a list to wake it (`Reasons`); the running thread is suspended only on its
  way to `rt_schedule` (`Running`); who owns the mutex, including the thread to
  which it was handed and which has yet to return (`Exclusive`); and whose
  priority was raised (`Inherits`, with the order of the waiting list, without
  which the new owner could be less urgent than the next waiter). From it follow
  `QueuesAgree`, `NoThreadForgotten`, `MutexHasOneOwner` and `PriorityInherited`.
- `TimersStayRight` needs `Clock`, because `TimersRight` says nothing of the
  moments between a tick and the end of `rt_timer_check`: then the timers are
  in time for the tick before. Each step is `Timely`, that is, keeps `Clock`.
- `PreemptionStays` is the action property `PreemptionKept`. Each step is shown
  either to end with an urgent running thread, to keep it urgent, or to be the
  step of `rt_mutex_release` that lowers it (`Preempts`, `Lowered`).
- `NoTokenLost`, `NoEventLost` and `TypesKept` follow from a second invariant,
  `JInv`, inductive relative to `IInv` (`DeliveryInductive`). `Place` ties the
  call a thread is in to the list it waits in and what it left in `event_set` to
  the event set, also for those the loop of `rt_event_send` has yet to look at;
  `Sound` holds the ranges and says that the loop's threads are still listed;
  and the tokens are the value and the threads granted one (`Grants`), whose
  number grows by one where a release wakes a thread and shrinks by one where
  that thread returns; timers and resets leave it alone.

**Mission** (`MissionProofs`). `StaysInStep` rests on `Token`: the right to act
on a stage is in one place at a time, in a mail, with the auto thread, or with
the arm. `MissionTypes` says that a thread is at a point of the routine of its
stage; lemmas about each routine say where its waits, confirmations and ends
are. `Match` adds what the flags mean at these points: which stage is under way
(`Stage`), that the arm is past its wait only with the flag it polls cleared
(`Waiting`), when `CircleFinish` (`Circled`) and `Auto_flag` (`Sureness`: by a
press in this stage, or left by an emergency) can be cleared, and how the press of button 8 separates the base's circle and the arm's
drive in stage 7 (`Beside`). From it follow `PathBeforeWork`, `BaseHasOneDriver`
and `ConfirmedBeforeSkip`. `WorksAfterThePath` is the property that the run
`mission_dyn_circle` violates, from the assumption that `Circle_dyn` is not among
the options.

**DmaFrame** (`DeviceProofs`). `TransferBounded` (types, and the bound on the
transfer). `InStepUntilLoss` adds to the property the place of the sender, that
the head of a frame has the head's value, and that nothing is lost between the
last byte and the interrupt. `RecoversInTwo` follows the receiver through the
transfers after a loss (`Gap`, `Recovering`); it assumes a payload without the
head's value, without which it is false. Remainders are written `Wrap`, by
comparison, so that the arithmetic stays linear.

**ImgSave** (`DeviceProofs`). `IInv` is `SITypeOK`, `Phases` and, as long as no
error is flagged, the camera was free and the ring did not fill `unseen`,
`Transfer`: the frames in the file and those in the ring, read from one index to
the other, are the image in order from its first frame, and their number is what
the camera has sent, also while `r` stands at the size of the ring. `ImgTypes`,
`ImgOkIsPrefix` and `ImgOverflowNoticed` follow, for any image larger than the
ring.

Only model-checked:

- all liveness properties (`WakeupsDeliver`, `ModeSettles`, `Completes`,
  `Resynchronises`, `ReturnsUnlessReady`): fairness and `ENABLED` are out of the
  prover's reach;
- everything about `MessageQueue` and `Handles`. For `MessageQueue` the
  invariant would have to keep the queue and the free list as sequences beside
  the links; for `Handles`, to relate the places and the counts of both threads
  to the age of the last frame. Neither has been worked out.

## Not modelled

Kinematics, control laws and sensor conversions (floating point); the FAT file
system, SDIO and the vendor libraries; the heap, object registry and module
loader of the kernel (all robot objects are static); the LCD and printing. In
`Handles` the speeds a route assigns, in `DmaFrame` the transmit side, in
`MessageQueue` the size checks, in `ImgSave` the check of the arguments, which
every caller passes, and of all kernel objects creation and deletion
are left out. The buffers of CAN commands, which threads share without
protection, appear in the hazards and in no module. A frame that lost a byte is
handed over as if it were whole, since frames carry no sum; `DmaFrame` models
this and no property excludes it. The source tree holds the RT-Thread
distribution with ports and vendor libraries for many boards; the models cover
the firmware of the robot and the kernel files it is built on.
