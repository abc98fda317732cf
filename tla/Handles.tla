------------------------------- MODULE Handles -------------------------------
(***************************************************************************)
(* The two radio handles that drive the chassis: thread_handle (X, in      *)
(* Thread/t_handle.c, priority 7) and thread_handle_Y (Y_handle.c,         *)
(* priority 8).  Each thread waits for a frame of its own handle, which    *)
(* the DMA interrupt stores in HandleData and counts in rx_cnt, and gives  *)
(* up after Limit sleeps of one tick; time_flag and time_flag_y hold that  *)
(* count, 0 standing for a lost handle.  The threads read each other's     *)
(* flag to choose between two-handle control (Only_XY = 1, thread Y drives *)
(* from both sticks), single-handle control and braking.  Nobody else      *)
(* calls SetSpeed during a match: the routes only assign Speed_X, Speed_Y. *)
(*                                                                         *)
(* A step is a stretch of code between two accesses to shared data.  Time  *)
(* is the 5 ms tick.  Thread X preempts thread Y; the interrupts preempt   *)
(* both.  Speeds are abstracted to zero or not, and those a route assigns  *)
(* to Speed_X and Speed_Y are left out.                                    *)
(***************************************************************************)
EXTENDS Naturals

CONSTANTS
  Limit,   \* 60 in the code: sleeps without a frame before a handle is lost
  MaxGap,  \* a handle whose link is up sends a frame at least this often (ticks)
  KeyGap,  \* ticks between two presses of the emergency key
  Matches  \* the matches looked at: the menu setting single, what may happen
           \* ("X", "Y": the link of the handle fails; "key": the emergency key
           \* is pressed), and the frames the handles send, each with a stick
           \* off centre or not, Button9_On and Button6_Up

ASSUME LimitAssumption == Limit \in Nat /\ MaxGap \in Nat /\ 0 < MaxGap /\ MaxGap + 1 < Limit
ASSUME MatchesAssumption ==
  Matches \subseteq [single : BOOLEAN, faults : SUBSET {"X", "Y", "key"},
                    frames : SUBSET [stick : BOOLEAN, b9 : BOOLEAN, b6 : BOOLEAN]]
ASSUME KeyGapAssumption == KeyGap \in Nat /\ KeyGap > 1

H == {"X", "Y"}
Other(h) == IF h = "X" THEN "Y" ELSE "X"
Centred == [stick |-> FALSE, b9 |-> FALSE, b6 |-> FALSE]

VARIABLES
  pc,            \* where thread h is
  sleep,         \* ticks left of its rt_thread_delay
  fresh,         \* *handle_count differs from temp
  time_flag,     \* time_flag and time_flag_y
  HandleData,    \* HandleData_X and HandleData_Y
  Handle_Speed,  \* Handle_Speed_X, Handle_Speed_Y: off centre or not
  Only_XY,
  match,         \* the match that is played, with the setting single
  cmd,           \* the last SetSpeed: who called it, and whether it is a motion
  late,          \* a tick has already passed in the middle of thread Y's round
  pressed,       \* ticks since the emergency key was pressed
  link, quiet, dropped  \* the radio: up or not, ticks since the last frame,
                        \* and the handles whose link has ever been down

thread == <<pc, sleep>>
radio == <<link, quiet, dropped>>
control == <<Only_XY, cmd, Handle_Speed>>
vars == <<thread, fresh, time_flag, HandleData, control, match, late, pressed, radio>>

Init ==
  /\ pc = [h \in H |-> "top"]
  /\ sleep = [h \in H |-> 0]
  /\ fresh = [h \in H |-> FALSE]
  /\ time_flag = [h \in H |-> 1]
  /\ HandleData = [h \in H |-> Centred]
  /\ Handle_Speed = [h \in H |-> FALSE]
  /\ Only_XY = 1 /\ match \in Matches
  /\ cmd = [by |-> "none", moving |-> FALSE]
  /\ late = FALSE /\ pressed = KeyGap
  /\ link = [h \in H |-> TRUE]
  /\ quiet = [h \in H |-> 0]
  /\ dropped = {}

-----------------------------------------------------------------------------
(* Thread h has the processor: it is not asleep, and X goes before Y. *)
Runs(h) == sleep[h] = 0 /\ (h = "Y" => sleep["X"] > 0)

Goto(h, l) == pc' = [pc EXCEPT ![h] = l] /\ UNCHANGED <<sleep, late>>
Delay(h, l, ticks) ==
  /\ pc' = [pc EXCEPT ![h] = l]
  /\ sleep' = [sleep EXCEPT ![h] = ticks]
  /\ late' = (IF h = "Y" THEN FALSE ELSE late)

SetSpeed(by, moving) == cmd' = [by |-> by, moving |-> moving]

(* temp = *handle_count *)
Read(h) ==
  /\ pc[h] = "top" /\ Runs(h)
  /\ fresh' = [fresh EXCEPT ![h] = FALSE]
  /\ Goto(h, "test")
  /\ UNCHANGED <<time_flag, HandleData, control, match, pressed, radio>>

(* The head of the inner while loop. *)
Test(h) ==
  /\ pc[h] = "test" /\ Runs(h)
  /\ \/ fresh[h] /\ Goto(h, "round") /\ UNCHANGED time_flag
     \/ /\ ~fresh[h]
        /\ time_flag' = [time_flag EXCEPT ![h] = (@ + 1) % 256]
        /\ Delay(h, "slept", 1)
  /\ UNCHANGED <<fresh, HandleData, control, match, pressed, radio>>

(* Mutant of Slept: the count is never compared with the limit. *)
SleptForever(h) ==
  /\ pc[h] = "slept" /\ Runs(h)
  /\ Goto(h, "test")
  /\ UNCHANGED <<time_flag, fresh, HandleData, control, match, pressed, radio>>

(* The rest of its body.  A frame that came during the last sleep is not   *)
(* looked at.                                                              *)
Slept(h) ==
  /\ pc[h] = "slept" /\ Runs(h)
  /\ \/ /\ time_flag[h] > Limit
        /\ time_flag' = [time_flag EXCEPT ![h] = 0]
        /\ Goto(h, "round")
     \/ time_flag[h] <= Limit /\ Goto(h, "test") /\ UNCHANGED time_flag
  /\ UNCHANGED <<fresh, HandleData, control, match, pressed, radio>>

(* if(time_flag): take over the stick. *)
Round(h) ==
  /\ pc[h] = "round" /\ Runs(h) /\ time_flag[h] # 0
  /\ time_flag' = [time_flag EXCEPT ![h] = 1]
  /\ Handle_Speed' = [Handle_Speed EXCEPT ![h] = HandleData[h].stick]
  /\ Goto(h, "control")
  /\ UNCHANGED <<fresh, HandleData, Only_XY, cmd, match, pressed, radio>>

(* Mutant of BothLost: one lost handle is enough. *)
AnyLost(h) ==
  /\ pc[h] = "round" /\ Runs(h) /\ time_flag[h] = 0
  /\ SetSpeed("lost", FALSE)
  /\ Delay(h, "top", 2)
  /\ UNCHANGED <<fresh, time_flag, HandleData, Only_XY, Handle_Speed, match, pressed, radio>>

(* else if(time_flag == 0 && time_flag_y == 0): brake. *)
BothLost(h) ==
  /\ pc[h] = "round" /\ Runs(h) /\ time_flag[h] = 0
  /\ IF time_flag[Other(h)] = 0 THEN SetSpeed("lost", FALSE) ELSE UNCHANGED cmd
  /\ Delay(h, "top", 2)
  /\ UNCHANGED <<fresh, time_flag, HandleData, Only_XY, Handle_Speed, match, pressed, radio>>

(* if(Button9_On || time_flag_y == 0) *)
Alone(h) ==
  /\ pc[h] = "control" /\ Runs(h)
  /\ Goto(h, IF HandleData[h].b9 \/ time_flag[Other(h)] = 0 THEN "alone" ELSE "ask")
  /\ UNCHANGED <<fresh, time_flag, HandleData, control, match, pressed, radio>>

(* Single-handle control from this handle. *)
Control(h) ==
  /\ pc[h] = "alone" /\ Runs(h)
  /\ Only_XY' = 0
  /\ SetSpeed(h, Handle_Speed[h])
  /\ Goto(h, "ask")
  /\ UNCHANGED <<fresh, time_flag, HandleData, Handle_Speed, match, pressed, radio>>

(* if(Button9_Off && time_flag_y != 0): either may have changed since.     *)
Ask(h) ==
  /\ pc[h] = "ask" /\ Runs(h)
  /\ Goto(h, IF ~HandleData[h].b9 /\ time_flag[Other(h)] # 0 THEN "together" ELSE "brake")
  /\ UNCHANGED <<fresh, time_flag, HandleData, control, match, pressed, radio>>

(* Mutant of Together: Only_XY is never set again. *)
StaysAlone(h) ==
  /\ pc[h] = "together" /\ Runs(h)
  /\ Goto(h, "brake")
  /\ UNCHANGED <<fresh, time_flag, HandleData, control, match, pressed, radio>>

(* Back to two-handle control. *)
Together(h) ==
  /\ pc[h] = "together" /\ Runs(h)
  /\ Only_XY' = 1
  /\ Goto(h, "brake")
  /\ UNCHANGED <<fresh, time_flag, HandleData, cmd, Handle_Speed, match, pressed, radio>>

(* Button6_Up brakes.  This ends the round of thread X. *)
Brake(h) ==
  /\ pc[h] = "brake" /\ Runs(h)
  /\ IF HandleData[h].b6 THEN SetSpeed("brake", FALSE) ELSE UNCHANGED cmd
  /\ IF h = "X" THEN Delay(h, "top", 2) ELSE Goto(h, "drive")
  /\ UNCHANGED <<fresh, time_flag, HandleData, Only_XY, Handle_Speed, match, pressed, radio>>

(* Thread Y drives: from its own handle if the menu says so (single), from *)
(* both sticks in two-handle control.                                      *)
Drive ==
  /\ pc["Y"] = "drive" /\ Runs("Y")
  /\ \/ /\ match.single
        /\ Handle_Speed' = [Handle_Speed EXCEPT !["X"] = HandleData["Y"].stick]
        /\ SetSpeed("Y", HandleData["Y"].stick \/ Handle_Speed["Y"])
     \/ /\ ~match.single /\ Only_XY = 1
        /\ SetSpeed("both", Handle_Speed["X"] \/ Handle_Speed["Y"])
        /\ UNCHANGED Handle_Speed
     \/ ~match.single /\ Only_XY # 1 /\ UNCHANGED <<cmd, Handle_Speed>>
  /\ Delay("Y", "top", 2)
  /\ UNCHANGED <<fresh, time_flag, HandleData, Only_XY, match, pressed, radio>>

Step(h) ==
  \/ Read(h) \/ Test(h) \/ Slept(h) \/ Round(h) \/ BothLost(h)
  \/ Alone(h) \/ Control(h) \/ Ask(h) \/ Together(h) \/ Brake(h)

-----------------------------------------------------------------------------
(* rt_hw_serial_dma_rx_isr stores an aligned frame: at most one per tick.  *)
Frame(h, f) ==
  /\ link[h] /\ quiet[h] > 0
  /\ HandleData' = [HandleData EXCEPT ![h] = f]
  /\ fresh' = [fresh EXCEPT ![h] = TRUE]
  /\ quiet' = [quiet EXCEPT ![h] = 0]
  /\ UNCHANGED <<thread, time_flag, control, match, late, pressed, link, dropped>>

(* SysTick.  A round of thread Y is over within the tick it started in or  *)
(* the next one.  A link that fails or returns does so at a tick: whether  *)
(* it is up matters only to the frames until the next one.                 *)
Tick ==
  /\ sleep["X"] > 0
  /\ sleep["Y"] > 0 \/ ~late
  /\ late' = (sleep["Y"] = 0)
  /\ pressed' = IF pressed < KeyGap THEN pressed + 1 ELSE KeyGap
  /\ sleep' = [h \in H |-> IF sleep[h] > 0 THEN sleep[h] - 1 ELSE 0]
  /\ link' \in [H -> BOOLEAN]
  /\ \A h \in H : /\ link'[h] # link[h] => h \in match.faults
                  /\ link[h] /\ link'[h] => quiet[h] < MaxGap
  /\ quiet' = [h \in H |-> IF link'[h] THEN quiet[h] + 1 ELSE 0]
  /\ dropped' = dropped \cup {h \in H : ~link'[h]}
  /\ UNCHANGED <<pc, fresh, time_flag, HandleData, control, match>>

(* thread_emergency restarts thread_handle wherever it is.  time_flag is a *)
(* global and keeps its value; SetSpeed is not called.                     *)
Emergency ==
  /\ "key" \in match.faults /\ pressed = KeyGap /\ pressed' = 0
  /\ pc' = [pc EXCEPT !["X"] = "top"]
  /\ sleep' = [sleep EXCEPT !["X"] = 0]
  /\ Handle_Speed' = [Handle_Speed EXCEPT !["X"] = FALSE]
  /\ UNCHANGED <<fresh, time_flag, HandleData, Only_XY, cmd, match, late, radio>>

Environment ==
  \/ \E h \in H, f \in match.frames : Frame(h, f)
  \/ Emergency

Next == Tick \/ Drive \/ (\E h \in H : Step(h)) \/ Environment

Spec == Init /\ [][Next]_vars

(* Time passes, a thread that has the processor runs on, and a link that   *)
(* is up delivers its frames before its gap is over.                       *)
FairSpec ==
  /\ Spec
  /\ WF_vars(Tick) /\ WF_vars(Drive)
  /\ \A h \in H : WF_vars(Step(h)) /\ WF_vars(quiet[h] = MaxGap /\ \E f \in match.frames : Frame(h, f))
-----------------------------------------------------------------------------
(* Types.  The count of a thread never exceeds Limit + 2 (an emergency may *)
(* restart thread X before it has compared the count with Limit), so a u8  *)
(* is wide enough and never wraps to 0, the mark of a lost handle.         *)
TypeOK ==
  /\ pc \in [H -> {"top", "test", "slept", "round", "control", "alone", "ask", "together",
                  "brake", "drive"}]
  /\ sleep \in [H -> 0..2]
  /\ fresh \in [H -> BOOLEAN]
  /\ time_flag \in [H -> 0..Limit + 2]
  /\ HandleData \in [H -> [stick : BOOLEAN, b9 : BOOLEAN, b6 : BOOLEAN]]
  /\ Handle_Speed \in [H -> BOOLEAN]
  /\ Only_XY \in {0, 1} /\ match \in Matches
  /\ cmd \in [by : H \cup {"none", "both", "lost", "brake"}, moving : BOOLEAN]
  /\ late \in BOOLEAN /\ pressed \in 0..KeyGap
  /\ link \in [H -> BOOLEAN] /\ quiet \in [H -> 0..MaxGap] /\ dropped \subseteq H

(* No false alarm: the loss branch of the two threads brakes the robot     *)
(* only if the link of the Y handle has really been down, and that of the  *)
(* X handle too unless the emergency key is pressed in the match: each     *)
(* restart of thread X lets time_flag count on from where it was, so that  *)
(* it may reach the limit on a link that is up (t_handle.c:73-86, 131).    *)
NoFalseBrake ==
  cmd.by = "lost" => "Y" \in dropped /\ ("X" \in dropped \/ "key" \in match.faults)

(* Control comes back: when from some moment on both handles are seen      *)
(* working and Button9 is off on both, two-handle control is chosen for    *)
(* good, whatever the threads overwrote in Only_XY before.                 *)
ModeSettles ==
  <>[](\A h \in H : ~HandleData[h].b9 /\ time_flag[h] # 0) => <>[](Only_XY = 1)

(* t_handle.c:131: with both handles lost the robot is braked.             *)
BothLostBrakes == (~link["X"] /\ ~link["Y"]) ~> (~cmd.moving \/ link["X"] \/ link["Y"])
=============================================================================
