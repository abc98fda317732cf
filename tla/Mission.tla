------------------------------- MODULE Mission -------------------------------
(* The automatic match: the menu on the keyboard thread starts a stage, the   *)
(* auto thread drives the base along the route of a stage, the arm thread     *)
(* does the upper-body work of the same stage and starts the next one, and    *)
(* the emergency thread throws all of it away.  Mails, the flags the threads  *)
(* poll and the operator's button 8 are the only things they share.           *)
(*                                                                            *)
(* A routine (GoRouteN, armactionN) is the sequence of the points where it    *)
(* can stop; an action runs a thread from one such point to the next, the     *)
(* code between two calls of Delay_ms or rt_mb_recv.  "work" stands for the   *)
(* waits whose end does not depend on the state modelled here: motors, the    *)
(* child-robot sensor, the keyboard.                                          *)
EXTENDS Naturals, Sequences

CONSTANTS
  Flags,        \* the options the operator may switch on in the menu
  Settings      \* bound: the sets of them that are chosen in RouteTest

Options ==
  {"WalkGround", "Circle_dyn", "Circle_ss1", "Circle_jg", "Pole", "Laser_PW",
   "Swing", "Handover_ss", "Handover_pw", "debug"}

ASSUME FlagsAssumption == Flags \subseteq Options /\ Settings \subseteq SUBSET Flags

Stages == 1 .. 7
Idle == [n |-> 0, at |-> 0]

VARIABLES
  keyboard,     \* where the menu is: "menu", "running", "armtest", or "halted" in
                \* the loop at the end of GoRoute with no stage started
  auto, arm,    \* the stage a thread is in (0: waiting for mail) and the point it is at
  Mb_Auto, Mb_Arm,
  Route_Num,    \* the stage RouteTest offers to start
  RouteFinish,  \* TRUE while the route is under way (SetPointPath sets it to 1)
  CircleFinish, \* TRUE until Go_CamCircle has ended
  armtest_flag, \* TRUE in a match, FALSE in ArmTest
  Auto_flag,    \* FALSE: the operator confirmed the end of the stage beforehand
  flag,         \* the options switched on
  pressed,      \* thread -> button 8 changed since the thread began to watch it
  past,         \* the arm has left the wait for the end of the route (history)
  confirmed,    \* why Auto_flag may be cleared: "stage": button 8 changed since
                \* armaction2 or armaction6 began to watch it; "stale": it was left
                \* cleared by an emergency; "no": not at all (history)
  aborted       \* there has been an emergency (history)

vars == <<keyboard, auto, arm, Mb_Auto, Mb_Arm, Route_Num, RouteFinish, CircleFinish,
          armtest_flag, Auto_flag, flag, pressed, past, confirmed, aborted>>

On(f) == f \in flag
Opt(f, steps) == IF On(f) THEN steps ELSE << >>

-----------------------------------------------------------------------------
(* The routes.  "path": until the end of the route; "dyn": the circle driven  *)
(* by camera; "circle": CamCircle_Static after the route.                     *)

GoRoute1 == <<"path">>

GoRoute2 ==
  IF On("Circle_dyn") THEN <<"dyn">>
  ELSE IF On("Circle_ss1") /\ ~On("WalkGround") THEN <<"path", "circle">>
  ELSE <<"path">>

GoRoute3 == <<"path">>

GoRoute4 == <<"path">>

GoRoute5 == <<"path">>

GoRoute6 == <<"path">>

GoRoute7 ==
  IF On("Circle_jg") /\ ~On("WalkGround") THEN <<"path", "circle">> ELSE <<"path">>

Route(n) ==
  CASE n = 1 -> GoRoute1
    [] n = 2 -> GoRoute2
    [] n = 3 -> GoRoute3
    [] n = 4 -> GoRoute4
    [] n = 5 -> GoRoute5
    [] n = 6 -> GoRoute6
    [] n = 7 -> GoRoute7
    [] OTHER -> << >>

-----------------------------------------------------------------------------
(* The work of the arm.  "route": while(RouteFinish); "circle": while         *)
(* (CircleFinish); "button": Wait_Button8_Change; "pause": Delay_ms(50) or    *)
(* more; "drive": the arm thread moves the base until it is in place or the   *)
(* button changes; "creep": it moves the base until the button changes;       *)
(* "early": the button is watched for an early confirmation, "earlyroute"     *)
(* does so during the route; "confirm": the wait that one spares; "end": the  *)
(* mail for the next stage, and the return to rt_mb_recv.                     *)

armaction1 ==
  <<"route", "work", "button", "work">> \o Opt("debug", <<"button">>) \o <<"end">>

armaction2 ==
  (IF On("Circle_dyn") THEN <<"circle">> ELSE <<"route">>)
    \o Opt("WalkGround", <<"work">>) \o <<"button", "early", "confirm", "end">>

armaction3 ==
  <<"route">> \o Opt("WalkGround", <<"work">>)
    \o (IF On("Handover_ss") THEN <<"work", "drive">> ELSE <<"button">>)
    \o <<"work", "pause">> \o Opt("debug", <<"button">>) \o <<"end">>

armaction4 ==
  <<"route">> \o Opt("WalkGround", <<"work">>) \o Opt("debug", <<"button">>) \o <<"work">>
    \o (IF On("Pole") THEN <<"button", "drive">>
        ELSE Opt("Laser_PW", <<"button", "creep">>))
    \o <<"button", "pause", "end">>

armaction5 ==
  <<"route">> \o Opt("WalkGround", <<"work">>) \o <<"button">>
    \o (IF On("Handover_pw") THEN <<"work", "drive">> ELSE <<"button">>)
    \o <<"work", "pause">> \o Opt("debug", <<"button">>) \o <<"end">>

armaction6 ==
  (IF armtest_flag THEN <<"work">> ELSE << >>)
    \o <<"earlyroute">> \o Opt("WalkGround", <<"work">>) \o <<"confirm">>
    \o (IF On("Swing") THEN <<"drive">> ELSE <<"work">>)
    \o <<"pause", "work", "button", "work">> \o Opt("debug", <<"button">>)
    \o <<"button", "pause", "drive", "pause", "button", "drive", "pause", "button",
         "work", "pause", "button", "end">>

armaction7 ==
  <<"route">>
    \o Opt("WalkGround", <<"work">> \o Opt("Circle_jg", <<"button", "drive">>) \o <<"work">>)
    \o <<"work", "button", "pause", "drive", "button", "end">>

armaction(n) ==
  CASE n = 1 -> armaction1
    [] n = 2 -> armaction2
    [] n = 3 -> armaction3
    [] n = 4 -> armaction4
    [] n = 5 -> armaction5
    [] n = 6 -> armaction6
    [] n = 7 -> armaction7
    [] OTHER -> << >>

AutoAt(step) == auto.n # 0 /\ Route(auto.n)[auto.at] = step
ArmAt(step) == arm.n # 0 /\ armaction(arm.n)[arm.at] = step
ArmIn(steps) == \E step \in steps : ArmAt(step)

AutoDrives == AutoAt("path") \/ AutoAt("dyn") \/ AutoAt("circle")
ArmDrives == ArmIn({"drive", "creep"})

-----------------------------------------------------------------------------
Init ==
  /\ keyboard = "menu"
  /\ auto = Idle /\ arm = Idle
  /\ Mb_Auto = << >> /\ Mb_Arm = << >>
  /\ Route_Num = 1
  /\ RouteFinish = FALSE
  /\ CircleFinish = TRUE
  /\ armtest_flag = TRUE
  /\ Auto_flag = TRUE
  /\ flag = {"Swing", "Handover_ss", "Handover_pw"} \cap Flags
  /\ pressed = [t \in {"auto", "arm"} |-> FALSE]
  /\ past = FALSE /\ confirmed = "no" /\ aborted = FALSE

(* RouteTest: the operator edits the options and the stage, then the stage is *)
(* mailed to the auto thread.  The function never returns.                    *)
RouteTest ==
  /\ keyboard = "menu"
  /\ \E f \in Settings, n \in Stages :
       /\ flag' = f
       /\ Route_Num' = n
       /\ Mb_Auto' = Append(Mb_Auto, n)
  /\ keyboard' = "running"
  /\ UNCHANGED <<auto, arm, Mb_Arm, RouteFinish, CircleFinish, armtest_flag, Auto_flag,
                 pressed, past, confirmed, aborted>>

(* GoRoute: only WalkGround can be changed, and the stage is that of the key. *)
(* The back key returns to the menu; a key that no case of the switch names   *)
(* runs into the endless loop without a mail.                                 *)
GoRoute ==
  /\ keyboard = "menu"
  /\ \/ keyboard' = "running" /\ \E n \in Stages : Mb_Auto' = Append(Mb_Auto, n)
     \/ keyboard' \in {"menu", "halted"} /\ UNCHANGED Mb_Auto
  /\ \/ flag' = flag
     \/ flag' = flag \ {"WalkGround"}
     \/ flag' = flag \cup ({"WalkGround"} \cap Flags)
  /\ UNCHANGED <<auto, arm, Mb_Arm, Route_Num, RouteFinish, CircleFinish, armtest_flag,
                 Auto_flag, pressed, past, confirmed, aborted>>

(* ArmTest: the arm alone, with no route to wait for. *)
ArmTest ==
  /\ keyboard = "menu"
  /\ armtest_flag' = FALSE
  /\ RouteFinish' = FALSE
  /\ \E num \in Stages : Mb_Arm' = Append(Mb_Arm, num)
  /\ keyboard' = "armtest"
  /\ UNCHANGED <<auto, arm, Mb_Auto, Route_Num, CircleFinish, Auto_flag, flag, pressed,
                 past, confirmed, aborted>>

-----------------------------------------------------------------------------
(* The auto thread.                                                           *)

(* rt_mb_recv, SetPointPath (for stage 5: RouteFinish=1, Delay_ms(50) and     *)
(* SetLine) and the mail to the arm, up to the first Delay_ms of the loop.    *)
(* The delay of stage 5 is part of the step: the arm is idle until the mail,  *)
(* and a press or an emergency meanwhile leaves what it leaves afterwards.    *)
AutoStart ==
  /\ auto.n = 0 /\ Mb_Auto # << >>
  /\ auto' = [n |-> Head(Mb_Auto), at |-> 1]
  /\ Mb_Auto' = Tail(Mb_Auto)
  /\ Route_Num' = Head(Mb_Auto)
  /\ RouteFinish' = TRUE
  /\ Mb_Arm' = Append(Mb_Arm, Head(Mb_Auto))
  /\ pressed' = [pressed EXCEPT !["auto"] = FALSE]
  /\ UNCHANGED <<keyboard, arm, CircleFinish, armtest_flag, Auto_flag, flag, past,
                 confirmed, aborted>>

(* Mutant of AutoNext: one point too many. *)
AutoNextLate ==
  /\ auto' = IF auto.at <= Len(Route(auto.n)) THEN [auto EXCEPT !.at = @ + 1] ELSE Idle
  /\ pressed' = [pressed EXCEPT !["auto"] = FALSE]

AutoNext ==
  /\ auto' = IF auto.at < Len(Route(auto.n)) THEN [auto EXCEPT !.at = @ + 1] ELSE Idle
  /\ pressed' = [pressed EXCEPT !["auto"] = FALSE]

(* Mutant of AutoArrive: the route ends without clearing RouteFinish. *)
ArriveSilently ==
  /\ AutoAt("path")
  /\ AutoNext
  /\ RouteFinish' = (auto.n = 3)
  /\ UNCHANGED <<keyboard, arm, Mb_Auto, Mb_Arm, Route_Num, CircleFinish, armtest_flag,
                 Auto_flag, flag, past, confirmed, aborted>>

(* The end of the route is reached: RouteFinish=0, SPEED_STOP. *)
AutoArrive ==
  /\ AutoAt("path")
  /\ AutoNext
  /\ RouteFinish' = FALSE
  /\ UNCHANGED <<keyboard, arm, Mb_Auto, Mb_Arm, Route_Num, CircleFinish, armtest_flag,
                 Auto_flag, flag, past, confirmed, aborted>>

(* The circle driven by camera has come to rest at the aim: CircleFinish=0,   *)
(* while RouteFinish stays as SetPointPath left it.                           *)
AutoCircled ==
  /\ AutoAt("dyn")
  /\ AutoNext
  /\ CircleFinish' = FALSE
  /\ UNCHANGED <<keyboard, arm, Mb_Auto, Mb_Arm, Route_Num, RouteFinish, armtest_flag,
                 Auto_flag, flag, past, confirmed, aborted>>

(* CamCircle_Static ends when the base is in place or button 8 has changed    *)
(* since it began.  The button is sampled after ChooseFunction has queued a   *)
(* CAN frame, taken here as the moment the route ends: the arm moves motors   *)
(* in between, and does not watch the button yet.                             *)
CamCircle_Static ==
  /\ AutoAt("circle")
  /\ AutoNext
  /\ UNCHANGED <<keyboard, arm, Mb_Auto, Mb_Arm, Route_Num, RouteFinish, CircleFinish,
                 armtest_flag, Auto_flag, flag, past, confirmed, aborted>>

-----------------------------------------------------------------------------
(* The arm thread.                                                            *)

armVars == <<keyboard, auto, Mb_Arm, Route_Num, RouteFinish, CircleFinish, armtest_flag,
             flag, aborted>>

ArmNext ==
  /\ arm' = [arm EXCEPT !.at = @ + 1]
  /\ pressed' = [pressed EXCEPT !["arm"] = FALSE]

ArmStart ==
  /\ arm.n = 0 /\ Mb_Arm # << >>
  /\ arm' = [n |-> Head(Mb_Arm), at |-> 1]
  /\ Mb_Arm' = Tail(Mb_Arm)
  /\ past' = FALSE
  /\ confirmed' = IF confirmed = "stage" THEN "no" ELSE confirmed
  /\ pressed' = [pressed EXCEPT !["arm"] = FALSE]
  /\ UNCHANGED <<keyboard, auto, Mb_Auto, Route_Num, RouteFinish, CircleFinish,
                 armtest_flag, Auto_flag, flag, aborted>>

(* Mutant of RouteOver: the arm does not wait for the route. *)
RouteNotAwaited ==
  /\ \/ ArmIn({"route", "earlyroute"})
     \/ ArmAt("circle") /\ ~CircleFinish
  /\ ArmNext
  /\ past' = TRUE
  /\ UNCHANGED <<armVars, Mb_Auto, Auto_flag, confirmed>>

(* The loops that wait for the end of the route, or of the camera circle. *)
RouteOver ==
  /\ \/ ArmIn({"route", "earlyroute"}) /\ ~RouteFinish
     \/ ArmAt("circle") /\ ~CircleFinish
  /\ ArmNext
  /\ past' = TRUE
  /\ UNCHANGED <<armVars, Mb_Auto, Auto_flag, confirmed>>

(* armaction2 and armaction6 see button 8 change before the end of the stage. *)
EarlyConfirm ==
  /\ ArmIn({"early", "earlyroute"}) /\ pressed["arm"]
  /\ Auto_flag' = FALSE
  /\ confirmed' = "stage"
  /\ pressed' = [pressed EXCEPT !["arm"] = FALSE]
  /\ UNCHANGED <<armVars, arm, Mb_Auto, past>>

(* HandFB, HandUD, Motor3 and the like run their motors to an end.  Motor3    *)
(* clears Auto_flag only if it is asked to watch the button, which no call    *)
(* does.                                                                      *)
Work ==
  /\ ArmIn({"work", "early"})
  /\ ArmNext
  /\ UNCHANGED <<armVars, Mb_Auto, Auto_flag, past, confirmed>>

Wait_Button8_Change ==
  /\ ArmIn({"button", "creep"}) /\ pressed["arm"]
  /\ ArmNext
  /\ UNCHANGED <<armVars, Mb_Auto, Auto_flag, past, confirmed>>

(* A GoLine loop, or a camera alignment, that the arm thread runs itself. *)
Drive ==
  /\ ArmAt("drive")
  /\ ArmNext
  /\ UNCHANGED <<armVars, Mb_Auto, Auto_flag, past, confirmed>>

(* Mutant of Pause: the arm goes on at once. *)
PauseShort ==
  /\ ArmAt("pause")
  /\ ArmNext
  /\ UNCHANGED <<armVars, Mb_Auto, Auto_flag, past, confirmed>>

(* Delay_ms(50) and longer outlast the 5 ms period of the loops that watch    *)
(* the button: the auto thread has seen a change by then.                     *)
Pause ==
  /\ ArmAt("pause")
  /\ ~(AutoAt("circle") /\ pressed["auto"])
  /\ ArmNext
  /\ UNCHANGED <<armVars, Mb_Auto, Auto_flag, past, confirmed>>

(* Mutant of Confirm: Auto_flag is not set again. *)
ConfirmKeepsFlag ==
  /\ ArmAt("confirm") /\ (Auto_flag => pressed["arm"])
  /\ ArmNext
  /\ confirmed' = "no"
  /\ UNCHANGED <<armVars, Mb_Auto, Auto_flag, past>>

(* if(Auto_flag) Wait_Button8_Change(); Auto_flag = 1; *)
Confirm ==
  /\ ArmAt("confirm") /\ (Auto_flag => pressed["arm"])
  /\ ArmNext
  /\ Auto_flag' = TRUE
  /\ confirmed' = "no"
  /\ UNCHANGED <<armVars, Mb_Auto, past>>

(* The end of a stage: except in ArmTest and after the last stage, the next   *)
(* one is mailed to the auto thread.                                          *)
ArmEnd ==
  /\ ArmAt("end")
  /\ arm' = Idle
  /\ Mb_Auto' = IF armtest_flag /\ arm.n < 7 THEN Append(Mb_Auto, arm.n + 1) ELSE Mb_Auto
  /\ past' = FALSE
  /\ UNCHANGED <<armVars, Auto_flag, pressed, confirmed>>

-----------------------------------------------------------------------------
(* The operator changes button 8. *)
Press ==
  /\ pressed' = [t \in {"auto", "arm"} |-> TRUE]
  /\ UNCHANGED <<keyboard, auto, arm, Mb_Auto, Mb_Arm, Route_Num, RouteFinish,
                 CircleFinish, armtest_flag, Auto_flag, flag, past, confirmed, aborted>>

(* Mutant of Emergency: the mails of the aborted match stay. *)
EmergencyKeepsMail ==
  /\ keyboard' = "menu"
  /\ auto' = Idle /\ arm' = Idle
  /\ past' = FALSE
  /\ armtest_flag' = TRUE
  /\ aborted' = TRUE
  /\ confirmed' = IF Auto_flag THEN "no" ELSE "stale"
  /\ UNCHANGED <<Mb_Auto, Mb_Arm, Route_Num, RouteFinish, CircleFinish, Auto_flag, flag, pressed>>

(* Key 6, at any time: the emergency thread, with interrupts off, empties the *)
(* mailboxes and starts the keyboard, auto and arm threads afresh.  Of the    *)
(* flags it resets armtest_flag only.  Key 6 is the only one that is mailed   *)
(* to it (stm32f4xx_it.c:260), so the test of the mail always holds.          *)
Emergency ==
  /\ keyboard' = "menu"
  /\ auto' = Idle /\ arm' = Idle
  /\ Mb_Auto' = << >> /\ Mb_Arm' = << >>
  /\ past' = FALSE
  /\ armtest_flag' = TRUE
  /\ aborted' = TRUE
  /\ confirmed' = IF Auto_flag THEN "no" ELSE "stale"
  /\ UNCHANGED <<Route_Num, RouteFinish, CircleFinish, Auto_flag, flag, pressed>>

AutoStep == AutoStart \/ AutoArrive \/ AutoCircled \/ CamCircle_Static

ArmStep ==
  \/ ArmStart \/ RouteOver \/ Work \/ Wait_Button8_Change
  \/ Drive \/ Pause \/ Confirm \/ ArmEnd

Menu == RouteTest \/ GoRoute \/ ArmTest

Next == Menu \/ AutoStep \/ ArmStep \/ EarlyConfirm \/ Press \/ Emergency

Spec == Init /\ [][Next]_vars

(* Both threads poll in loops that test their exit in every round, the base   *)
(* and the arm get where they are sent, and the operator goes on pressing.    *)
FairSpec == Spec /\ WF_vars(AutoStep) /\ WF_vars(ArmStep) /\ WF_vars(Press)

-----------------------------------------------------------------------------
(* The state is made of stages, points of their routines, and flags. *)
TypeOK ==
  /\ keyboard \in {"menu", "running", "armtest", "halted"}
  /\ auto = Idle \/ (auto.n \in Stages /\ auto.at \in 1 .. Len(Route(auto.n)))
  /\ arm = Idle \/ (arm.n \in Stages /\ arm.at \in 1 .. Len(armaction(arm.n)))
  /\ Mb_Auto \in Seq(Stages) /\ Mb_Arm \in Seq(Stages)
  /\ Route_Num \in Stages
  /\ {RouteFinish, CircleFinish, armtest_flag, Auto_flag, past, aborted} \subseteq BOOLEAN
  /\ confirmed \in {"no", "stage", "stale"}
  /\ flag \subseteq Flags
  /\ pressed \in [{"auto", "arm"} -> BOOLEAN]

(* The two threads are never in different stages, and at most one mail of the *)
(* match is under way: a mail left over by an emergency, or a stage started   *)
(* twice, would put them apart (t_auto.c, t_arm.c, t_emergency.c:38-41).  And *)
(* ArmTest moves the arm only: no route is started behind it (m_route.c:320,  *)
(* the armtest_flag tests of armaction.c).                                    *)
Lockstep ==
  /\ auto.n # 0 /\ arm.n # 0 => auto.n = arm.n
  /\ Len(Mb_Auto) + Len(Mb_Arm) <= 1
  /\ keyboard = "armtest" => auto.n = 0

(* The arm gets past its wait for the route only when the route of its stage  *)
(* is over, so that RouteTime[n] is the time the route took and the work the  *)
(* code places after the wait is not done on the move (armaction.c:225, 316,  *)
(* 425, 512, 627, 747, 971).  What armaction2 and armaction6 do during the    *)
(* wait or before it may be done on the way.                                  *)
PathOverBeforeWork == past => ~(AutoAt("path") \/ AutoAt("dyn"))

(* That holds, whatever the options, up to the first emergency; and after it  *)
(* if the circle driven by camera is switched off.                            *)
PathOverUnlessStale == PathOverBeforeWork \/ (aborted /\ On("Circle_dyn"))

(* The base has one driver: while the arm thread runs GoLine or a camera      *)
(* alignment, the auto thread is not writing Speed_X, Speed_Y.                *)
OneDriver == ~(AutoDrives /\ ArmDrives)

(* The confirmation at the end of stages 2 and 6 is skipped only when button  *)
(* 8 did change during the stage.  Auto_flag outlives an emergency: one that  *)
(* leaves it cleared spares one confirmation of a later match, and no more    *)
(* (armaction.c:382-402, 717-753, t_emergency.c:27-78).                       *)
SkipsOnlyIfConfirmed == ArmAt("confirm") /\ ~Auto_flag => confirmed # "no"

(* A match that is started runs through to the end of the last stage, unless  *)
(* an emergency brings the menu back.                                         *)
Completes ==
  keyboard = "running" ~>
    \/ keyboard = "menu"
    \/ Route_Num = 7 /\ auto.n = 0 /\ arm.n = 0 /\ Mb_Auto = << >> /\ Mb_Arm = << >>
=============================================================================
