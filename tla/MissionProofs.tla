---------------------------- MODULE MissionProofs ----------------------------
(* Proofs about Mission, for every set of options, any presses of button 8    *)
(* and emergencies at any moment.  Token says that the threads of a match     *)
(* stay in step; Match adds what the flags the threads leave each other mean  *)
(* at the points of their routines.                                           *)
EXTENDS Mission, TLAPS

(* Where the one mail of a match can be: on its way to the auto thread only   *)
(* when the arm is idle, on its way to the arm only when the auto thread has  *)
(* just sent it; in the menu, or with no stage started, everything is idle.   *)
Token ==
  /\ keyboard \in {"menu", "running", "armtest", "halted"}
  /\ keyboard \in {"menu", "halted"} => auto.n = 0 /\ arm.n = 0 /\ Mb_Auto = << >> /\ Mb_Arm = << >>
  /\ keyboard = "armtest" => ~armtest_flag
  /\ keyboard = "armtest" => auto.n = 0 /\ Mb_Auto = << >>
  /\ auto \in [n : 0 .. 7, at : Nat] /\ arm \in [n : 0 .. 7, at : Nat]
  /\ Mb_Auto \in {<< >>} \cup {<<n>> : n \in Stages}
  /\ Mb_Arm \in {<< >>} \cup {<<n>> : n \in Stages}
  /\ Mb_Auto # << >> => arm.n = 0 /\ Mb_Arm = << >>
  /\ Mb_Arm # << >> => arm.n = 0 /\ (auto.n # 0 => auto.n = Mb_Arm[1])
  /\ auto.n # 0 /\ arm.n # 0 => auto.n = arm.n

(* A mailbox that holds one mail. *)
LEMMA OneMail ==
  ASSUME NEW n \in Stages
  PROVE  /\ Append(<< >>, n) = <<n>>
         /\ Head(<<n>>) = n /\ Tail(<<n>>) = << >> /\ <<n>> # << >>
         /\ Len(<<n>>) = 1 /\ <<n>>[1] = n
BY DEF Stages

(* Before the first mail nothing is under way. *)
LEMMA TokenInit == Init => Token
BY DEF Init, Token, Idle

(* Every step of the menu, the threads, the operator and the emergency     *)
(* keeps Token.                                                            *)
LEMMA TokenStep == Token /\ [Next]_vars => Token'
<1> SUFFICES ASSUME Token, [Next]_vars PROVE Token'
  OBVIOUS
<1> USE DEF Stages
<1>1. CASE RouteTest
  <2>1. PICK n \in Stages : Mb_Auto' = Append(Mb_Auto, n)
    BY <1>1 DEF RouteTest
  <2>2. Mb_Auto' = <<n>>
    BY <1>1, <2>1, OneMail DEF RouteTest, Token
  <2> QED
    BY <1>1, <2>2, OneMail DEF RouteTest, Token
<1>2. CASE GoRoute
  <2>0. /\ auto.n = 0 /\ arm.n = 0 /\ Mb_Auto = << >> /\ Mb_Arm = << >>
        /\ UNCHANGED <<auto, arm, Mb_Arm, armtest_flag>>
    BY <1>2 DEF GoRoute, Token
  <2>1. CASE keyboard' = "running" /\ \E n \in Stages : Mb_Auto' = Append(Mb_Auto, n)
    <3>1. PICK n \in Stages : Mb_Auto' = Append(Mb_Auto, n)
      BY <2>1
    <3>2. Mb_Auto' = <<n>>
      BY <2>0, <3>1, OneMail
    <3> QED
      BY <2>0, <2>1, <3>2, OneMail DEF Token
  <2>2. CASE keyboard' \in {"menu", "halted"} /\ Mb_Auto' = Mb_Auto
    BY <2>0, <2>2 DEF Token
  <2> QED
    BY <1>2, <2>1, <2>2 DEF GoRoute
<1>3. CASE ArmTest
  <2>1. PICK n \in Stages : Mb_Arm' = Append(Mb_Arm, n)
    BY <1>3 DEF ArmTest
  <2>2. Mb_Arm' = <<n>>
    BY <1>3, <2>1, OneMail DEF ArmTest, Token
  <2> QED
    BY <1>3, <2>2, OneMail DEF ArmTest, Token
<1>4. CASE AutoStart
  <2>1. PICK n \in Stages : Mb_Auto = <<n>>
    BY <1>4 DEF AutoStart, Token
  <2>2. /\ arm.n = 0 /\ Mb_Arm = << >> /\ keyboard = "running"
        /\ auto' = [n |-> n, at |-> 1] /\ Mb_Auto' = << >> /\ Mb_Arm' = <<n>>
    BY <1>4, <2>1, OneMail DEF AutoStart, Token
  <2> QED
    BY <1>4, <2>2, OneMail DEF AutoStart, Token
<1>5. CASE AutoArrive \/ AutoCircled \/ CamCircle_Static
  <2>1. auto' \in [n : 0 .. 7, at : Nat] /\ (auto'.n = 0 \/ auto'.n = auto.n)
    BY <1>5 DEF AutoArrive, AutoCircled, CamCircle_Static, AutoNext, Token, Idle
  <2>2. UNCHANGED <<keyboard, arm, Mb_Auto, Mb_Arm, armtest_flag>> /\ auto.n # 0
    BY <1>5 DEF AutoArrive, AutoCircled, CamCircle_Static, AutoAt
  <2> QED
    BY <2>1, <2>2 DEF Token
<1>6. CASE ArmStart
  <2>1. PICK n \in Stages : Mb_Arm = <<n>>
    BY <1>6 DEF ArmStart, Token
  <2>2. /\ arm' = [n |-> n, at |-> 1] /\ Mb_Arm' = << >> /\ Mb_Auto = << >>
        /\ (auto.n # 0 => auto.n = n) /\ keyboard # "menu"
    BY <1>6, <2>1, OneMail DEF ArmStart, Token
  <2> QED
    BY <1>6, <2>2 DEF ArmStart, Token
<1>7. CASE RouteOver \/ EarlyConfirm \/ Work \/ Wait_Button8_Change \/ Drive \/ Pause \/ Confirm
  <2>1. arm' \in [n : 0 .. 7, at : Nat] /\ arm'.n = arm.n
    BY <1>7 DEF RouteOver, EarlyConfirm, Work, Wait_Button8_Change, Drive, Pause, Confirm,
                ArmNext, Token
  <2>2. UNCHANGED <<keyboard, auto, Mb_Auto, Mb_Arm, armtest_flag>>
    BY <1>7 DEF RouteOver, EarlyConfirm, Work, Wait_Button8_Change, Drive, Pause, Confirm,
                armVars
  <2> QED
    BY <2>1, <2>2 DEF Token
<1>8. CASE ArmEnd
  <2>1. /\ arm.n \in 1 .. 7 /\ Mb_Auto = << >> /\ Mb_Arm = << >> /\ keyboard # "menu"
        /\ arm' = Idle /\ UNCHANGED <<keyboard, auto, Mb_Arm, armtest_flag>>
    BY <1>8 DEF ArmEnd, ArmAt, armVars, Token
  <2>2. CASE armtest_flag /\ arm.n < 7
    <3>1. arm.n + 1 \in Stages /\ Mb_Auto' = <<arm.n + 1>>
      BY <1>8, <2>1, <2>2, OneMail DEF ArmEnd
    <3>2. PICK n \in Stages : Mb_Auto' = <<n>>
      BY <3>1
    <3>3. keyboard = "running"
      BY <2>1, <2>2 DEF Token
    <3> QED
      BY <2>1, <3>2, <3>3, OneMail DEF Token, Idle
  <2>3. CASE ~(armtest_flag /\ arm.n < 7)
    BY <1>8, <2>1, <2>3 DEF ArmEnd, Token, Idle
  <2> QED
    BY <2>2, <2>3
<1>9. CASE Press
  BY <1>9 DEF Press, Token
<1>10. CASE Emergency
  BY <1>10 DEF Emergency, Token, Idle
<1>11. CASE UNCHANGED vars
  BY <1>11 DEF vars, Token
<1> QED
  BY <1>1, <1>2, <1>3, <1>4, <1>5, <1>6, <1>7, <1>8, <1>9, <1>10, <1>11
     DEF Next, Menu, AutoStep, ArmStep

(* One token means one stage. *)
LEMMA TokenImplies == Token => Lockstep
<1> SUFFICES ASSUME Token PROVE Lockstep
  OBVIOUS
<1>1. Len(<< >>) = 0
  OBVIOUS
<1>2. \A n \in Stages : Len(<<n>>) = 1
  BY OneMail
<1>3. Len(Mb_Auto) \in {0, 1} /\ Len(Mb_Arm) \in {0, 1}
  BY <1>1, <1>2 DEF Token
<1>4. Mb_Auto # << >> => Len(Mb_Arm) = 0
  BY <1>1 DEF Token
<1>5. Mb_Auto = << >> => Len(Mb_Auto) = 0
  BY <1>1
<1>6. Len(Mb_Auto) + Len(Mb_Arm) <= 1
  <2>1. PICK i \in {0, 1}, j \in {0, 1} : i = Len(Mb_Auto) /\ j = Len(Mb_Arm)
    BY <1>3
  <2>2. i = 0 \/ j = 0
    BY <2>1, <1>4, <1>5
  <2>3. i + j <= 1
    BY <2>2
  <2> QED
    BY <2>1, <2>3
<1>7. auto.n # 0 /\ arm.n # 0 => auto.n = arm.n
  BY DEF Token
<1>8. keyboard = "armtest" => auto.n = 0
  BY DEF Token
<1> QED
  BY <1>6, <1>7, <1>8 DEF Lockstep

(* Whatever the options and whenever emergencies strike, the auto and the arm *)
(* thread work on the same stage, one mail at most is under way, and ArmTest  *)
(* starts no route.                                                           *)
THEOREM StaysInStep == Spec => []Lockstep
<1>1. Spec => []Token
  BY TokenInit, TokenStep, PTL DEF Spec
<1> QED
  BY <1>1, TokenImplies, PTL

-----------------------------------------------------------------------------
(* The points of the routines.                                                *)

(* Which routes there are: one path, possibly followed by the camera circle,  *)
(* or the circle driven by camera.                                            *)
LEMMA RouteForms ==
  ASSUME NEW n \in Stages
  PROVE  \/ Route(n) = <<"path">> /\ ~(n = 2 /\ On("Circle_dyn"))
         \/ /\ Route(n) = <<"path", "circle">> /\ n \in {2, 7}
            /\ n = 2 => ~On("Circle_dyn")
            /\ n = 7 => ~On("WalkGround")
         \/ Route(n) = <<"dyn">> /\ n = 2 /\ On("Circle_dyn")
<1>1. CASE n \in {1, 3, 4, 5, 6}
  BY <1>1 DEF Route, GoRoute1, GoRoute3, GoRoute4, GoRoute5, GoRoute6
<1>2. CASE n = 2
  BY <1>2 DEF Route, GoRoute2
<1>3. CASE n = 7
  BY <1>3 DEF Route, GoRoute7
<1> QED
  BY <1>1, <1>2, <1>3 DEF Stages

(* Where in a route each kind of leg is. *)
LEMMA RoutePoints ==
  ASSUME NEW n \in Stages
  PROVE  /\ Len(Route(n)) \in {1, 2}
         /\ \A i \in 1 .. Len(Route(n)) :
              /\ Route(n)[i] = "path" => i = 1 /\ ~(n = 2 /\ On("Circle_dyn"))
              /\ Route(n)[i] = "dyn" => i = 1 /\ n = 2 /\ On("Circle_dyn") /\ Len(Route(n)) = 1
              /\ Route(n)[i] = "circle" => /\ i = 2 /\ n \in {2, 7}
                                           /\ n = 7 => ~On("WalkGround")
<1>1. CASE Route(n) = <<"path">> /\ ~(n = 2 /\ On("Circle_dyn"))
  <2>1. Len(Route(n)) = 1 /\ Route(n)[1] = "path"
    BY <1>1
  <2>2. \A i \in 1 .. Len(Route(n)) : i = 1
    BY <2>1
  <2> QED
    BY <1>1, <2>1, <2>2
<1>2. CASE /\ Route(n) = <<"path", "circle">> /\ n \in {2, 7}
           /\ n = 2 => ~On("Circle_dyn")
           /\ n = 7 => ~On("WalkGround")
  <2>1. Len(Route(n)) = 2 /\ Route(n)[1] = "path" /\ Route(n)[2] = "circle"
    BY <1>2
  <2>2. \A i \in 1 .. Len(Route(n)) : i = 1 \/ i = 2
    BY <2>1
  <2> QED
    BY <1>2, <2>1, <2>2
<1>3. CASE Route(n) = <<"dyn">> /\ n = 2 /\ On("Circle_dyn")
  <2>1. Len(Route(n)) = 1 /\ Route(n)[1] = "dyn"
    BY <1>3
  <2>2. \A i \in 1 .. Len(Route(n)) : i = 1
    BY <2>1
  <2> QED
    BY <1>3, <2>1, <2>2
<1> QED
  BY <1>1, <1>2, <1>3, RouteForms

(* Where the arm waits for the base, and where it waits for the confirmation  *)
(* of stages 2 and 6.                                                         *)
Awaits(n) == IF n = 6 /\ armtest_flag THEN 2 ELSE 1
Sure(n) ==
  IF n = 2 THEN (IF On("WalkGround") THEN 5 ELSE 4)
  ELSE 2 + (IF armtest_flag THEN 1 ELSE 0) + (IF On("WalkGround") THEN 1 ELSE 0)

(* The points of most of the work after that wait. *)
Rest == {"work", "button", "pause", "drive", "creep", "end"}
Point == Rest \cup {"route", "circle", "early", "earlyroute", "confirm"}

(* s is a routine whose points from w + 1 on are in R. *)
Routine(s, w, R) ==
  /\ s \in Seq(Point) /\ Len(s) >= w
  /\ \A i \in 1 .. Len(s) : i > w => s[i] \in R

(* A routine that is continued with points of R. *)
LEMMA Continued ==
  ASSUME NEW s, NEW w \in Nat, NEW R, R \subseteq Point, Routine(s, w, R), NEW t \in Seq(R)
  PROVE  /\ Routine(s \o t, w, R)
         /\ Len(s \o t) = Len(s) + Len(t)
         /\ \A i \in 1 .. Len(s) : (s \o t)[i] = s[i]
         /\ t # << >> => (s \o t)[Len(s \o t)] = t[Len(t)]
<1>1. s \in Seq(Point) /\ t \in Seq(Point) /\ Len(s) \in Nat /\ Len(t) \in Nat /\ Len(s) >= w
  BY DEF Routine
<1>2. /\ s \o t \in Seq(Point) /\ Len(s \o t) = Len(s) + Len(t)
      /\ \A i \in 1 .. Len(s) + Len(t) : (s \o t)[i] = IF i <= Len(s) THEN s[i] ELSE t[i - Len(s)]
  BY <1>1
<1>3. ASSUME NEW i \in 1 .. Len(s \o t), i > w PROVE (s \o t)[i] \in R
  <2>1. CASE i <= Len(s)
    BY <1>1, <1>2, <1>3, <2>1 DEF Routine
  <2>2. CASE i > Len(s)
    <3>1. i - Len(s) \in 1 .. Len(t) /\ (s \o t)[i] = t[i - Len(s)]
      BY <1>1, <1>2, <2>2
    <3> QED
      BY <3>1
  <2> QED
    BY <1>1, <1>2, <2>1, <2>2
<1>4. t # << >> => (s \o t)[Len(s \o t)] = t[Len(t)]
  <2> SUFFICES ASSUME t # << >> PROVE (s \o t)[Len(s \o t)] = t[Len(t)]
    OBVIOUS
  <2>1. Len(t) > 0
    BY <1>1
  <2> QED
    BY <1>1, <1>2, <2>1
<1>5. \A i \in 1 .. Len(s) : (s \o t)[i] = s[i]
  BY <1>1, <1>2
<1> QED
  BY <1>1, <1>2, <1>3, <1>4, <1>5 DEF Routine

(* The same, as it is used: the beginning of the routine stays. *)
LEMMA Extended ==
  ASSUME NEW s, NEW w \in Nat, NEW R, R \subseteq Point, Routine(s, w, R), NEW t \in Seq(R), w >= 1
  PROVE  Routine(s \o t, w, R) /\ \A i \in 1 .. w : (s \o t)[i] = s[i]
<1>1. \A i \in 1 .. w : i \in 1 .. Len(s)
  BY DEF Routine
<1> QED
  BY <1>1, Continued

(* The end of a routine. *)
LEMMA Ended ==
  ASSUME NEW s, NEW w \in Nat, NEW R, R \subseteq Point, Routine(s, w, R), NEW t \in Seq(R), w >= 1,
         t # << >>, t[Len(t)] = "end"
  PROVE  /\ Routine(s \o t, w, R) /\ \A i \in 1 .. w : (s \o t)[i] = s[i]
         /\ (s \o t)[Len(s \o t)] = "end" /\ Len(s \o t) > w
<1>1. Len(s \o t) = Len(s) + Len(t) /\ (s \o t)[Len(s \o t)] = "end"
  BY Continued
<1>2. Len(s) \in Nat /\ Len(t) \in Nat /\ Len(t) # 0 /\ Len(s) >= w
  BY DEF Routine
<1> QED
  BY <1>1, <1>2, Extended

(* A routine that begins with the wait for the route. *)
LEMMA Goes ==
  ASSUME NEW s, NEW R, R \subseteq Point, Routine(s, 1, R), NEW t, t \in Seq(R), NEW f, s[1] = f
  PROVE  Routine(s \o t, 1, R) /\ (s \o t)[1] = f
<1>1. 1 \in Nat /\ 1 >= 1 /\ 1 \in 1 .. 1
  OBVIOUS
<1>2. Routine(s \o t, 1, R) /\ \A i \in 1 .. Len(s) : (s \o t)[i] = s[i]
  BY <1>1, Continued
<1>3. 1 \in 1 .. Len(s)
  BY DEF Routine
<1> QED
  BY <1>2, <1>3

(* Such a routine with its end. *)
LEMMA GoesToEnd ==
  ASSUME NEW s, NEW R, R \subseteq Point, Routine(s, 1, R), NEW t, t \in Seq(R), NEW f, s[1] = f,
         t # << >>, t[Len(t)] = "end"
  PROVE  /\ Routine(s \o t, 1, R) /\ (s \o t)[1] = f
         /\ (s \o t)[Len(s \o t)] = "end" /\ Len(s \o t) > 1
<1>1. 1 \in Nat /\ 1 >= 1 /\ 1 \in 1 .. 1
  OBVIOUS
<1> QED
  BY <1>1, Ended

(* A choice of points, whichever way it goes. *)
LEMMA Chosen ==
  ASSUME NEW R, NEW s \in Seq(R), NEW t \in Seq(R), NEW b
  PROVE  (IF b THEN s ELSE t) \in Seq(R)
<1>1. CASE b
  BY <1>1
<1>2. CASE ~b
  BY <1>2
<1> QED
  BY <1>1, <1>2

(* Three pieces of a routine. *)
LEMMA Joined ==
  ASSUME NEW R, NEW s \in Seq(R), NEW t \in Seq(R), NEW u \in Seq(R)
  PROVE  s \o t \o u \in Seq(R)
OBVIOUS

(* An optional piece of a routine. *)
LEMMA Optional ==
  ASSUME NEW R, NEW s \in Seq(R), NEW o
  PROVE  Opt(o, s) \in Seq(R)
BY Chosen DEF Opt

(* The work of each stage, from its definition: a wait for the route, then     *)
(* points of Rest, the last of which is the end.                              *)
LEMMA Arm1 ==
  /\ Routine(armaction1, 1, Rest \ {"drive", "creep"}) /\ armaction1[1] = "route"
  /\ armaction1[Len(armaction1)] = "end" /\ Len(armaction1) > 1
<1> DEFINE R == Rest \ {"drive", "creep"}
           s0 == <<"route", "work", "button", "work">>
           t1 == Opt("debug", <<"button">>)
           s1 == s0 \o t1
           e == <<"end">>
<1>0. R \subseteq Point /\ e \in Seq(R) /\ e # << >> /\ e[Len(e)] = "end"
  BY DEF Rest, Point
<1>1. Routine(s0, 1, R) /\ s0[1] = "route"
  BY DEF Routine, Rest, Point
<1>2. t1 \in Seq(R)
  <2>1. <<"button">> \in Seq(R)
    BY DEF Rest
  <2> QED
    BY <2>1, Optional, Zenon
<1>3. armaction1 = s1 \o e
  BY DEF armaction1
<1> HIDE DEF R, e, s0, s1, t1
<1>4. Routine(s1, 1, R) /\ s1[1] = "route"
  BY <1>0, <1>1, <1>2, Goes, Zenon DEF s1
<1> QED
  BY <1>0, <1>4, <1>3, GoesToEnd DEF R

(* Stage 3: the wait, then the hand-over or a button. *)
LEMMA Arm3 ==
  /\ Routine(armaction3, 1, Rest) /\ armaction3[1] = "route"
  /\ armaction3[Len(armaction3)] = "end" /\ Len(armaction3) > 1
<1> DEFINE R == Rest
           s0 == <<"route">>
           t1 == Opt("WalkGround", <<"work">>)
           s1 == s0 \o t1
           t2 == IF On("Handover_ss") THEN <<"work", "drive">> ELSE <<"button">>
           s2 == s1 \o t2
           t3 == <<"work", "pause">>
           s3 == s2 \o t3
           t4 == Opt("debug", <<"button">>)
           s4 == s3 \o t4
           e == <<"end">>
<1>0. R \subseteq Point /\ e \in Seq(R) /\ e # << >> /\ e[Len(e)] = "end"
  BY DEF Rest, Point
<1>1. Routine(s0, 1, R) /\ s0[1] = "route"
  BY DEF Routine, Rest, Point
<1>2. t1 \in Seq(R)
  <2>1. <<"work">> \in Seq(R)
    BY DEF Rest
  <2> QED
    BY <2>1, Optional, Zenon
<1>3. t2 \in Seq(R)
  <2>1. <<"work", "drive">> \in Seq(R) /\ <<"button">> \in Seq(R)
    BY DEF Rest
  <2> QED
    BY <2>1, Chosen
<1>4. t3 \in Seq(R)
  BY DEF Rest
<1>5. t4 \in Seq(R)
  <2>1. <<"button">> \in Seq(R)
    BY DEF Rest
  <2> QED
    BY <2>1, Optional, Zenon
<1>6. armaction3 = s4 \o e
  BY DEF armaction3
<1> HIDE DEF R, e, s0, s1, s2, s3, s4, t1, t2, t3, t4
<1>7. Routine(s1, 1, R) /\ s1[1] = "route"
  BY <1>0, <1>1, <1>2, Goes, Zenon DEF s1
<1>8. Routine(s2, 1, R) /\ s2[1] = "route"
  BY <1>0, <1>7, <1>3, Goes, Zenon DEF s2
<1>9. Routine(s3, 1, R) /\ s3[1] = "route"
  BY <1>0, <1>8, <1>4, Goes, Zenon DEF s3
<1>10. Routine(s4, 1, R) /\ s4[1] = "route"
  BY <1>0, <1>9, <1>5, Goes, Zenon DEF s4
<1> QED
  BY <1>0, <1>10, <1>6, GoesToEnd DEF R

(* Stage 4: the wait, then the pole, the laser or nothing. *)
LEMMA Arm4 ==
  /\ Routine(armaction4, 1, Rest) /\ armaction4[1] = "route"
  /\ armaction4[Len(armaction4)] = "end" /\ Len(armaction4) > 1
<1> DEFINE R == Rest
           s0 == <<"route">>
           t1 == Opt("WalkGround", <<"work">>)
           s1 == s0 \o t1
           t2 == Opt("debug", <<"button">>)
           s2 == s1 \o t2
           t3 == <<"work">>
           s3 == s2 \o t3
           t4 == IF On("Pole") THEN <<"button", "drive">> ELSE Opt("Laser_PW", <<"button", "creep">>)
           s4 == s3 \o t4
           e == <<"button", "pause", "end">>
<1>0. R \subseteq Point /\ e \in Seq(R) /\ e # << >> /\ e[Len(e)] = "end"
  BY DEF Rest, Point
<1>1. Routine(s0, 1, R) /\ s0[1] = "route"
  BY DEF Routine, Rest, Point
<1>2. t1 \in Seq(R)
  <2>1. <<"work">> \in Seq(R)
    BY DEF Rest
  <2> QED
    BY <2>1, Optional, Zenon
<1>3. t2 \in Seq(R)
  <2>1. <<"button">> \in Seq(R)
    BY DEF Rest
  <2> QED
    BY <2>1, Optional, Zenon
<1>4. t3 \in Seq(R)
  BY DEF Rest
<1>5. t4 \in Seq(R)
  <2> DEFINE d == <<"button", "drive">>
             c == <<"button", "creep">>
  <2>1. d \in Seq(R) /\ c \in Seq(R)
    BY DEF Rest
  <2> HIDE DEF d, c, R
  <2>2. Opt("Laser_PW", c) \in Seq(R)
    BY <2>1, Optional
  <2>3. (IF On("Pole") THEN d ELSE Opt("Laser_PW", c)) \in Seq(R)
    BY <2>1, <2>2, Chosen
  <2> QED
    BY <2>3 DEF d, c
<1>6. armaction4 = s4 \o e
  BY DEF armaction4
<1> HIDE DEF R, e, s0, s1, s2, s3, s4, t1, t2, t3, t4
<1>7. Routine(s1, 1, R) /\ s1[1] = "route"
  BY <1>0, <1>1, <1>2, Goes, Zenon DEF s1
<1>8. Routine(s2, 1, R) /\ s2[1] = "route"
  BY <1>0, <1>7, <1>3, Goes, Zenon DEF s2
<1>9. Routine(s3, 1, R) /\ s3[1] = "route"
  BY <1>0, <1>8, <1>4, Goes, Zenon DEF s3
<1>10. Routine(s4, 1, R) /\ s4[1] = "route"
  BY <1>0, <1>9, <1>5, Goes, Zenon DEF s4
<1> QED
  BY <1>0, <1>10, <1>6, GoesToEnd DEF R

(* Stage 5: the wait, then the hand-over or a button. *)
LEMMA Arm5 ==
  /\ Routine(armaction5, 1, Rest) /\ armaction5[1] = "route"
  /\ armaction5[Len(armaction5)] = "end" /\ Len(armaction5) > 1
<1> DEFINE R == Rest
           s0 == <<"route">>
           t1 == Opt("WalkGround", <<"work">>)
           s1 == s0 \o t1
           t2 == <<"button">>
           s2 == s1 \o t2
           t3 == IF On("Handover_pw") THEN <<"work", "drive">> ELSE <<"button">>
           s3 == s2 \o t3
           t4 == <<"work", "pause">>
           s4 == s3 \o t4
           t5 == Opt("debug", <<"button">>)
           s5 == s4 \o t5
           e == <<"end">>
<1>0. R \subseteq Point /\ e \in Seq(R) /\ e # << >> /\ e[Len(e)] = "end"
  BY DEF Rest, Point
<1>1. Routine(s0, 1, R) /\ s0[1] = "route"
  BY DEF Routine, Rest, Point
<1>2. t1 \in Seq(R)
  <2>1. <<"work">> \in Seq(R)
    BY DEF Rest
  <2> QED
    BY <2>1, Optional, Zenon
<1>3. t2 \in Seq(R)
  BY DEF Rest
<1>4. t3 \in Seq(R)
  <2>1. <<"work", "drive">> \in Seq(R) /\ <<"button">> \in Seq(R)
    BY DEF Rest
  <2> QED
    BY <2>1, Chosen
<1>5. t4 \in Seq(R)
  BY DEF Rest
<1>6. t5 \in Seq(R)
  <2>1. <<"button">> \in Seq(R)
    BY DEF Rest
  <2> QED
    BY <2>1, Optional, Zenon
<1>7. armaction5 = s5 \o e
  BY DEF armaction5
<1> HIDE DEF R, e, s0, s1, s2, s3, s4, s5, t1, t2, t3, t4, t5
<1>8. Routine(s1, 1, R) /\ s1[1] = "route"
  BY <1>0, <1>1, <1>2, Goes, Zenon DEF s1
<1>9. Routine(s2, 1, R) /\ s2[1] = "route"
  BY <1>0, <1>8, <1>3, Goes, Zenon DEF s2
<1>10. Routine(s3, 1, R) /\ s3[1] = "route"
  BY <1>0, <1>9, <1>4, Goes, Zenon DEF s3
<1>11. Routine(s4, 1, R) /\ s4[1] = "route"
  BY <1>0, <1>10, <1>5, Goes, Zenon DEF s4
<1>12. Routine(s5, 1, R) /\ s5[1] = "route"
  BY <1>0, <1>11, <1>6, Goes, Zenon DEF s5
<1> QED
  BY <1>0, <1>12, <1>7, GoesToEnd DEF R

(* Stage 7: the wait, then the work of the last stage. *)
LEMMA Arm7 ==
  /\ Routine(armaction7, 1, Rest) /\ armaction7[1] = "route"
  /\ armaction7[Len(armaction7)] = "end" /\ Len(armaction7) > 1
<1> DEFINE R == Rest
           s0 == <<"route">>
           t1 == Opt("WalkGround", <<"work">> \o Opt("Circle_jg", <<"button", "drive">>) \o <<"work">>)
           s1 == s0 \o t1
           e == <<"work", "button", "pause", "drive", "button", "end">>
<1>0. R \subseteq Point /\ e \in Seq(R) /\ e # << >> /\ e[Len(e)] = "end"
  BY DEF Rest, Point
<1>1. Routine(s0, 1, R) /\ s0[1] = "route"
  BY DEF Routine, Rest, Point
<1>2. t1 \in Seq(R)
  <2> DEFINE w == <<"work">>
             b == <<"button", "drive">>
  <2>1. w \in Seq(R) /\ b \in Seq(R)
    BY DEF Rest
  <2> HIDE DEF w, b, R
  <2>2. Opt("Circle_jg", b) \in Seq(R)
    BY <2>1, Optional
  <2>3. w \o Opt("Circle_jg", b) \o w \in Seq(R)
    BY <2>1, <2>2, Joined
  <2>4. Opt("WalkGround", w \o Opt("Circle_jg", b) \o w) \in Seq(R)
    BY <2>3, Optional, Zenon
  <2> QED
    BY <2>4 DEF w, b
<1>3. armaction7 = s1 \o e
  BY DEF armaction7
<1> HIDE DEF R, e, s0, s1, t1
<1>4. Routine(s1, 1, R) /\ s1[1] = "route"
  BY <1>0, <1>1, <1>2, Goes, Zenon DEF s1
<1> QED
  BY <1>0, <1>4, <1>3, GoesToEnd DEF R

(* Stage 2: the wait, one or two points, the watch for an early confirmation, *)
(* the confirmation and the end.                                              *)
LEMMA Arm2 ==
  /\ Len(armaction2) = Sure(2) + 1
  /\ armaction2[1] = IF On("Circle_dyn") THEN "circle" ELSE "route"
  /\ armaction2[Sure(2) - 1] = "early" /\ armaction2[Sure(2)] = "confirm" /\ armaction2[Sure(2) + 1] = "end"
  /\ \A i \in 2 .. Sure(2) - 2 : armaction2[i] \in {"work", "button"}
<1>1. CASE On("Circle_dyn") /\ On("WalkGround")
  <2>1. armaction2 = <<"circle">> \o <<"work">> \o <<"button", "early", "confirm", "end">>
    BY <1>1 DEF armaction2, Opt
  <2>2. /\ Len(armaction2) = 6 /\ armaction2[1] = "circle" /\ armaction2[2] = "work" /\ armaction2[3] = "button"
        /\ armaction2[4] = "early" /\ armaction2[5] = "confirm" /\ armaction2[6] = "end"
    BY <2>1
  <2>3. Sure(2) = 5 /\ \A i \in 2 .. Sure(2) - 2 : i \in {2, 3}
    BY <1>1 DEF Sure
  <2> QED
    BY <1>1, <2>2, <2>3
<1>2. CASE On("Circle_dyn") /\ ~On("WalkGround")
  <2>1. armaction2 = <<"circle">> \o << >> \o <<"button", "early", "confirm", "end">>
    BY <1>2 DEF armaction2, Opt
  <2>2. /\ Len(armaction2) = 5 /\ armaction2[1] = "circle" /\ armaction2[2] = "button" /\ armaction2[3] = "early"
        /\ armaction2[4] = "confirm" /\ armaction2[5] = "end"
    BY <2>1
  <2>3. Sure(2) = 4 /\ \A i \in 2 .. Sure(2) - 2 : i \in {2}
    BY <1>2 DEF Sure
  <2> QED
    BY <1>2, <2>2, <2>3
<1>3. CASE ~On("Circle_dyn") /\ On("WalkGround")
  <2>1. armaction2 = <<"route">> \o <<"work">> \o <<"button", "early", "confirm", "end">>
    BY <1>3 DEF armaction2, Opt
  <2>2. /\ Len(armaction2) = 6 /\ armaction2[1] = "route" /\ armaction2[2] = "work" /\ armaction2[3] = "button"
        /\ armaction2[4] = "early" /\ armaction2[5] = "confirm" /\ armaction2[6] = "end"
    BY <2>1
  <2>3. Sure(2) = 5 /\ \A i \in 2 .. Sure(2) - 2 : i \in {2, 3}
    BY <1>3 DEF Sure
  <2> QED
    BY <1>3, <2>2, <2>3
<1>4. CASE ~On("Circle_dyn") /\ ~On("WalkGround")
  <2>1. armaction2 = <<"route">> \o << >> \o <<"button", "early", "confirm", "end">>
    BY <1>4 DEF armaction2, Opt
  <2>2. /\ Len(armaction2) = 5 /\ armaction2[1] = "route" /\ armaction2[2] = "button" /\ armaction2[3] = "early"
        /\ armaction2[4] = "confirm" /\ armaction2[5] = "end"
    BY <2>1
  <2>3. Sure(2) = 4 /\ \A i \in 2 .. Sure(2) - 2 : i \in {2}
    BY <1>4 DEF Sure
  <2> QED
    BY <1>4, <2>2, <2>3
<1> QED
  BY <1>1, <1>2, <1>3, <1>4

(* Stage 6 up to the confirmation. *)
Begin6 ==
  IF armtest_flag
  THEN IF On("WalkGround") THEN <<"work", "earlyroute", "work", "confirm">>
       ELSE <<"work", "earlyroute", "confirm">>
  ELSE IF On("WalkGround") THEN <<"earlyroute", "work", "confirm">>
       ELSE <<"earlyroute", "confirm">>

(* The beginning of the work of stage 6. *)
LEMMA Begin6Is ==
  Begin6 = (IF armtest_flag THEN <<"work">> ELSE << >>)
             \o <<"earlyroute">> \o Opt("WalkGround", <<"work">>) \o <<"confirm">>
<1>1. CASE armtest_flag /\ On("WalkGround")
  BY <1>1 DEF Begin6, Opt
<1>2. CASE armtest_flag /\ ~On("WalkGround")
  BY <1>2 DEF Begin6, Opt
<1>3. CASE ~armtest_flag /\ On("WalkGround")
  BY <1>3 DEF Begin6, Opt
<1>4. CASE ~armtest_flag /\ ~On("WalkGround")
  BY <1>4 DEF Begin6, Opt
<1> QED
  BY <1>1, <1>2, <1>3, <1>4

(* Stage 6 goes on after its confirmation with points of Rest, up to the   *)
(* end.                                                                    *)
LEMMA Arm6 ==
  /\ Routine(armaction6, Sure(6), Rest) /\ \A i \in 1 .. Sure(6) : armaction6[i] = Begin6[i]
  /\ armaction6[Len(armaction6)] = "end" /\ Len(armaction6) > Sure(6)
<1> DEFINE t1 == IF On("Swing") THEN <<"drive">> ELSE <<"work">>
           t2 == <<"pause", "work", "button", "work">>
           t3 == Opt("debug", <<"button">>)
           e == <<"button", "pause", "drive", "pause", "button", "drive", "pause", "button",
                  "work", "pause", "button", "end">>
           s1 == Begin6 \o t1
           s2 == s1 \o t2
           s3 == s2 \o t3
           w == Sure(6)
<1>0. Rest \subseteq Point /\ w \in Nat /\ w >= 1 /\ w = Len(Begin6)
  BY DEF Rest, Point, Sure, Begin6
<1>1. Routine(Begin6, w, Rest)
  <2>1. /\ <<"work", "earlyroute", "work", "confirm">> \in Seq(Point)
        /\ <<"work", "earlyroute", "confirm">> \in Seq(Point)
        /\ <<"earlyroute", "work", "confirm">> \in Seq(Point)
        /\ <<"earlyroute", "confirm">> \in Seq(Point)
    BY DEF Point, Rest
  <2>2. Begin6 \in Seq(Point)
    BY <2>1, Chosen DEF Begin6
  <2> QED
    BY <1>0, <2>2 DEF Routine
<1>2. t1 \in Seq(Rest)
  <2>1. <<"drive">> \in Seq(Rest) /\ <<"work">> \in Seq(Rest)
    BY DEF Rest
  <2> QED
    BY <2>1, Chosen
<1>3. t2 \in Seq(Rest)
  BY DEF Rest
<1>4. t3 \in Seq(Rest)
  <2>1. <<"button">> \in Seq(Rest)
    BY DEF Rest
  <2> QED
    BY <2>1, Optional, Zenon
<1>5. e \in Seq(Rest) /\ e # << >> /\ e[Len(e)] = "end"
  BY DEF Rest
<1>6. armaction6 = s3 \o e
  BY Begin6Is DEF armaction6
<1> HIDE DEF t1, t2, t3, e, s1, s2, s3, w
<1>7. Routine(s1, w, Rest) /\ \A i \in 1 .. w : s1[i] = Begin6[i]
  BY <1>0, <1>1, <1>2, Extended DEF s1
<1>8. Routine(s2, w, Rest) /\ \A i \in 1 .. w : s2[i] = s1[i]
  BY <1>0, <1>3, <1>7, Extended, Zenon DEF s2
<1>9. Routine(s3, w, Rest) /\ \A i \in 1 .. w : s3[i] = s2[i]
  BY <1>0, <1>4, <1>8, Extended, Zenon DEF s3
<1>10. /\ Routine(s3 \o e, w, Rest) /\ \A i \in 1 .. w : (s3 \o e)[i] = s3[i]
       /\ (s3 \o e)[Len(s3 \o e)] = "end" /\ Len(s3 \o e) > w
  BY <1>0, <1>5, <1>9, Ended
<1>11. \A i \in 1 .. w : (s3 \o e)[i] = Begin6[i]
  BY <1>7, <1>8, <1>9, <1>10, Zenon
<1> QED
  BY <1>6, <1>10, <1>11, Zenon DEF w

(* Stage 7 when the base ends its route with the camera circle. *)
LEMMA Arm7Circle ==
  ASSUME ~On("WalkGround")
  PROVE  armaction7[2] = "work" /\ armaction7[3] = "button" /\ armaction7[4] = "pause"
<1>1. armaction7 = <<"route">> \o << >> \o <<"work", "button", "pause", "drive", "button", "end">>
  BY DEF armaction7, Opt
<1> QED
  BY <1>1

(* What the invariants need to know of the work a of stage n: there is one    *)
(* point where the arm waits for the base, nothing but work before it, and no *)
(* driving of the base except after it in stages 3 to 7; an early             *)
(* confirmation comes before the point it spares; the routine stops at its    *)
(* last point.                                                                *)
Points(a, n) ==
  /\ Len(a) \in Nat /\ Len(a) > Awaits(n) /\ a[Len(a)] = "end"
  /\ n \in {2, 6} => Len(a) > Sure(n)
  /\ \A i \in 1 .. Len(a) :
       /\ i < Awaits(n) => a[i] = "work"
       /\ i = Awaits(n) => a[i] = IF n = 2 /\ On("Circle_dyn") THEN "circle"
                                  ELSE IF n = 6 THEN "earlyroute" ELSE "route"
       /\ i > Awaits(n) => a[i] \notin {"route", "circle", "earlyroute"}
       /\ a[i] \in {"drive", "creep"} => n \notin {1, 2}
       /\ a[i] \in {"early", "earlyroute"} => n \in {2, 6} /\ i < Sure(n)
       /\ n \in {2, 6} /\ i = Sure(n) => a[i] = "confirm"
       /\ n \in {2, 6} /\ i <= Sure(n) => a[i] # "end"

(* The stages that begin with the wait for the route and have no early     *)
(* confirmation.                                                           *)
LEMMA Points1 ==
  ASSUME NEW n \in {1, 3, 4, 5, 7}, NEW a, NEW R \in {Rest, Rest \ {"drive", "creep"}},
         n = 1 => R = Rest \ {"drive", "creep"},
         Routine(a, 1, R), a[1] = "route", a[Len(a)] = "end", Len(a) > 1
  PROVE  Points(a, n)
<1>1. Awaits(n) = 1 /\ n \notin {2, 6} /\ Len(a) \in Nat
  BY DEF Awaits, Routine
<1>2. ASSUME NEW i \in 1 .. Len(a)
      PROVE  /\ i = 1 => a[i] = "route"
             /\ i > 1 => a[i] \in Rest
             /\ i > 1 /\ n = 1 => a[i] \notin {"drive", "creep"}
  BY DEF Routine
<1>3. ASSUME NEW i \in 1 .. Len(a)
      PROVE  /\ i > 1 => a[i] \notin {"route", "circle", "earlyroute"}
             /\ a[i] \in {"drive", "creep"} => n \notin {1, 2}
             /\ a[i] \notin {"early", "earlyroute"}
             /\ ~(i < 1)
  <2>1. CASE i = 1
    BY <1>2, <2>1
  <2>2. CASE i > 1
    BY <1>1, <1>2, <2>2 DEF Rest
  <2> QED
    BY <1>1, <2>1, <2>2
<1> QED
  BY <1>1, <1>2, <1>3 DEF Points

(* Stage 2, whose wait is for the camera circle or for the route. *)
LEMMA Points2 == Points(armaction2, 2)
<1> DEFINE a == armaction2
           w == Sure(2)
<1>1. Awaits(2) = 1 /\ w \in {4, 5}
  BY DEF Awaits, Sure
<1>2. /\ Len(a) = w + 1 /\ a[1] = IF On("Circle_dyn") THEN "circle" ELSE "route"
      /\ a[w - 1] = "early" /\ a[w] = "confirm" /\ a[w + 1] = "end"
      /\ \A i \in 2 .. w - 2 : a[i] \in {"work", "button"}
  BY Arm2
<1> HIDE DEF a, w
<1>3. ASSUME NEW i \in 1 .. Len(a)
      PROVE  /\ i = 1 => a[i] = IF On("Circle_dyn") THEN "circle" ELSE "route"
             /\ i > 1 => a[i] \notin {"route", "circle", "earlyroute"}
             /\ a[i] \notin {"drive", "creep"}
             /\ a[i] \in {"early", "earlyroute"} => i < w
             /\ i = w => a[i] = "confirm"
             /\ i <= w => a[i] # "end"
  <2>0. i \in 2 .. w - 2 \/ i = 1 \/ i = w - 1 \/ i = w \/ i = w + 1
    BY <1>1, <1>2
  <2>1. CASE i = 1
    BY <1>1, <1>2, <2>1
  <2>2. CASE i \in 2 .. w - 2
    BY <1>1, <1>2, <2>2
  <2>3. CASE i = w - 1
    BY <1>1, <1>2, <2>3
  <2>4. CASE i = w
    BY <1>1, <1>2, <2>4
  <2>5. CASE i = w + 1
    BY <1>1, <1>2, <2>5
  <2> QED
    BY <2>0, <2>1, <2>2, <2>3, <2>4, <2>5
<1>4. \A i \in 1 .. Len(a) : ~(i < 1)
  BY <1>1, <1>2
<1>5. Len(a) \in Nat /\ Len(a) > 1 /\ Len(a) > w /\ a[Len(a)] = "end"
  BY <1>1, <1>2
<1> QED
  BY <1>1, <1>3, <1>4, <1>5 DEF Points, a, w

(* Stage 6, which is watched for an early confirmation during the route. *)
LEMMA Points6 == Points(armaction6, 6)
<1> DEFINE a == armaction6
           w == Sure(6)
           v == Awaits(6)
<1>1. /\ w \in {2, 3, 4} /\ v \in {1, 2} /\ v < w
      /\ \A i \in 1 .. w :
           /\ i < v => Begin6[i] = "work"
           /\ i = v => Begin6[i] = "earlyroute"
           /\ i > v /\ i < w => Begin6[i] = "work"
           /\ i = w => Begin6[i] = "confirm"
  <2>1. CASE armtest_flag /\ On("WalkGround")
    BY <2>1 DEF Awaits, Sure, Begin6
  <2>2. CASE armtest_flag /\ ~On("WalkGround")
    BY <2>2 DEF Awaits, Sure, Begin6
  <2>3. CASE ~armtest_flag /\ On("WalkGround")
    BY <2>3 DEF Awaits, Sure, Begin6
  <2>4. CASE ~armtest_flag /\ ~On("WalkGround")
    BY <2>4 DEF Awaits, Sure, Begin6
  <2> QED
    BY <2>1, <2>2, <2>3, <2>4
<1>2. /\ Routine(a, w, Rest) /\ \A i \in 1 .. w : a[i] = Begin6[i]
      /\ a[Len(a)] = "end" /\ Len(a) > w
  BY Arm6
<1> HIDE DEF a, w, v
<1>3. ASSUME NEW i \in 1 .. Len(a)
      PROVE  /\ i < v => a[i] = "work"
             /\ i = v => a[i] = "earlyroute"
             /\ i > v => a[i] \notin {"route", "circle", "earlyroute"}
             /\ a[i] \in {"early", "earlyroute"} => i < w
             /\ i = w => a[i] = "confirm"
             /\ i <= w => a[i] # "end"
  <2>1. CASE i <= w
    <3>1. i \in 1 .. w
      BY <1>1, <2>1
    <3>2. a[i] = Begin6[i]
      BY <1>2, <3>1
    <3>3. i < v \/ i = v \/ (i > v /\ i < w) \/ i = w
      BY <1>1, <2>1
    <3> QED
      BY <1>1, <3>1, <3>2, <3>3
  <2>2. CASE i > w
    <3>1. a[i] \in Rest /\ i > v /\ ~(i <= w) /\ i # v /\ ~(i < v) /\ i # w
      BY <1>1, <1>2, <2>2 DEF Routine
    <3>2. a[i] \notin {"route", "circle", "earlyroute", "early"}
      BY <3>1 DEF Rest
    <3> QED
      BY <3>1, <3>2
  <2> QED
    BY <1>1, <2>1, <2>2
<1>4. Len(a) \in Nat /\ Len(a) > v
  BY <1>1, <1>2 DEF Routine
<1>5. Points(a, 6)
  BY <1>2, <1>3, <1>4 DEF Points, w, v
<1> QED
  BY <1>5 DEF a

(* The work of every stage has these points. *)
LEMMA ArmPoints ==
  ASSUME NEW n \in Stages
  PROVE  Points(armaction(n), n)
<1>1. CASE n = 1
  <2>1. armaction(n) = armaction1
    BY <1>1 DEF armaction
  <2> QED
    BY <1>1, <2>1, Arm1, Points1, Zenon
<1>2. CASE n = 2
  BY <1>2, Points2 DEF armaction
<1>3. CASE n = 3
  <2>1. armaction(n) = armaction3
    BY <1>3 DEF armaction
  <2> QED
    BY <1>3, <2>1, Arm3, Points1
<1>4. CASE n = 4
  <2>1. armaction(n) = armaction4
    BY <1>4 DEF armaction
  <2> QED
    BY <1>4, <2>1, Arm4, Points1
<1>5. CASE n = 5
  <2>1. armaction(n) = armaction5
    BY <1>5 DEF armaction
  <2> QED
    BY <1>5, <2>1, Arm5, Points1
<1>6. CASE n = 6
  BY <1>6, Points6 DEF armaction
<1>7. CASE n = 7
  <2>1. armaction(n) = armaction7
    BY <1>7 DEF armaction
  <2> QED
    BY <1>7, <2>1, Arm7, Points1
<1> QED
  BY <1>1, <1>2, <1>3, <1>4, <1>5, <1>6, <1>7 DEF Stages

-----------------------------------------------------------------------------
(* Type correctness: no thread leaves its routine but at the end of it.       *)

(* The parts of TypeOK. *)
AutoPlace == auto = Idle \/ (auto.n \in Stages /\ auto.at \in 1 .. Len(Route(auto.n)))
ArmPlace == arm = Idle \/ (arm.n \in Stages /\ arm.at \in 1 .. Len(armaction(arm.n)))
Bits ==
  /\ RouteFinish \in BOOLEAN /\ CircleFinish \in BOOLEAN /\ armtest_flag \in BOOLEAN
  /\ Auto_flag \in BOOLEAN /\ past \in BOOLEAN /\ aborted \in BOOLEAN
Values ==
  /\ keyboard \in {"menu", "running", "armtest", "halted"} /\ confirmed \in {"no", "stage", "stale"}
  /\ Route_Num \in Stages
  /\ Mb_Auto \in Seq(Stages) /\ Mb_Arm \in Seq(Stages)
  /\ flag \subseteq Flags /\ pressed \in [{"auto", "arm"} -> BOOLEAN]

(* TypeOK is the conjunction of its parts. *)
LEMMA TypeParts == TypeOK <=> AutoPlace /\ ArmPlace /\ Bits /\ Values
<1>1. {RouteFinish, CircleFinish, armtest_flag, Auto_flag, past, aborted} \subseteq BOOLEAN
        <=> Bits
  BY Zenon DEF Bits
<1> QED
  BY <1>1, Zenon DEF TypeOK, AutoPlace, ArmPlace, Values

(* The options and armtest_flag decide what the routines are, so a thread     *)
(* stays at a point of its routine while these stay.                          *)
LEMMA SameRoute ==
  ASSUME flag' = flag, NEW n \in Stages, auto'.n = n
  PROVE  (Route(auto.n))' = Route(n)
BY DEF Route, GoRoute1, GoRoute2, GoRoute3, GoRoute4, GoRoute5, GoRoute6, GoRoute7, On, Stages

(* The same of the arm. *)
LEMMA SameWork ==
  ASSUME flag' = flag, armtest_flag' = armtest_flag, NEW n \in Stages, arm'.n = n
  PROVE  (armaction(arm.n))' = armaction(n)
BY DEF armaction, armaction1, armaction2, armaction3, armaction4, armaction5, armaction6,
       armaction7, Opt, On

(* The auto thread is at a point of its route after a step that leaves the *)
(* options alone.                                                          *)
LEMMA AutoPlaced ==
  ASSUME flag' = flag, NEW n \in Stages, auto'.n = n, auto'.at \in 1 .. Len(Route(n))
  PROVE  AutoPlace'
<1>1. (Route(auto.n))' = Route(n)
  BY SameRoute
<1> QED
  BY <1>1 DEF AutoPlace

(* The same of the arm. *)
LEMMA ArmPlaced ==
  ASSUME flag' = flag, armtest_flag' = armtest_flag, NEW n \in Stages, arm'.n = n,
         arm'.at \in 1 .. Len(armaction(n))
  PROVE  ArmPlace'
<1>1. (armaction(arm.n))' = armaction(n)
  BY SameWork
<1> QED
  BY <1>1 DEF ArmPlace

(* A thread that does not move. *)
LEMMA AutoStays ==
  ASSUME AutoPlace, auto' = auto, flag' = flag
  PROVE  AutoPlace'
<1>1. CASE auto = Idle
  BY <1>1 DEF AutoPlace, Idle
<1>2. CASE auto # Idle
  BY <1>2, AutoPlaced DEF AutoPlace
<1> QED
  BY <1>1, <1>2

(* The same of the arm. *)
LEMMA ArmStays ==
  ASSUME ArmPlace, arm' = arm, flag' = flag, armtest_flag' = armtest_flag
  PROVE  ArmPlace'
<1>1. CASE arm = Idle
  BY <1>1 DEF ArmPlace, Idle
<1>2. CASE arm # Idle
  BY <1>2, ArmPlaced DEF ArmPlace
<1> QED
  BY <1>1, <1>2

(* An idle thread. *)
LEMMA IdlePlace ==
  /\ auto' = Idle => AutoPlace'
  /\ arm' = Idle => ArmPlace'
BY DEF AutoPlace, ArmPlace, Idle

(* A thread in a stage is at a point of its routine. *)
LEMMA AutoIn ==
  ASSUME TypeOK, auto.n # 0
  PROVE  /\ auto.n \in Stages /\ auto.at \in 1 .. Len(Route(auto.n))
         /\ Len(Route(auto.n)) \in {1, 2}
<1>1. auto.n \in Stages /\ auto.at \in 1 .. Len(Route(auto.n))
  BY TypeParts DEF AutoPlace, Idle
<1> QED
  BY <1>1, RoutePoints

(* The same of the arm, with what is known of the points of its work. *)
LEMMA ArmInStage ==
  ASSUME TypeOK, arm.n # 0
  PROVE  /\ arm.n \in Stages /\ arm.at \in 1 .. Len(armaction(arm.n))
         /\ Points(armaction(arm.n), arm.n)
<1>1. arm.n \in Stages /\ arm.at \in 1 .. Len(armaction(arm.n))
  BY TypeParts DEF ArmPlace, Idle
<1> QED
  BY <1>1, ArmPoints

(* A step of the auto thread along its route: on to the camera circle, or to  *)
(* the end.                                                                   *)
AutoMove == AutoArrive \/ AutoCircled \/ CamCircle_Static

(* Such a step goes to the second leg or ends the route. *)
LEMMA AutoMoves ==
  ASSUME Token, TypeOK, AutoMove
  PROVE  /\ \/ auto' = Idle
            \/ auto.n \in Stages /\ auto'.n = auto.n /\ auto'.at = 2 /\ auto.at = 1
         /\ AutoPlace'
         /\ auto.n # 0 /\ pressed' = [pressed EXCEPT !["auto"] = FALSE]
         /\ UNCHANGED <<keyboard, arm, Mb_Auto, Mb_Arm, Route_Num, armtest_flag, Auto_flag, flag,
                        past, confirmed, aborted>>
<1>0. /\ auto.n # 0 /\ AutoNext
      /\ UNCHANGED <<keyboard, arm, Mb_Auto, Mb_Arm, Route_Num, armtest_flag, Auto_flag, flag,
                     past, confirmed, aborted>>
  BY DEF AutoMove, AutoArrive, AutoCircled, CamCircle_Static, AutoAt
<1>1. PICK l \in {1, 2} : l = Len(Route(auto.n))
  BY <1>0, AutoIn
<1>2. auto.at \in 1 .. l /\ auto.n \in Stages
  BY <1>0, <1>1, AutoIn
<1>3. /\ auto' = IF auto.at < l THEN [auto EXCEPT !.at = @ + 1] ELSE Idle
      /\ pressed' = [pressed EXCEPT !["auto"] = FALSE]
  BY <1>0, <1>1 DEF AutoNext
<1>4. CASE auto.at < l
  <2>1. auto.at = 1 /\ l = 2
    BY <1>2, <1>4
  <2>2. auto' = [auto EXCEPT !.at = 2]
    BY <1>3, <1>4, <2>1
  <2>3. auto'.n = auto.n /\ auto'.at = 2
    BY <2>2 DEF Token
  <2>4. auto'.at \in 1 .. Len(Route(auto.n))
    BY <1>1, <2>1, <2>3
  <2>5. AutoPlace'
    BY <1>0, <1>2, <2>3, <2>4, AutoPlaced
  <2> QED
    BY <1>0, <1>2, <1>3, <2>1, <2>3, <2>5
<1>5. CASE ~(auto.at < l)
  BY <1>0, <1>3, <1>5, IdlePlace
<1> QED
  BY <1>4, <1>5

(* A step of the arm thread from one point of its work to the next. *)
ArmMove == RouteOver \/ Work \/ Wait_Button8_Change \/ Drive \/ Pause \/ Confirm

(* Such a step goes one point on, which is never beyond the end. *)
LEMMA ArmMoves ==
  ASSUME Token, TypeOK, ArmMove
  PROVE  /\ arm.n \in Stages /\ arm.at \in 1 .. Len(armaction(arm.n))
         /\ Points(armaction(arm.n), arm.n)
         /\ arm'.n = arm.n /\ arm'.at = arm.at + 1 /\ ArmPlace'
         /\ pressed' = [pressed EXCEPT !["arm"] = FALSE]
         /\ UNCHANGED <<keyboard, auto, Mb_Auto, Mb_Arm, Route_Num, RouteFinish, CircleFinish,
                        armtest_flag, flag, aborted>>
<1>1. /\ arm.n # 0 /\ armaction(arm.n)[arm.at] # "end" /\ ArmNext
      /\ UNCHANGED <<keyboard, auto, Mb_Auto, Mb_Arm, Route_Num, RouteFinish, CircleFinish,
                     armtest_flag, flag, aborted>>
  BY DEF ArmMove, RouteOver, Work, Wait_Button8_Change, Drive, Pause, Confirm, ArmIn, ArmAt, armVars
<1>2. arm' = [arm EXCEPT !.at = @ + 1] /\ pressed' = [pressed EXCEPT !["arm"] = FALSE]
  BY <1>1 DEF ArmNext
<1>3. arm'.n = arm.n /\ arm'.at = arm.at + 1
  BY <1>2 DEF Token
<1>4. /\ arm.n \in Stages /\ arm.at \in 1 .. Len(armaction(arm.n))
      /\ Points(armaction(arm.n), arm.n)
  BY <1>1, ArmInStage
<1>5. armaction(arm.n)[Len(armaction(arm.n))] = "end" /\ Len(armaction(arm.n)) \in Nat
  BY <1>4 DEF Points
<1>6. arm.at # Len(armaction(arm.n))
  BY <1>1, <1>5
<1>7. arm'.at \in 1 .. Len(armaction(arm.n))
  BY <1>3, <1>4, <1>5, <1>6
<1>8. ArmPlace'
  BY <1>1, <1>3, <1>4, <1>7, ArmPlaced
<1> QED
  BY <1>1, <1>2, <1>3, <1>4, <1>8

(* Only where the confirmation is due does the arm forget what spared it. *)
LEMMA ArmSure ==
  ASSUME ArmMove, NEW p, p = armaction(arm.n)[arm.at]
  PROVE  \/ p = "confirm" /\ confirmed' = "no"
         \/ p # "confirm" /\ confirmed' = confirmed
<1>1. CASE Confirm
  BY <1>1 DEF Confirm, ArmAt
<1>2. CASE RouteOver \/ Work \/ Wait_Button8_Change \/ Drive \/ Pause
  BY <1>2, Zenon DEF RouteOver, Work, Wait_Button8_Change, Drive, Pause, ArmIn, ArmAt
<1> QED
  BY <1>1, <1>2 DEF ArmMove

(* The menu, in which everything is idle. *)
LEMMA MenuIdle ==
  ASSUME Token, TypeOK, Menu
  PROVE  /\ auto = Idle /\ arm = Idle /\ UNCHANGED <<auto, arm>>
         /\ keyboard = "menu" /\ Mb_Auto = << >> /\ Mb_Arm = << >>
         /\ UNCHANGED <<CircleFinish, Auto_flag, pressed, past, confirmed, aborted>>
<1>1. /\ UNCHANGED <<auto, arm>> /\ keyboard = "menu"
      /\ UNCHANGED <<CircleFinish, Auto_flag, pressed, past, confirmed, aborted>>
  BY DEF Menu, RouteTest, GoRoute, ArmTest
<1>2. auto.n = 0 /\ arm.n = 0 /\ Mb_Auto = << >> /\ Mb_Arm = << >>
  BY <1>1 DEF Token
<1>3. auto = Idle /\ arm = Idle
  BY <1>2, TypeParts DEF AutoPlace, ArmPlace, Stages
<1> QED
  BY <1>1, <1>2, <1>3

(* A stage that starts. *)
LEMMA AutoStarts ==
  ASSUME Token, TypeOK, AutoStart
  PROVE  \E n \in Stages :
           /\ Mb_Auto = <<n>> /\ Mb_Auto' = << >> /\ Mb_Arm = << >> /\ Mb_Arm' = <<n>>
           /\ auto.n = 0 /\ auto'.n = n /\ auto'.at = 1 /\ Route_Num' = n /\ RouteFinish' = TRUE
           /\ arm.n = 0 /\ keyboard = "running" /\ AutoPlace'
           /\ pressed' = [pressed EXCEPT !["auto"] = FALSE]
           /\ UNCHANGED <<keyboard, arm, CircleFinish, armtest_flag, Auto_flag, flag, past,
                          confirmed, aborted>>
<1>1. PICK n \in Stages : Mb_Auto = <<n>>
  BY DEF AutoStart, Token
<1>2. /\ auto' = [n |-> n, at |-> 1] /\ Mb_Auto' = << >> /\ Route_Num' = n
      /\ RouteFinish' = TRUE /\ auto.n = 0 /\ pressed' = [pressed EXCEPT !["auto"] = FALSE]
      /\ UNCHANGED <<keyboard, arm, CircleFinish, armtest_flag, Auto_flag, flag, past,
                     confirmed, aborted>>
  BY <1>1, OneMail DEF AutoStart
<1>3. Mb_Arm = << >> /\ arm.n = 0 /\ keyboard = "running"
  BY <1>1, OneMail DEF Token
<1>4. Mb_Arm' = <<n>>
  BY <1>1, <1>3, OneMail DEF AutoStart
<1>5. auto'.n = n /\ auto'.at = 1
  BY <1>2
<1>6. auto'.at \in 1 .. Len(Route(n))
  <2>1. PICK l \in {1, 2} : l = Len(Route(n))
    BY RoutePoints
  <2>2. 1 \in 1 .. l
    OBVIOUS
  <2> QED
    BY <1>5, <2>1, <2>2
<1>7. AutoPlace'
  BY <1>2, <1>5, <1>6, AutoPlaced
<1> QED
  BY <1>1, <1>2, <1>3, <1>4, <1>5, <1>7

(* The same of the arm. *)
LEMMA ArmStarts ==
  ASSUME Token, TypeOK, ArmStart
  PROVE  \E n \in Stages :
           /\ Mb_Arm = <<n>> /\ Mb_Arm' = << >> /\ Mb_Auto = << >>
           /\ arm.n = 0 /\ arm'.n = n /\ arm'.at = 1 /\ past' = FALSE
           /\ confirmed' = (IF confirmed = "stage" THEN "no" ELSE confirmed)
           /\ ArmPlace' /\ pressed' = [pressed EXCEPT !["arm"] = FALSE]
           /\ UNCHANGED <<keyboard, auto, Mb_Auto, Route_Num, RouteFinish, CircleFinish,
                          armtest_flag, Auto_flag, flag, aborted>>
<1>1. PICK n \in Stages : Mb_Arm = <<n>>
  BY DEF ArmStart, Token
<1>2. /\ arm' = [n |-> n, at |-> 1] /\ Mb_Arm' = << >> /\ past' = FALSE
      /\ confirmed' = (IF confirmed = "stage" THEN "no" ELSE confirmed) /\ arm.n = 0 /\ pressed' = [pressed EXCEPT !["arm"] = FALSE]
      /\ UNCHANGED <<keyboard, auto, Mb_Auto, Route_Num, RouteFinish, CircleFinish,
                     armtest_flag, Auto_flag, flag, aborted>>
  BY <1>1, OneMail DEF ArmStart
<1>3. Mb_Auto = << >>
  BY <1>1, OneMail DEF Token
<1>4. arm'.n = n /\ arm'.at = 1
  BY <1>2
<1>5. Len(armaction(n)) \in Nat /\ Len(armaction(n)) > Awaits(n) /\ Awaits(n) \in {1, 2}
  BY ArmPoints DEF Points, Awaits
<1>6. arm'.at \in 1 .. Len(armaction(n))
  BY <1>4, <1>5
<1>7. ArmPlace'
  BY <1>2, <1>4, <1>6, ArmPlaced
<1> QED
  BY <1>1, <1>2, <1>3, <1>4, <1>7

(* The end of the work of a stage. *)
LEMMA ArmEnds ==
  ASSUME Token, TypeOK, ArmEnd
  PROVE  /\ arm.n \in Stages /\ arm.at \in 1 .. Len(armaction(arm.n))
         /\ Points(armaction(arm.n), arm.n) /\ armaction(arm.n)[arm.at] = "end"
         /\ arm' = Idle /\ past' = FALSE /\ ArmPlace'
         /\ Mb_Auto = << >> /\ Mb_Arm = << >> /\ keyboard # "menu"
         /\ \/ Mb_Auto' = << >>
            \/ /\ keyboard = "running" /\ arm.n < 7 /\ arm.n + 1 \in Stages
               /\ Mb_Auto' = <<arm.n + 1>>
         /\ UNCHANGED <<keyboard, auto, Mb_Arm, Route_Num, RouteFinish, CircleFinish,
                        armtest_flag, flag, aborted, Auto_flag, pressed, confirmed>>
<1>1. /\ arm.n # 0 /\ armaction(arm.n)[arm.at] = "end" /\ arm' = Idle /\ past' = FALSE
      /\ UNCHANGED <<keyboard, auto, Mb_Arm, Route_Num, RouteFinish, CircleFinish,
                     armtest_flag, flag, aborted, Auto_flag, pressed, confirmed>>
  BY DEF ArmEnd, ArmAt, armVars
<1>2. /\ arm.n \in Stages /\ arm.at \in 1 .. Len(armaction(arm.n))
      /\ Points(armaction(arm.n), arm.n)
  BY <1>1, ArmInStage
<1>3. Mb_Auto = << >> /\ Mb_Arm = << >> /\ keyboard \notin {"menu", "halted"}
  BY <1>1 DEF Token
<1>4. \/ Mb_Auto' = << >>
      \/ /\ keyboard = "running" /\ arm.n < 7 /\ arm.n + 1 \in Stages
         /\ Mb_Auto' = <<arm.n + 1>>
  <2>1. CASE armtest_flag /\ arm.n < 7
    <3>1. arm.n + 1 \in Stages
      BY <1>2, <2>1 DEF Stages
    <3>2. Mb_Auto' = <<arm.n + 1>>
      BY <1>3, <2>1, <3>1, OneMail DEF ArmEnd
    <3>3. keyboard = "running"
      BY <1>3, <2>1 DEF Token
    <3> QED
      BY <2>1, <3>1, <3>2, <3>3
  <2>2. CASE ~(armtest_flag /\ arm.n < 7)
    BY <1>3, <2>2 DEF ArmEnd
  <2> QED
    BY <2>1, <2>2
<1> QED
  BY <1>1, <1>2, <1>3, <1>4, IdlePlace

(* The steps that move neither thread. *)
Aside == EarlyConfirm \/ Press \/ UNCHANGED vars

(* What such a step leaves alone. *)
LEMMA AsideStays ==
  ASSUME Aside
  PROVE  UNCHANGED <<keyboard, auto, arm, Mb_Auto, Mb_Arm, Route_Num, RouteFinish, CircleFinish,
                     armtest_flag, flag, aborted, past>>
BY DEF Aside, EarlyConfirm, Press, vars, armVars

(* The steps of the specification, grouped as the proofs treat them. *)
LEMMA Steps ==
  [Next]_vars <=> \/ Menu \/ AutoStart \/ AutoMove \/ ArmStart \/ ArmMove \/ ArmEnd
                  \/ Aside \/ Emergency
BY DEF Next, AutoStep, AutoMove, ArmStep, ArmMove, Aside

(* Initially both threads are idle. *)
LEMMA TypeInit == Init => TypeOK
<1> SUFFICES ASSUME Init PROVE TypeOK
  OBVIOUS
<1>1. pressed \in [{"auto", "arm"} -> BOOLEAN] /\ flag \subseteq Flags
  BY DEF Init
<1>2. Mb_Auto \in Seq(Stages) /\ Mb_Arm \in Seq(Stages) /\ Route_Num \in Stages
  BY DEF Init, Stages
<1>3. Bits
  BY Zenon DEF Init, Bits
<1>4. AutoPlace /\ ArmPlace /\ keyboard = "menu" /\ confirmed = "no"
  BY DEF Init, AutoPlace, ArmPlace
<1> QED
  BY <1>1, <1>2, <1>3, <1>4, TypeParts DEF Values

(* The flags stay flags. *)
LEMMA BitsStep == Bits /\ [Next]_vars => Bits'
<1> SUFFICES ASSUME Bits, [Next]_vars PROVE Bits'
  OBVIOUS
<1>1. CASE Menu
  BY <1>1, Zenon DEF Menu, RouteTest, GoRoute, ArmTest, Bits
<1>2. CASE AutoStart \/ AutoMove
  BY <1>2, Zenon DEF AutoStart, AutoMove, AutoArrive, AutoCircled, CamCircle_Static, Bits
<1>3. CASE ArmStart \/ ArmMove \/ ArmEnd
  BY <1>3, Zenon DEF ArmStart, ArmMove, RouteOver, Work, Wait_Button8_Change, Drive, Pause, Confirm,
                     ArmEnd, armVars, Bits
<1>4. CASE Aside \/ Emergency
  BY <1>4, Zenon DEF Aside, EarlyConfirm, Press, vars, armVars, Emergency, Bits
<1> QED
  BY <1>1, <1>2, <1>3, <1>4, Steps

(* No step takes a thread off its routine. *)
LEMMA PlaceStep ==
  ASSUME Token, TypeOK, [Next]_vars
  PROVE  AutoPlace' /\ ArmPlace'
<1>0. AutoPlace /\ ArmPlace
  BY TypeParts
<1>1. CASE Menu
  BY <1>1, MenuIdle, IdlePlace
<1>2. CASE AutoStart
  BY <1>0, <1>2, AutoStarts, ArmStays, Zenon
<1>3. CASE AutoMove
  BY <1>0, <1>3, AutoMoves, ArmStays
<1>4. CASE ArmStart
  BY <1>0, <1>4, ArmStarts, AutoStays, Zenon
<1>5. CASE ArmMove
  BY <1>0, <1>5, ArmMoves, AutoStays
<1>6. CASE ArmEnd
  BY <1>0, <1>6, ArmEnds, AutoStays
<1>7. CASE Aside
  BY <1>0, <1>7, AsideStays, ArmStays, AutoStays
<1>8. CASE Emergency
  BY <1>8, IdlePlace DEF Emergency
<1> QED
  BY <1>1, <1>2, <1>3, <1>4, <1>5, <1>6, <1>7, <1>8, Steps

(* Mails and Route_Num stay stages, the options stay options. *)
LEMMA ValuesStep ==
  ASSUME Token, TypeOK, [Next]_vars
  PROVE  Values'
<1>0. Values
  BY TypeParts
<1>1. Mb_Auto' \in Seq(Stages) /\ Mb_Arm' \in Seq(Stages) /\ keyboard' \in {"menu", "running", "armtest", "halted"}
  <2>1. Token'
    BY TokenStep
  <2>2. << >> \in Seq(Stages) /\ \A n \in Stages : <<n>> \in Seq(Stages)
    OBVIOUS
  <2> QED
    BY <2>1, <2>2, Zenon DEF Token
<1>2. flag' \subseteq Flags
  <2>1. CASE Menu
    BY <1>0, <2>1, FlagsAssumption DEF Menu, RouteTest, GoRoute, ArmTest, Values
  <2>2. CASE ~Menu
    <3>1. flag' = flag
      BY <2>2, Steps, AutoStarts, AutoMoves, ArmStarts, ArmMoves, ArmEnds, AsideStays, Zenon DEF Emergency
    <3> QED
      BY <1>0, <3>1 DEF Values
  <2> QED
    BY <2>1, <2>2
<1>3. Route_Num' \in Stages
  <2>1. CASE RouteTest \/ AutoStart
    BY <2>1, AutoStarts, Zenon DEF RouteTest
  <2>2. CASE ~(RouteTest \/ AutoStart)
    <3>1. Route_Num' = Route_Num
      BY <2>2, Steps, AutoMoves, ArmStarts, ArmMoves, ArmEnds, AsideStays, Zenon
         DEF Menu, GoRoute, ArmTest, Emergency
    <3> QED
      BY <1>0, <3>1 DEF Values
  <2> QED
    BY <2>1, <2>2
<1>4. pressed' \in [{"auto", "arm"} -> BOOLEAN]
  <2>1. \/ pressed' = pressed \/ pressed' = [pressed EXCEPT !["auto"] = FALSE]
        \/ pressed' = [pressed EXCEPT !["arm"] = FALSE]
        \/ pressed' = [t \in {"auto", "arm"} |-> TRUE]
    BY Steps, MenuIdle, AutoStarts, AutoMoves, ArmStarts, ArmMoves, ArmEnds, Zenon
       DEF Aside, EarlyConfirm, Press, vars, Emergency
  <2> QED
    BY <1>0, <2>1, Zenon DEF Values
<1>5. confirmed' \in {"no", "stage", "stale"}
  <2>1. \/ confirmed' = confirmed \/ confirmed' \in {"no", "stage", "stale"}
    <3>1. CASE Menu \/ AutoStart \/ AutoMove \/ ArmEnd
      BY <3>1, MenuIdle, AutoStarts, AutoMoves, ArmEnds, Zenon
    <3>2. CASE ArmStart \/ ArmMove
      BY <3>2, ArmStarts, ArmSure, Zenon
    <3>3. CASE Aside \/ Emergency
      BY <3>3, Zenon DEF Aside, EarlyConfirm, Press, vars, Emergency
    <3> QED
      BY <3>1, <3>2, <3>3, Steps
  <2> QED
    BY <1>0, <2>1 DEF Values
<1> QED
  BY <1>1, <1>2, <1>3, <1>4, <1>5 DEF Values

(* Every step keeps TypeOK. *)
LEMMA TypeStep == Token /\ TypeOK /\ [Next]_vars => TypeOK'
<1> SUFFICES ASSUME Token, TypeOK, [Next]_vars PROVE TypeOK'
  OBVIOUS
<1>1. AutoPlace' /\ ArmPlace' /\ Bits' /\ Values'
  BY PlaceStep, BitsStep, ValuesStep, TypeParts
<1> QED
  BY <1>1, TypeParts, PTL

(* Whatever the options, the menu, the presses and the emergencies, a thread  *)
(* is idle or at a point of the routine of its stage: no routine is left      *)
(* anywhere but at its end (route.c, armaction.c).                            *)
THEOREM MissionTypes == Spec => []TypeOK
BY TokenInit, TokenStep, TypeInit, TypeStep, PTL DEF Spec

-----------------------------------------------------------------------------
(* The invariants behind the order of route and work.                         *)

(* In a match both threads and both mailboxes hold the stage Route_Num or,    *)
(* once the arm has ended its work, the next one; and RouteFinish is set      *)
(* while the base is on the first leg of a route.                             *)
Stage ==
  /\ keyboard = "running" =>
       /\ auto.n # 0 => auto.n = Route_Num
       /\ arm.n # 0 => arm.n = Route_Num
       /\ Mb_Arm # << >> => Mb_Arm[1] = Route_Num
       /\ Mb_Auto # << >> /\ auto.n # 0 => Mb_Auto[1] = Route_Num + 1
  /\ auto.n # 0 /\ auto.at = 1 => RouteFinish

(* The arm is past its wait only if the flag it polls is cleared, and before  *)
(* that it is not beyond the point of that wait.                              *)
Waiting ==
  /\ past => arm.n # 0 /\ IF arm.n = 2 /\ On("Circle_dyn") THEN ~CircleFinish ELSE ~RouteFinish
  /\ arm.n # 0 /\ ~past => arm.at <= Awaits(arm.n)

(* Up to the first emergency CircleFinish is cleared only once stage 2 is     *)
(* driven, which no later mail starts again.                                  *)
Circled ==
  ~aborted /\ ~CircleFinish =>
    /\ keyboard = "running" /\ Route_Num >= 2 /\ auto.n # 2
    /\ Mb_Auto # << >> => Mb_Auto[1] > 2

(* Auto_flag is cleared only by the early confirmation of stage 2 or 6, and   *)
(* set again where that one is used; or it was left cleared by an emergency.  *)
Sureness ==
  ~Auto_flag =>
    \/ confirmed = "stale"
    \/ confirmed = "stage" /\ arm.n \in {2, 6} /\ arm.at <= Sure(arm.n)

(* While the base drives the camera circle of stage 7, the arm does not get   *)
(* beyond the pause after its button, and the press that let it get there     *)
(* stops the circle.                                                          *)
Beside ==
  arm.n = 7 /\ auto.n # 0 /\ auto.at = 2 /\ past =>
    /\ arm.at \in {2, 3, 4}
    /\ arm.at = 3 /\ pressed["arm"] => pressed["auto"]
    /\ arm.at = 4 => pressed["auto"]

Match == Token /\ TypeOK /\ Stage /\ Waiting /\ Circled /\ Sureness /\ Beside

(* Before a match starts the invariants hold. *)
LEMMA MatchInit == Init => Match
<1> SUFFICES ASSUME Init PROVE Match
  OBVIOUS
<1>1. Token /\ TypeOK
  BY TokenInit, TypeInit
<1>2. auto.n = 0 /\ arm.n = 0 /\ keyboard = "menu" /\ ~past /\ CircleFinish /\ Auto_flag
  BY DEF Init, Idle
<1> QED
  BY <1>1, <1>2 DEF Match, Stage, Waiting, Circled, Sureness, Beside

(* Every step keeps Stage. *)
LEMMA StageStep ==
  ASSUME Token, TypeOK, Stage, [Next]_vars
  PROVE  Stage'
<1>1. CASE Menu
  <2>1. auto'.n = 0 /\ arm'.n = 0 /\ Mb_Arm = << >>
    BY <1>1, MenuIdle DEF Idle
  <2>2. keyboard' = "running" => Mb_Arm' = Mb_Arm
    BY <1>1 DEF Menu, RouteTest, GoRoute, ArmTest
  <2> QED
    BY <2>1, <2>2 DEF Stage
<1>2. CASE AutoStart
  <2>1. PICK n \in Stages :
          /\ auto'.n = n /\ Route_Num' = n /\ Mb_Arm' = <<n>> /\ Mb_Auto' = << >>
          /\ arm'.n = 0 /\ RouteFinish' = TRUE
    BY <1>2, AutoStarts, Zenon
  <2> QED
    BY <2>1, OneMail DEF Stage
<1>3. CASE AutoMove
  <2>1. /\ UNCHANGED <<keyboard, arm, Mb_Auto, Mb_Arm, Route_Num>>
        /\ auto'.n = 0 \/ (auto'.n = auto.n /\ auto'.at = 2)
    BY <1>3, AutoMoves DEF Idle
  <2> QED
    BY <2>1 DEF Stage
<1>4. CASE ArmStart
  <2>1. PICK n \in Stages :
          /\ Mb_Arm = <<n>> /\ Mb_Arm' = << >> /\ arm'.n = n
          /\ UNCHANGED <<keyboard, auto, Mb_Auto, Route_Num, RouteFinish>>
    BY <1>4, ArmStarts, Zenon
  <2> QED
    BY <2>1, OneMail DEF Stage
<1>5. CASE ArmMove
  <2>1. arm'.n = arm.n /\ UNCHANGED <<keyboard, auto, Mb_Auto, Mb_Arm, Route_Num, RouteFinish>>
    BY <1>5, ArmMoves
  <2> QED
    BY <2>1 DEF Stage
<1>6. CASE ArmEnd
  <2>1. /\ arm'.n = 0 /\ arm.n \in Stages
        /\ UNCHANGED <<keyboard, auto, Mb_Arm, Route_Num, RouteFinish>>
        /\ \/ Mb_Auto' = << >>
           \/ arm.n + 1 \in Stages /\ Mb_Auto' = <<arm.n + 1>>
    BY <1>6, ArmEnds DEF Idle, Stages
  <2>2. Mb_Auto' # << >> => Mb_Auto'[1] = arm.n + 1
    BY <2>1, OneMail
  <2>3. keyboard = "running" => arm.n = Route_Num
    BY <2>1 DEF Stage, Stages
  <2> QED
    BY <2>1, <2>2, <2>3 DEF Stage
<1>7. CASE Aside
  <2>1. UNCHANGED <<keyboard, auto, arm, Mb_Auto, Mb_Arm, Route_Num, RouteFinish>>
    BY <1>7, AsideStays
  <2> QED
    BY <2>1 DEF Stage
<1>8. CASE Emergency
  BY <1>8 DEF Emergency, Stage, Idle
<1> QED
  BY <1>1, <1>2, <1>3, <1>4, <1>5, <1>6, <1>7, <1>8, Steps

(* Every step keeps Circled. *)
LEMMA CircledStep ==
  ASSUME Token, TypeOK, Stage, Circled, [Next]_vars
  PROVE  Circled'
<1>1. CASE Menu
  <2>1. keyboard = "menu" /\ UNCHANGED <<CircleFinish, aborted>>
    BY <1>1, MenuIdle
  <2> QED
    BY <2>1 DEF Circled
<1>2. CASE AutoStart
  <2>1. PICK n \in Stages :
          /\ Mb_Auto = <<n>> /\ auto'.n = n /\ Route_Num' = n /\ Mb_Auto' = << >>
          /\ UNCHANGED <<keyboard, CircleFinish, aborted>>
    BY <1>2, AutoStarts, Zenon
  <2>2. Mb_Auto[1] = n /\ Mb_Auto # << >> /\ n \in 1 .. 7
    BY <2>1, OneMail DEF Stages
  <2> QED
    BY <2>1, <2>2 DEF Circled
<1>3. CASE AutoMove
  <2>1. /\ UNCHANGED <<keyboard, Mb_Auto, Route_Num, aborted>>
        /\ auto'.n = 0 \/ (auto'.n = auto.n /\ auto'.at = 2 /\ auto.n \in Stages)
    BY <1>3, AutoMoves DEF Idle
  <2>2. CASE CircleFinish' = CircleFinish
    BY <2>1, <2>2 DEF Circled
  <2>3. CASE AutoCircled
    <3>1. auto.n # 0 /\ Route(auto.n)[auto.at] = "dyn"
      BY <2>3 DEF AutoCircled, AutoAt
    <3>2. /\ auto.n \in Stages /\ auto.at \in 1 .. Len(Route(auto.n))
      BY <3>1, AutoIn
    <3>3. auto.n = 2 /\ Len(Route(auto.n)) = 1 /\ auto.at = 1
      BY <3>1, <3>2, RoutePoints
    <3>4. auto' = Idle
      <4>1. ~(auto.at < Len(Route(auto.n)))
        BY <3>3
      <4> QED
        BY <2>3, <4>1, Zenon DEF AutoCircled, AutoNext
    <3>5. keyboard = "running"
      BY <3>1 DEF Token
    <3>6. Route_Num = 2 /\ (Mb_Auto # << >> => Mb_Auto[1] = 3)
      BY <3>3, <3>5 DEF Stage
    <3> QED
      BY <2>1, <3>4, <3>5, <3>6 DEF Circled, Idle
  <2> QED
    BY <1>3, <2>2, <2>3 DEF AutoMove, AutoArrive, CamCircle_Static
<1>4. CASE ArmStart \/ ArmMove \/ Aside
  <2>1. UNCHANGED <<keyboard, auto, Mb_Auto, Route_Num, CircleFinish, aborted>>
    BY <1>4, ArmStarts, ArmMoves, AsideStays, Zenon
  <2> QED
    BY <2>1 DEF Circled
<1>5. CASE ArmEnd
  <2>1. /\ arm.n \in 1 .. 7
        /\ UNCHANGED <<keyboard, auto, Route_Num, CircleFinish, aborted>>
        /\ \/ Mb_Auto' = << >>
           \/ arm.n + 1 \in Stages /\ Mb_Auto' = <<arm.n + 1>>
    BY <1>5, ArmEnds DEF Stages
  <2>2. Mb_Auto' # << >> => Mb_Auto'[1] = arm.n + 1
    BY <2>1, OneMail
  <2>3. keyboard = "running" => arm.n = Route_Num
    BY <2>1 DEF Stage
  <2> QED
    BY <2>1, <2>2, <2>3 DEF Circled
<1>6. CASE Emergency
  BY <1>6 DEF Emergency, Circled
<1> QED
  BY <1>1, <1>2, <1>3, <1>4, <1>5, <1>6, Steps

(* The point where the arm is, and the ways it goes on from it. *)
LEMMA ArmWay ==
  ASSUME Token, TypeOK, ArmMove, NEW p, p = armaction(arm.n)[arm.at]
  PROVE  \/ /\ p \in {"route", "earlyroute"} /\ ~RouteFinish /\ past' = TRUE /\ Auto_flag' = Auto_flag
         \/ /\ p = "circle" /\ ~CircleFinish /\ past' = TRUE /\ Auto_flag' = Auto_flag
         \/ /\ p \in {"work", "early", "drive"} /\ past' = past /\ Auto_flag' = Auto_flag
         \/ /\ p \in {"button", "creep"} /\ pressed["arm"] /\ past' = past /\ Auto_flag' = Auto_flag
         \/ /\ p = "pause" /\ ~(AutoAt("circle") /\ pressed["auto"])
            /\ past' = past /\ Auto_flag' = Auto_flag
         \/ /\ p = "confirm" /\ past' = past /\ Auto_flag' = TRUE
<1>1. CASE RouteOver
  BY <1>1, Zenon DEF RouteOver, ArmIn, ArmAt
<1>2. CASE Work \/ Drive
  BY <1>2 DEF Work, Drive, ArmIn, ArmAt
<1>3. CASE Wait_Button8_Change
  BY <1>3 DEF Wait_Button8_Change, ArmIn, ArmAt
<1>4. CASE Pause
  BY <1>4 DEF Pause, ArmAt
<1>5. CASE Confirm
  BY <1>5 DEF Confirm, ArmAt
<1> QED
  BY <1>1, <1>2, <1>3, <1>4, <1>5, Zenon DEF ArmMove

(* Where the waits are, while the options and armtest_flag stay. *)
LEMMA SameWaits ==
  ASSUME flag' = flag, armtest_flag' = armtest_flag, arm'.n = arm.n
  PROVE  /\ (Awaits(arm.n))' = Awaits(arm.n) /\ (Sure(arm.n))' = Sure(arm.n)
         /\ (On("Circle_dyn"))' = On("Circle_dyn")
BY DEF Awaits, Sure, On

(* The arm goes past its wait only by way of RouteOver. *)
LEMMA WaitingMove ==
  ASSUME Token, TypeOK, Waiting, ArmMove
  PROVE  Waiting'
<1> DEFINE p == armaction(arm.n)[arm.at]
<1>1. /\ arm.n \in Stages /\ arm.at \in 1 .. Len(armaction(arm.n))
      /\ Points(armaction(arm.n), arm.n)
      /\ arm'.n = arm.n /\ arm'.at = arm.at + 1
      /\ UNCHANGED <<RouteFinish, CircleFinish, flag, armtest_flag>>
  BY ArmMoves
<1>2. /\ arm.at < Awaits(arm.n) => p = "work"
      /\ arm.at = Awaits(arm.n) => p = IF arm.n = 2 /\ On("Circle_dyn") THEN "circle"
                                       ELSE IF arm.n = 6 THEN "earlyroute" ELSE "route"
      /\ arm.at > Awaits(arm.n) => p \notin {"route", "circle", "earlyroute"}
  BY <1>1 DEF Points
<1>3. Awaits(arm.n) \in {1, 2} /\ arm.at \in Nat /\ Len(armaction(arm.n)) \in Nat /\ arm.n # 0
  BY <1>1 DEF Awaits, Points, Stages
<1>4. (Awaits(arm.n))' = Awaits(arm.n) /\ (On("Circle_dyn"))' = On("Circle_dyn")
  BY <1>1, SameWaits
<1>5. CASE p \in {"route", "circle", "earlyroute"}
  <2>1. arm.at = Awaits(arm.n)
    BY <1>2, <1>3, <1>5
  <2>2. past' = TRUE
    BY <1>5, ArmWay, Zenon
  <2>3. IF arm.n = 2 /\ On("Circle_dyn") THEN ~CircleFinish ELSE ~RouteFinish
    <3>1. CASE arm.n = 2 /\ On("Circle_dyn")
      <4>1. p = "circle"
        BY <1>2, <2>1, <3>1
      <4> QED
        BY <3>1, <4>1, ArmWay, Zenon
    <3>2. CASE ~(arm.n = 2 /\ On("Circle_dyn"))
      <4>1. p \in {"route", "earlyroute"}
        BY <1>2, <2>1, <3>2
      <4> QED
        BY <3>2, <4>1, ArmWay, Zenon
    <3> QED
      BY <3>1, <3>2
  <2> QED
    BY <1>1, <1>3, <1>4, <2>2, <2>3 DEF Waiting
<1>6. CASE p \notin {"route", "circle", "earlyroute"}
  <2>1. past' = past
    BY <1>6, ArmWay, Zenon
  <2>2. CASE past
    BY <1>1, <1>4, <2>1, <2>2 DEF Waiting
  <2>3. CASE ~past
    <3>1. arm.at <= Awaits(arm.n)
      BY <1>3, <2>3 DEF Waiting
    <3>2. arm.at # Awaits(arm.n)
      BY <1>2, <1>6
    <3>3. arm'.at <= Awaits(arm.n)
      BY <1>1, <1>3, <3>1, <3>2
    <3> QED
      BY <1>1, <1>4, <2>1, <2>3, <3>3 DEF Waiting
  <2> QED
    BY <2>2, <2>3
<1> QED
  BY <1>5, <1>6

(* Every step keeps Waiting. *)
LEMMA WaitingStep ==
  ASSUME Token, TypeOK, Waiting, [Next]_vars
  PROVE  Waiting'
<1>1. CASE Menu
  <2>1. arm = Idle /\ arm' = arm /\ past' = past
    BY <1>1, MenuIdle
  <2>2. arm.n = 0 /\ arm'.n = 0
    BY <2>1 DEF Idle
  <2> QED
    BY <2>1, <2>2 DEF Waiting
<1>2. CASE AutoStart
  <2>1. arm.n = 0 /\ arm' = arm /\ past' = past
    BY <1>2, AutoStarts, Zenon
  <2> QED
    BY <2>1 DEF Waiting
<1>3. CASE AutoMove
  <2>1. /\ UNCHANGED <<arm, past, flag, armtest_flag>>
        /\ (RouteFinish' => RouteFinish) /\ (CircleFinish' => CircleFinish)
    BY <1>3, AutoMoves DEF AutoMove, AutoArrive, AutoCircled, CamCircle_Static
  <2>2. (Awaits(arm.n))' = Awaits(arm.n) /\ (On("Circle_dyn"))' = On("Circle_dyn")
    BY <2>1, SameWaits
  <2> QED
    BY <2>1, <2>2 DEF Waiting
<1>4. CASE ArmStart
  <2>1. arm'.at = 1 /\ past' = FALSE
    BY <1>4, ArmStarts, Zenon
  <2> QED
    BY <2>1 DEF Waiting, Awaits
<1>5. CASE ArmMove
  BY <1>5, WaitingMove
<1>6. CASE ArmEnd
  <2>1. arm'.n = 0 /\ past' = FALSE
    BY <1>6, ArmEnds DEF Idle
  <2> QED
    BY <2>1 DEF Waiting
<1>7. CASE Aside
  <2>1. UNCHANGED <<arm, past, flag, armtest_flag, RouteFinish, CircleFinish>>
    BY <1>7, AsideStays
  <2>2. (Awaits(arm.n))' = Awaits(arm.n) /\ (On("Circle_dyn"))' = On("Circle_dyn")
    BY <2>1, SameWaits
  <2> QED
    BY <2>1, <2>2 DEF Waiting
<1>8. CASE Emergency
  BY <1>8 DEF Emergency, Waiting, Idle
<1> QED
  BY <1>1, <1>2, <1>3, <1>4, <1>5, <1>6, <1>7, <1>8, Steps

(* Every step keeps Sureness. *)
LEMMA SurenessStep ==
  ASSUME Token, TypeOK, Sureness, [Next]_vars
  PROVE  Sureness'
<1>1. CASE Menu
  <2>1. arm = Idle /\ UNCHANGED <<Auto_flag, confirmed>>
    BY <1>1, MenuIdle
  <2>2. arm.n \notin {2, 6}
    BY <2>1 DEF Idle
  <2> QED
    BY <2>1, <2>2 DEF Sureness
<1>2. CASE AutoStart \/ ArmStart
  <2>1. /\ arm.n = 0 /\ Auto_flag' = Auto_flag
        /\ confirmed = "stale" => confirmed' = "stale"
    BY <1>2, AutoStarts, ArmStarts, Zenon
  <2> QED
    BY <2>1 DEF Sureness
<1>3. CASE AutoMove \/ Press \/ UNCHANGED vars
  <2>1. UNCHANGED <<arm, Auto_flag, confirmed, flag, armtest_flag>>
    BY <1>3, AutoMoves DEF Press, vars
  <2>2. (Sure(arm.n))' = Sure(arm.n)
    BY <2>1, SameWaits
  <2> QED
    BY <2>1, <2>2 DEF Sureness
<1>4. CASE ArmMove
  <2> DEFINE p == armaction(arm.n)[arm.at]
  <2>1. /\ arm.n \in Stages /\ arm.at \in 1 .. Len(armaction(arm.n))
        /\ Points(armaction(arm.n), arm.n)
        /\ arm'.n = arm.n /\ arm'.at = arm.at + 1
        /\ UNCHANGED <<flag, armtest_flag>>
    BY <1>4, ArmMoves, Zenon
  <2>2. arm.n \in {2, 6} /\ arm.at = Sure(arm.n) => p = "confirm"
    BY <2>1 DEF Points
  <2>3. (Sure(arm.n))' = Sure(arm.n) /\ Sure(arm.n) \in Nat /\ arm.at \in Nat
    BY <2>1, SameWaits, SMTT(20) DEF Sure, Points
  <2>4. CASE p = "confirm"
    <3>1. Auto_flag' = TRUE
      BY <1>4, <2>4, ArmWay, Zenon
    <3> QED
      BY <3>1, Zenon DEF Sureness
  <2>5. CASE p # "confirm"
    <3>1. Auto_flag' = Auto_flag /\ confirmed' = confirmed
      BY <1>4, <2>5, ArmWay, ArmSure, Zenon
    <3>2. arm.n \in {2, 6} /\ arm.at <= Sure(arm.n) => arm'.at <= Sure(arm.n)
      BY <2>1, <2>2, <2>3, <2>5
    <3> QED
      BY <2>1, <2>3, <3>1, <3>2 DEF Sureness
  <2> QED
    BY <2>4, <2>5
<1>5. CASE ArmEnd
  <2>1. /\ arm.n \in Stages /\ arm.at \in 1 .. Len(armaction(arm.n))
        /\ Points(armaction(arm.n), arm.n) /\ armaction(arm.n)[arm.at] = "end"
        /\ UNCHANGED <<Auto_flag, confirmed>>
    BY <1>5, ArmEnds
  <2>2. ~(arm.n \in {2, 6} /\ arm.at <= Sure(arm.n))
    BY <2>1 DEF Points
  <2> QED
    BY <2>1, <2>2 DEF Sureness
<1>6. CASE EarlyConfirm
  <2>1. /\ arm.n # 0 /\ armaction(arm.n)[arm.at] \in {"early", "earlyroute"} /\ confirmed' = "stage"
        /\ UNCHANGED <<arm, flag, armtest_flag>>
    BY <1>6, Zenon DEF EarlyConfirm, ArmIn, ArmAt, armVars
  <2>2. /\ arm.n \in Stages /\ arm.at \in 1 .. Len(armaction(arm.n))
        /\ Points(armaction(arm.n), arm.n)
    BY <2>1, ArmInStage
  <2>3. arm.n \in {2, 6} /\ arm.at < Sure(arm.n)
    BY <2>1, <2>2 DEF Points
  <2>4. (Sure(arm.n))' = Sure(arm.n) /\ Sure(arm.n) \in Nat /\ arm.at \in Nat
    BY <2>1, <2>2, SameWaits, SMTT(20) DEF Sure, Points
  <2>5. arm.at <= Sure(arm.n)
    BY <2>3, <2>4
  <2> QED
    BY <2>1, <2>3, <2>4, <2>5 DEF Sureness
<1>7. CASE Emergency
  BY <1>7 DEF Emergency, Sureness
<1> QED
  BY <1>1, <1>2, <1>3, <1>4, <1>5, <1>6, <1>7, Steps DEF Aside

(* The second leg of a route is the camera circle, in stage 7 with its work   *)
(* next to it.                                                                *)
LEMMA CircleIs ==
  ASSUME TypeOK, auto.n # 0, auto.at = 2
  PROVE  /\ AutoAt("circle")
         /\ auto.n = 7 => ~On("WalkGround")
<1>1. auto.n \in Stages /\ 2 \in 1 .. Len(Route(auto.n))
  BY AutoIn
<1>2. Route(auto.n) = <<"path", "circle">>
  <2>1. CASE Len(Route(auto.n)) = 1
    BY <1>1, <2>1
  <2>2. Len(<<"path">>) = 1 /\ Len(<<"dyn">>) = 1
    OBVIOUS
  <2>3. CASE Len(Route(auto.n)) # 1
    BY <1>1, <2>2, <2>3, RouteForms
  <2> QED
    BY <2>1, <2>3
<1>3. Route(auto.n)[2] = "circle"
  BY <1>2
<1> QED
  BY <1>1, <1>3, RoutePoints DEF AutoAt

(* A step of the arm keeps Beside: the pause does not end before the       *)
(* circle does.                                                            *)
LEMMA BesideMove ==
  ASSUME Token, TypeOK, Waiting, Beside, ArmMove
  PROVE  Beside'
<1> DEFINE p == armaction(arm.n)[arm.at]
<1>1. /\ arm.n \in Stages /\ arm.at \in 1 .. Len(armaction(arm.n))
      /\ Points(armaction(arm.n), arm.n)
      /\ arm'.n = arm.n /\ arm'.at = arm.at + 1 /\ auto' = auto
      /\ pressed' = [pressed EXCEPT !["arm"] = FALSE]
  BY ArmMoves
<1>2. pressed'["arm"] = FALSE /\ pressed'["auto"] = pressed["auto"]
  BY <1>1, TypeParts DEF Values
<1> SUFFICES ASSUME arm.n = 7, auto.n # 0, auto.at = 2, past'
             PROVE  arm'.at \in {2, 3, 4} /\ (arm'.at = 4 => pressed["auto"])
  BY <1>1, <1>2 DEF Beside
<1>3. auto.n = 7
  BY DEF Token
<1>4. AutoAt("circle") /\ ~On("WalkGround")
  BY <1>3, CircleIs
<1>5. armaction(arm.n) = armaction7
  BY DEF armaction
<1>6. /\ arm.at = 2 => p = "work"
      /\ arm.at = 3 => p = "button"
      /\ arm.at = 4 => p = "pause"
  BY <1>4, <1>5, Arm7Circle
<1>7. CASE ~past
  <2>1. Awaits(arm.n) = 1
    BY DEF Awaits
  <2>2. arm.at = 1
    BY <1>1, <1>7, <2>1 DEF Waiting, Points
  <2> QED
    BY <1>1, <2>2
<1>8. CASE past
  <2>1. arm.at \in {2, 3, 4} /\ (arm.at = 4 => pressed["auto"])
        /\ (arm.at = 3 /\ pressed["arm"] => pressed["auto"])
    BY <1>8 DEF Beside
  <2>2. CASE arm.at = 2
    BY <1>1, <2>2
  <2>3. CASE arm.at = 3
    <3>1. pressed["arm"]
      BY <1>6, <2>3, ArmWay, Zenon
    <3> QED
      BY <1>1, <2>1, <2>3, <3>1
  <2>4. CASE arm.at = 4
    <3>1. ~(AutoAt("circle") /\ pressed["auto"])
      BY <1>6, <2>4, ArmWay, Zenon
    <3> QED
      BY <1>4, <2>1, <2>4, <3>1
  <2> QED
    BY <2>1, <2>2, <2>3, <2>4
<1> QED
  BY <1>7, <1>8

(* Every step keeps Beside. *)
LEMMA BesideStep ==
  ASSUME Token, TypeOK, Stage, Waiting, Beside, [Next]_vars
  PROVE  Beside'
<1>1. CASE Menu \/ AutoStart \/ ArmStart \/ ArmEnd \/ Emergency
  <2>1. arm'.n # 7 \/ past' = FALSE
    <3>1. CASE Menu
      BY <3>1, MenuIdle DEF Idle
    <3>2. CASE AutoStart
      <4>1. arm.n = 0 /\ arm' = arm
        BY <3>2, AutoStarts, Zenon
      <4> QED
        BY <4>1
    <3>3. CASE ArmStart \/ ArmEnd \/ Emergency
      BY <3>3, Zenon DEF ArmStart, ArmEnd, Emergency
    <3> QED
      BY <1>1, <3>1, <3>2, <3>3, Zenon
  <2> QED
    BY <2>1 DEF Beside
<1>2. CASE AutoMove
  <2>1. /\ UNCHANGED <<arm, past>>
        /\ \/ auto'.n = 0
           \/ auto.n \in Stages /\ auto'.n = auto.n /\ auto'.at = 2 /\ auto.at = 1
    BY <1>2, AutoMoves DEF Idle
  <2>2. CASE auto'.n = 0
    BY <2>2 DEF Beside
  <2>3. CASE auto.n \in Stages /\ auto.at = 1
    <3>1. RouteFinish
      BY <2>3 DEF Stage, Stages
    <3>2. ~(past /\ arm.n = 7)
      BY <3>1 DEF Waiting
    <3> QED
      BY <2>1, <3>2 DEF Beside
  <2> QED
    BY <2>1, <2>2, <2>3
<1>3. CASE ArmMove
  BY <1>3, BesideMove
<1>4. CASE EarlyConfirm
  <2>1. /\ arm.n # 0 /\ armaction(arm.n)[arm.at] \in {"early", "earlyroute"} /\ arm' = arm
    BY <1>4 DEF EarlyConfirm, ArmIn, ArmAt, armVars
  <2>2. /\ arm.n \in Stages /\ arm.at \in 1 .. Len(armaction(arm.n))
        /\ Points(armaction(arm.n), arm.n)
    BY <2>1, ArmInStage
  <2>3. arm.n \in {2, 6}
    BY <2>1, <2>2 DEF Points
  <2> QED
    BY <2>1, <2>3 DEF Beside
<1>5. CASE Press
  BY <1>5 DEF Press, Beside
<1>6. CASE UNCHANGED vars
  BY <1>6 DEF vars, Beside
<1> QED
  BY <1>1, <1>2, <1>3, <1>4, <1>5, <1>6, Steps DEF Aside

(* Every step keeps the invariants. *)
LEMMA MatchStep == Match /\ [Next]_vars => Match'
<1> SUFFICES ASSUME Match, [Next]_vars PROVE Match'
  OBVIOUS
<1>1. Token /\ TypeOK /\ Stage /\ Waiting /\ Circled /\ Sureness /\ Beside
  BY DEF Match
<1>2. Token' /\ TypeOK'
  BY <1>1, TokenStep, TypeStep
<1>3. Stage' /\ Waiting' /\ Circled'
  BY <1>1, StageStep, WaitingStep, CircledStep
<1>4. Sureness' /\ Beside'
  BY <1>1, SurenessStep, BesideStep
<1> QED
  BY <1>2, <1>3, <1>4 DEF Match

(* The invariants hold in every match. *)
LEMMA MatchHolds == Spec => []Match
BY MatchInit, MatchStep, PTL DEF Spec

(* The first leg of a route. *)
LEMMA FirstLeg ==
  ASSUME TypeOK, AutoAt("path") \/ AutoAt("dyn")
  PROVE  auto.n # 0 /\ auto.at = 1
<1>1. auto.n # 0 /\ Route(auto.n)[auto.at] \in {"path", "dyn"}
  BY DEF AutoAt
<1>2. auto.n \in Stages /\ auto.at \in 1 .. Len(Route(auto.n))
  BY <1>1, AutoIn
<1> QED
  BY <1>1, <1>2, RoutePoints

(* Why no work is done on the way. *)
LEMMA MatchPath == Match => PathOverUnlessStale
<1> SUFFICES ASSUME Match, past, AutoAt("path") \/ AutoAt("dyn") PROVE aborted /\ On("Circle_dyn")
  BY DEF PathOverUnlessStale, PathOverBeforeWork
<1>0. Token /\ TypeOK /\ Stage /\ Waiting /\ Circled /\ aborted \in BOOLEAN
  BY TypeParts DEF Match, Bits
<1>1. auto.n # 0 /\ auto.at = 1
  BY <1>0, FirstLeg
<1>2. RouteFinish
  BY <1>0, <1>1 DEF Stage
<1>3. arm.n = 2 /\ On("Circle_dyn") /\ ~CircleFinish
  BY <1>0, <1>2 DEF Waiting
<1>4. auto.n = 2
  BY <1>0, <1>1, <1>3 DEF Token
<1> QED
  BY <1>0, <1>3, <1>4 DEF Circled

(* Why only one thread drives. *)
LEMMA MatchDriver == Match => OneDriver
<1> SUFFICES ASSUME Match, AutoDrives, ArmDrives PROVE FALSE
  BY DEF OneDriver
<1>0. Token /\ TypeOK /\ Stage /\ Waiting /\ Beside
  BY DEF Match
<1>1. arm.n # 0 /\ armaction(arm.n)[arm.at] \in {"drive", "creep"}
  BY DEF ArmDrives, ArmIn, ArmAt
<1>2. /\ arm.n \in Stages /\ arm.at \in 1 .. Len(armaction(arm.n))
      /\ Points(armaction(arm.n), arm.n)
  BY <1>0, <1>1, ArmInStage
<1>3. arm.n # 2 /\ ~(arm.at < Awaits(arm.n)) /\ arm.at # Awaits(arm.n)
  BY <1>1, <1>2 DEF Points
<1>4. past
  <2>1. Awaits(arm.n) \in Nat /\ arm.at \in Nat
    BY <1>2 DEF Awaits, Points
  <2>2. ~(arm.at <= Awaits(arm.n))
    BY <1>3, <2>1
  <2> QED
    BY <1>0, <1>1, <2>2 DEF Waiting
<1>5. ~RouteFinish
  BY <1>0, <1>3, <1>4 DEF Waiting
<1>6. auto.n # 0 /\ auto.n = arm.n
  BY <1>0, <1>1 DEF AutoDrives, AutoAt, Token
<1>7. auto.at # 1
  BY <1>0, <1>5, <1>6 DEF Stage
<1>8. AutoAt("circle")
  BY <1>0, <1>7, FirstLeg DEF AutoDrives
<1>9. /\ auto.n \in Stages /\ auto.at \in 1 .. Len(Route(auto.n))
      /\ Route(auto.n)[auto.at] = "circle"
  BY <1>0, <1>6, <1>8, AutoIn DEF AutoAt
<1>10. auto.at = 2 /\ auto.n = 7 /\ ~On("WalkGround")
  BY <1>3, <1>6, <1>9, RoutePoints
<1>11. arm.at \in {2, 3, 4}
  BY <1>0, <1>4, <1>6, <1>10 DEF Beside
<1>12. armaction(arm.n) = armaction7
  BY <1>6, <1>10 DEF armaction
<1> QED
  BY <1>1, <1>10, <1>11, <1>12, Arm7Circle

(* Why a skipped confirmation was given before, or left by an emergency. *)
LEMMA MatchConfirmed == Match => SkipsOnlyIfConfirmed
BY DEF Match, Sureness, SkipsOnlyIfConfirmed

(* Whatever the options, up to the first emergency the arm gets past its wait *)
(* only when the base has ended the route of the stage; after one, unless the *)
(* camera circle is switched on (armaction.c, t_auto.c).                      *)
THEOREM PathBeforeWork == Spec => []PathOverUnlessStale
BY MatchHolds, MatchPath, PTL

(* Without the camera circle, whatever the other options, no upper-body work  *)
(* is done before the end of the route, emergencies included.                 *)
THEOREM WorksAfterThePath ==
  ASSUME "Circle_dyn" \notin Flags
  PROVE  Spec => []PathOverBeforeWork
<1>1. Match => PathOverBeforeWork
  <2> SUFFICES ASSUME Match PROVE PathOverBeforeWork
    OBVIOUS
  <2>1. ~On("Circle_dyn")
    BY TypeParts DEF Match, Values, On
  <2> QED
    BY <2>1, MatchPath DEF PathOverUnlessStale
<1> QED
  BY <1>1, MatchHolds, PTL

(* The auto thread and the arm thread never drive the base at the same time,  *)
(* whatever the options: the press that lets the arm go on ends the camera    *)
(* circle before the pause of the arm does (route.c, armaction.c).            *)
THEOREM BaseHasOneDriver == Spec => []OneDriver
BY MatchHolds, MatchDriver, PTL

(* The confirmation at the end of stages 2 and 6 is skipped only after a      *)
(* press in that stage; an emergency that leaves Auto_flag cleared spares one *)
(* confirmation, whenever it comes, and no more (armaction.c, t_emergency.c). *)
THEOREM ConfirmedBeforeSkip == Spec => []SkipsOnlyIfConfirmed
BY MatchHolds, MatchConfirmed, PTL
=============================================================================
