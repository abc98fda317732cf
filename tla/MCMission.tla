------------------------------ MODULE MCMission ------------------------------
(* Sets of options for the runs of Mission. *)
EXTENDS Mission

\* In every stage, all combinations of the options its code looks at: the
\* options of one group belong to different stages and go together.
Groups ==
  { {"WalkGround"}, {"debug"}, {"Circle_ss1", "Laser_PW"},
    {"Circle_dyn", "Pole", "Handover_ss", "Handover_pw", "Swing", "Circle_jg"} }
StageSettings == {UNION groups : groups \in SUBSET Groups}

DynFlags == {"Circle_dyn"}
DynSettings == SUBSET DynFlags
=============================================================================
