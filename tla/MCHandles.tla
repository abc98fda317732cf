------------------------------ MODULE MCHandles ------------------------------
(* Small instances of Handles: the limit of 60 sleeps is cut to a few.      *)
EXTENDS Handles

Move == [stick |-> TRUE, b9 |-> FALSE, b6 |-> FALSE]
Alone9Brake6 == [stick |-> TRUE, b9 |-> TRUE, b6 |-> TRUE]

(* A match with these faults, single-handle setting and frames. *)
Match(faults, single, frames) == [single |-> single, faults |-> faults, frames |-> frames]

\* Both links fail; or one, and the key is pressed (the sticks, which are of
\* no account to the mode and to the loss of a handle, stay centred); or that
\* of X, and the operators drive and change the mode.
AllMatches ==
  { Match({"X", "Y"}, FALSE, {Centred}),
    Match({"X", "key"}, FALSE, {Centred}),
    Match({"Y", "key"}, FALSE, {Centred}),
    Match({"X"}, FALSE, {Move, Alone9Brake6}),
    Match({"X"}, TRUE, {Move, Alone9Brake6}) }

\* Both links fail.
LostMatches == { Match({"X", "Y"}, FALSE, {Move}) }
=============================================================================
