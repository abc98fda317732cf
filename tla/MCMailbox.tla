------------------------------ MODULE MCMailbox ------------------------------
(* Small instances of Mailbox: two senders and one or two receivers of     *)
(* different priority, a mailbox of two slots.                             *)
EXTENDS Mailbox

CONSTANTS s1, s2, r1, r2

Priorities == [t \in Threads |-> IF t \in {s1, r2} THEN 1 ELSE 2]
=============================================================================
