---------------------------- MODULE MCReminders ----------------------------
(***************************************************************************)
(* A reminder that repeats and one that does not, in a pane whose agent is *)
(* frozen after two units of time.                                         *)
(***************************************************************************)
EXTENDS Reminders

Repeats == [i \in Ids |-> IF i = "r" THEN 1 ELSE 0]

=============================================================================
