----------------------------- MODULE MCEventSchedule -----------------------------
(***************************************************************************)
(* EventSchedule with one event, made as a one-off with both its reminders *)
(* to come, or as a template whose rule began before the clock does.       *)
(* A day is a few instants and a month a day or two: what matters is that  *)
(* several occurrences lie within the horizon, that a month is too short   *)
(* for the date of the rule, and that a repair, which moves rows by one,   *)
(* can move a row onto an instant another one holds.                       *)
(***************************************************************************)
EXTENDS EventSchedule

Old == -2

\* A month of one day and one of two, in turn.
Calendar == [m \in 0 .. 2 |-> IF m = 2 THEN 3 ELSE m]
================================================================================
