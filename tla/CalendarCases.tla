---------------------------- MODULE CalendarCases ----------------------------
(* Instances of CalendarEvents for TLC. *)
EXTENDS CalendarEvents

\* Tuesday's first hour of this week and Monday's second hour of the next.
TwoOptions == {[day |-> 1, tick |-> 0, week |-> 0], [day |-> 0, tick |-> 1, week |-> 1]}

\* Monday at noon and Sunday at midnight, with two ticks a day.
MondayAndSunday == {1, 12}
=============================================================================
