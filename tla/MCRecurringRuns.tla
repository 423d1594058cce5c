--------------------------- MODULE MCRecurringRuns ---------------------------
(* Model-checking instance of RecurringRuns, with the calendar checked on  *)
(* the starts of two winters, one of them of a leap year.                  *)
EXTENDS RecurringRuns

S == INSTANCE RecurringSchedule

CONSTANTS r1, r2

MCRow == Definition \cup (Definition \X (0 .. LastDay)) \cup {Company}
OneLegacy == {<<r1, 1>>}

Starts == {d \in [month : 0 .. 2 \cup 11 .. 14, day : {1, 15, 28, 29, 30, 31}] :
             d.day <= S!MonthLength(d.month)}

Schedules == [start : Starts, number : {1, 2, 5, 12}, unit : {"days", "weeks", "months", "years"}]

ASSUME SchedulesKept ==
  /\ \A s \in Schedules : S!ScheduleKept(s, 14)
  /\ S!KthDate([start |-> [month |-> 0, day |-> 31], number |-> 1, unit |-> "months"], 1)
       = [month |-> 1, day |-> 29]
  /\ \A s \in Schedules : \A a, b \in Starts :
       S!NotAfter(a, b) => /\ S!Before(a, S!NextDate(s, a))
                           /\ S!NotAfter(S!NextDate(s, a), S!NextDate(s, b))
===============================================================================
