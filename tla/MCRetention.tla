----------------------------- MODULE MCRetention -----------------------------
EXTENDS Retention

MCConfigs ==
  {[days |-> 2, weeks |-> 2, months |-> 0, years |-> 0, dayOfWeek |-> 1, dayOfMonth |-> 1,
    dayOfYear |-> 1, aggressive |-> FALSE, count |-> 4],
   [days |-> 0, weeks |-> 0, months |-> 3, years |-> 1, dayOfWeek |-> 0, dayOfMonth |-> 4,
    dayOfYear |-> 2, aggressive |-> FALSE, count |-> 5],
   [days |-> 1, weeks |-> 1, months |-> 2, years |-> 0, dayOfWeek |-> 2, dayOfMonth |-> 3,
    dayOfYear |-> 1, aggressive |-> TRUE, count |-> 4],
   [days |-> 0, weeks |-> 2, months |-> 0, years |-> 1, dayOfWeek |-> 0, dayOfMonth |-> 1,
    dayOfYear |-> 1, aggressive |-> TRUE, count |-> 1]}

\* Every day at a time; every day and a half; and half a day, with a time of day.
MCSchedules == {[wait |-> 2, timeOfDay |-> 1], [wait |-> 3, timeOfDay |-> NoTime],
                [wait |-> 1, timeOfDay |-> 1]}
MCMonthLengths == <<3, 4, 3>>
=============================================================================
