------------------------------ MODULE Retention ------------------------------
(***************************************************************************)
(* Which backups stay, and when the next is made: GenerationalScheme of    *)
(* model/backupscheme.py with util/rangelookup.py, and Model._nextBackup.  *)
(*                                                                         *)
(* Time is counted in parts of a day.  The calendar is a parameter: how    *)
(* long a week, and the months of a year, are makes no difference to the   *)
(* code.  Local time is the only time; the clock does not change.          *)
(***************************************************************************)
EXTENDS Integers, Sequences, FiniteSets, FiniteSetsExt, SequencesExt

CONSTANTS
  Configs,      \* the settings: GenConfig with the count of the store
  Schedules,    \* DAYS_BETWEEN_BACKUPS and BACKUP_TIME_OF_DAY
  PerDay,       \* moments in a day
  WeekLength, MonthLengths,
  Cooldown,     \* moments after the start, or a sign-in, without a backup
  Start, End,   \* bound: the first and the last moment
  MaxExtra      \* bound: backups made by hand, restarts, lost sessions and clicks

ASSUME CalendarAssumption ==
  /\ {PerDay, WeekLength} \subseteq Nat \ {0} /\ Cooldown \in Nat
  /\ MonthLengths \in Seq(Nat \ {0}) /\ MonthLengths # <<>>
ASSUME BoundsAssumption ==
  /\ Start \in Nat /\ End \in Nat /\ MaxExtra \in Nat
  /\ Start <= End

\* At most every kind is kept, from a day of the week, month or year on; a count is
\* of backups (the schemas of config/settings.py).
ASSUME ConfigsAssumption ==
  \A c \in Configs :
    /\ {c.days, c.weeks, c.months, c.years, c.count} \subseteq Nat
    /\ c.dayOfWeek \in 0..(WeekLength - 1) /\ {c.dayOfMonth, c.dayOfYear} \subseteq Nat \ {0}
    /\ c.aggressive \in BOOLEAN

NoTime == -1

\* The days between backups may be a fraction, hence a wait in moments; with none
\* no backup is ever due.  A time of day is one of a day.
ASSUME SchedulesAssumption ==
  \A s \in Schedules : s.wait \in Nat \ {0} /\ s.timeOfDay \in {NoTime} \union 0..(PerDay - 1)

VARIABLES
  config, schedule,
  now,
  started,   \* when the add-on was started
  rested,    \* when the last cooldown began
  hurried,   \* ignore_startup_delay
  signedIn,  \* the destination needs no configuration: a session, or no upload
  regained,  \* history: it came to need none at this moment
  backups,   \* when the backups that are there were made
  made,      \* history: and those that were ever made
  extra

settings == <<config, schedule>>
session  == <<started, rested, hurried, signedIn, regained>>
vars     == <<settings, now, session, backups, made, extra>>

Init ==
  /\ config \in Configs /\ schedule \in Schedules
  /\ now = Start /\ started = Start /\ rested = Start
  /\ hurried = FALSE /\ signedIn = TRUE /\ regained = FALSE
  /\ backups = {} /\ made = {} /\ extra = 0

-----------------------------------------------------------------------------
(* RangeLookup                                                             *)

\* The ranges of indices a search can come to, each a pair of first and last.
Ranges(s) == {r \in (1..Len(s)) \X (1..Len(s)) : r[1] <= r[2]}

\* The bisection for the first element in a range that is not before val.
FirstSearch(s, val) ==
  LET search[r \in Ranges(s)] ==
        LET mid == (r[1] + r[2]) \div 2
        IN  IF r[1] = r[2] THEN r[1]
            ELSE IF s[mid] < val THEN search[<<mid + 1, r[2]>>] ELSE search[<<r[1], mid>>]
  IN  search

FirstGreaterOrEqual(s, val) ==
  IF Last(s) < val THEN Len(s) + 1 ELSE FirstSearch(s, val)[<<1, Len(s)>>]

\* A range whose first element is not after val.
RangesFrom(s, val) == {r \in Ranges(s) : s[r[1]] <= val}

\* Mutation of LastSearch: it stops when two are left.
LastSearchOfTwo(s, val) ==
  LET search[r \in RangesFrom(s, val)] ==
        LET mid == (r[1] + r[2]) \div 2
        IN  IF r[1] = r[2] \/ r[1] = mid THEN r[1]
            ELSE IF s[mid] > val THEN search[<<r[1], mid - 1>>] ELSE search[<<mid, r[2]>>]
  IN  search

\* The bisection for the last that is not after val; two that are left need care.
LastSearch(s, val) ==
  LET search[r \in RangesFrom(s, val)] ==
        LET mid == (r[1] + r[2]) \div 2
        IN  IF r[1] = r[2] THEN r[1]
            ELSE IF s[mid] > val THEN search[<<r[1], mid - 1>>]
            ELSE IF r[1] # mid THEN search[<<mid, r[2]>>]
            ELSE IF s[r[2]] <= val THEN r[2] ELSE r[1]
  IN  search

LastLessOrEqual(s, val) ==
  IF s[1] > val THEN 0 ELSE LastSearch(s, val)[<<1, Len(s)>>]

Matches(s, from, to) ==
  {s[i] : i \in FirstGreaterOrEqual(s, from)..LastLessOrEqual(s, to)}

-----------------------------------------------------------------------------
(* The calendar                                                            *)

DayOf(t) == t \div PerDay

\* The days of a year before the month after month m.
DaysBefore[m \in 0..Len(MonthLengths)] ==
  IF m = 0 THEN 0 ELSE DaysBefore[m - 1] + MonthLengths[m]

YearLength == DaysBefore[Len(MonthLengths)]
YearOf(d) == d \div YearLength
FirstDay(year, month) == year * YearLength + DaysBefore[month - 1]
MonthOf(d) == CHOOSE m \in 1..Len(MonthLengths) :
                d - FirstDay(YearOf(d), m) \in 0..(MonthLengths[m] - 1)
Weekday(d) == d % WeekLength

-----------------------------------------------------------------------------
(* GenerationalScheme                                                      *)

\* A Partition is a range of days, start to before end, with the one it prefers.
Partition(start, end, prefer, deleteOnly) ==
  [start |-> start, end |-> end, prefer |-> prefer, deleteOnly |-> deleteOnly]

\* getGenerationalConfig(): at least the backup of the last day is kept.
Days == IF config.days <= 1 THEN 1 ELSE config.days

\* The partitions of each kind, counted back from the day of the last backup.
DayPartition(last, x) == Partition(last - x, last - x + 1, last - x, x >= Days)

\* A week counts from the day of the week that is set to its end.
WeekPartition(last, x) ==
  LET monday == last - Weekday(last) - WeekLength * x
      start  == monday + config.dayOfWeek
  IN  Partition(start, monday + WeekLength, start, x >= config.weeks)

\* Mutation of MonthPartition: the turn of the year is one month late.
MonthPartitionOff(last, x) ==
  LET back   == x % Len(MonthLengths)
      wraps  == IF MonthOf(last) - back < 1 THEN 1 ELSE 0
      month  == MonthOf(last) - back + wraps * Len(MonthLengths)
      start  == FirstDay(YearOf(last) - x \div Len(MonthLengths), month)
  IN  Partition(start, start + MonthLengths[month], start + config.dayOfMonth - 1,
                x >= config.months)

\* Months are counted back over the turn of the year.  The preferred day may
\* lie behind the end of its month.
MonthPartition(last, x) ==
  LET back   == x % Len(MonthLengths)
      wraps  == IF MonthOf(last) - back < 1 THEN 1 ELSE 0
      month  == MonthOf(last) - back + wraps * Len(MonthLengths)
      year   == YearOf(last) - x \div Len(MonthLengths) - wraps
      start  == FirstDay(year, month)
  IN  Partition(start, start + MonthLengths[month], start + config.dayOfMonth - 1,
                x >= config.months)

YearPartition(last, x) ==
  LET start == FirstDay(YearOf(last) - x, 1)
  IN  Partition(start, start + YearLength, start + config.dayOfYear - 1, x >= config.years)

\* One partition more than is kept is made of each kind, for the naming.
OneMoreThan(n) == IF n > 0 THEN 0..n ELSE {}

Partitions(last) ==
  {DayPartition(last, x) : x \in OneMoreThan(Days)}
    \union {WeekPartition(last, x) : x \in OneMoreThan(config.weeks)}
    \union {MonthPartition(last, x) : x \in OneMoreThan(config.months)}
    \union {YearPartition(last, x) : x \in OneMoreThan(config.years)}

\* Mutation of Select: the first backup of the preferred day.
SelectFirst(s, p) ==
  LET options   == Matches(s, p.start * PerDay, p.end * PerDay - 1)
      preferred == {t \in options : DayOf(t) = p.prefer}
  IN  IF preferred # {} THEN {Min(preferred)}
      ELSE IF options # {} THEN {Min(options)} ELSE {}

\* The last backup of the preferred day, or else the first of the partition.
Select(s, p) ==
  LET options   == Matches(s, p.start * PerDay, p.end * PerDay - 1)
      preferred == {t \in options : DayOf(t) = p.prefer}
  IN  IF preferred # {} THEN {Max(preferred)}
      ELSE IF options # {} THEN {Min(options)} ELSE {}

\* In the order of their dates: before the i-th and itself there are i of them.
Sorted(S) ==
  LET byRank == [i \in 1..Cardinality(S) |->
                   CHOOSE t \in S : Cardinality({u \in S : u <= t}) = i]
  IN  SubSeq(byRank, 1, Cardinality(S))

Keepers(S) ==
  LET s == Sorted(S)
  IN  UNION {Select(s, p) : p \in {q \in Partitions(DayOf(Last(s))) : ~q.deleteOnly}}

\* getOldest(): who goes next, if anyone.  First what no partition keeps, with
\* "aggressive" at once, then the oldest that one keeps.
Oldest(S) ==
  LET keepers == Keepers(S)
      extras  == S \ keepers
      over    == Cardinality(S) > config.count
  IN  IF S = {} THEN {}
      ELSE IF extras # {} /\ (config.aggressive \/ over) THEN {Min(extras)}
      ELSE IF extras = {} /\ over THEN {Min(keepers)}
      ELSE {}

-----------------------------------------------------------------------------
(* Model._nextBackup                                                       *)

\* Mutation of FromLast: the days are counted before the time of day is asked.
FromLastDay ==
  LET last == Max(made) IN
  IF made = {} THEN started
  ELSE IF schedule.timeOfDay = NoTime THEN last + schedule.wait
  ELSE (DayOf(last + schedule.wait) + 1) * PerDay + schedule.timeOfDay

\* Mutation of FromLast: a backup made at the time of day is taken for one before it.
FromLastAgain ==
  LET last == Max(made)
      thatDay == DayOf(last) * PerDay + schedule.timeOfDay
  IN
  IF made = {} THEN started
  ELSE IF schedule.timeOfDay = NoTime THEN last + schedule.wait
  ELSE IF last <= thatDay THEN thatDay
  ELSE (DayOf(last) + schedule.wait \div PerDay) * PerDay + schedule.timeOfDay

\* The first backup is due at the start.  With a time of day, one made before
\* it is followed by one on the same day, and a fraction of a day is dropped.
FromLast ==
  LET last == Max(made)
      thatDay == DayOf(last) * PerDay + schedule.timeOfDay
  IN
  IF made = {} THEN started
  ELSE IF schedule.timeOfDay = NoTime THEN last + schedule.wait
  ELSE IF last < thatDay THEN thatDay
  ELSE (DayOf(last) + schedule.wait \div PerDay) * PerDay + schedule.timeOfDay

\* None is planned while Proton Drive is to be used and no one is signed in.
Planned == IF signedIn THEN FromLast ELSE NoTime

\* Nothing is made too soon after the start or a sign-in, unless the user asked
\* not to wait.
NextBackup ==
  LET cool == rested + Cooldown IN
  IF Planned = NoTime \/ hurried THEN Planned
  ELSE IF Planned <= now /\ now < cool THEN cool
  ELSE IF cool > Planned THEN cool ELSE Planned

Due == NextBackup # NoTime /\ NextBackup <= now

-----------------------------------------------------------------------------
(* A store over time                                                       *)

\* Model.sync purges until nothing is left to purge, one backup at a time, and
\* only with a session, ...
Purge(gone) ==
  /\ gone # {}
  /\ backups' = backups \ gone
  /\ UNCHANGED <<settings, now, session, made, extra>>

MakeNow == backups' = backups \union {now} /\ made' = made \union {now}

\* ... and makes the backup that is due.  No other action comes before the end
\* of a purge.
Make ==
  /\ now \notin made
  /\ Due /\ MakeNow
  /\ UNCHANGED <<settings, now, session, extra>>

MakeByHand ==
  /\ now \notin made
  /\ extra < MaxExtra /\ extra' = extra + 1 /\ MakeNow
  /\ UNCHANGED <<settings, now, session>>

Restart ==
  /\ started < now /\ extra < MaxExtra /\ extra' = extra + 1
  /\ started' = now /\ rested' = now /\ hurried' = FALSE
  /\ UNCHANGED <<settings, now, signedIn, regained, backups, made>>

\* The user signs out, or Proton ends the session.
SignOut ==
  /\ signedIn /\ extra < MaxExtra /\ extra' = extra + 1
  /\ signedIn' = FALSE
  /\ UNCHANGED <<settings, now, started, rested, hurried, regained, backups, made>>

\* markAuthChanged begins a cooldown.  A session that is found to work again, or
\* an upload that is turned off, begins none.
SignIn ==
  /\ ~signedIn /\ signedIn' = TRUE /\ regained' = TRUE
  /\ rested' \in {rested, now}
  /\ UNCHANGED <<settings, now, started, hurried, backups, made, extra>>

\* ignoreStartupDelay, until the next restart.  The page offers it in a cooldown.
Hurry ==
  /\ ~hurried /\ hurried' = TRUE /\ now < rested + Cooldown
  /\ extra < MaxExtra /\ extra' = extra + 1
  /\ UNCHANGED <<settings, now, started, rested, signedIn, regained, backups, made>>

\* A sync is never far: nothing is left to do when time goes on, or as many
\* backups as a moment can hold are made.
Tick ==
  /\ now < End /\ now' = now + 1 /\ regained' = FALSE
  /\ ~Due \/ now \in made
  /\ UNCHANGED <<settings, started, rested, hurried, signedIn, backups, made, extra>>

Next ==
  LET gone == IF signedIn THEN Oldest(backups) ELSE {}
  IN  \/ Purge(gone)
      \/ gone = {} /\ (Make \/ MakeByHand \/ Restart \/ SignOut \/ SignIn \/ Hurry \/ Tick)

Spec == Init /\ [][Next]_vars

-----------------------------------------------------------------------------
(* Properties                                                              *)

\* Config.generationalSlotCount().
Slots == Days + config.weeks + config.months + config.years

\* Of the last n spans of a kind, numbered by Span, each in which one of the
\* days D had a backup has one still.
Kept(Span(_), n, D) ==
  \A m \in made : LET span == Span(DayOf(m)) IN
    DayOf(m) \in D /\ Span(DayOf(Max(made))) - span < n =>
      \E b \in backups : DayOf(b) \in D /\ Span(DayOf(b)) = span

\* With room for all slots, no slot is lost: a day, week, month or year that
\* is to be kept and had a backup has one still, although each purge looks at
\* the slots of its own day only (backupscheme lines 111-226).
SlotsKept ==
  config.count >= Slots /\ made # {} =>
    LET days  == DayOf(Start)..DayOf(End)
        Day(d)   == d
        Week(d)  == d \div WeekLength
        Month(d) == YearOf(d) * Len(MonthLengths) + MonthOf(d)
        Year(d)  == YearOf(d)
    IN  /\ Kept(Day, Days, days)
        /\ Kept(Week, config.weeks, {d \in days : Weekday(d) >= config.dayOfWeek})
        /\ Kept(Month, config.months, days)
        /\ Kept(Year, config.years, days)

\* Whatever the settings, the newest backup stays (days is at least one, config
\* lines 244-246): or every sync would make one and delete it.
NewestStays == config.count > 0 /\ made # {} => Max(made) \in backups

\* The bisection finds what a search would, from one element up (rangelookup
\* lines 24-56).
LookupFinds ==
  backups # {} =>
    LET s == Sorted(backups)
    IN  \A from, to \in (Min(backups) - 1)..(Max(backups) + 1) :
          Matches(s, from, to) = {t \in backups : from <= t /\ t <= to}

\* With a session, the newest backup is never older than the days between backups,
\* or than a day if these are fewer and a time of day is set, except in the cooldown
\* after a start or a sign-in: an add-on that is restarted, or signed in, again and
\* again within it makes none.  The moment a session is found again is that of the
\* backup it lets be made (_nextBackup lines 151-193, markAuthChanged).
BackupsKeepComing ==
  LET longest == IF schedule.timeOfDay # NoTime /\ schedule.wait < PerDay THEN PerDay
                 ELSE schedule.wait
  IN  made # {} /\ signedIn =>
        now - Max(made) <= longest \/ now <= rested + Cooldown \/ regained

\* "How often to create a new backup" (DOCS.md line 31): when one has been made,
\* no other is due at once, on the hour of the time of day or not.  Not so with
\* less than a day between backups and a time of day: each is followed by the next
\* as soon as there is a sync, because line 171 drops the fraction of the day.
OneIsEnough ==
  schedule.timeOfDay = NoTime \/ schedule.wait >= PerDay =>
    (now \in made => ~Due)
=============================================================================
