--------------------------- MODULE PrecacheTiming ---------------------------
(***************************************************************************)
(* When the next sync is due (Coordinator.nextSyncAttempt, util/backoff.py) *)
(* and, before it, the precache (model/destinationprecache.py): it asks    *)
(* Proton Drive for its listing at a random moment of the last             *)
(* CACHE_WARMUP_MAX_SECONDS before the next sync, once, and not for a      *)
(* while after an error.                                                   *)
(*                                                                         *)
(* Time is counted in minutes, the interval of the worker.                 *)
(***************************************************************************)
EXTENDS Integers

CONSTANTS
  WarmupMax,      \* setting cache_warmup_max_seconds, in minutes
  ErrorTimeout,   \* setting cache_warmup_error_timeout, in minutes
  Inflation,      \* how much longer timedelta makes that timeout
  Base,           \* the second wait after errors, 10 seconds in the code
  MaxBackoff,     \* setting max_backoff_seconds, in minutes
  Intervals,      \* what nextSyncCheckOffset() may come to, in minutes
  MaxFailures,    \* bound: failed syncs
  Horizon         \* bound: the time that passes

ASSUME TimesAssumption ==
  /\ {WarmupMax, ErrorTimeout, Base, MaxBackoff, MaxFailures, Horizon} \subseteq Nat
  /\ Intervals \subseteq Nat
\* timedelta(x) is x days, and the setting is in seconds: 86400 in the code.
ASSUME InflationAssumption == Inflation \in Nat \ {0}

VARIABLES
  now,
  last,       \* GlobalInfo: the last end of a sync, [at, failed]
  counter,    \* Backoff._counter
  offset,     \* nextSyncCheckOffset(), drawn anew at each success
  backup,     \* nextBackupTime(): at most one
  jitter,     \* CACHE_WARMUP_MAX_SECONDS * _offset
  cache,      \* _cache: at most one [until, read], read being when
  fetch,      \* get() in flight: at most one [next, read], read when it has
  lastError,  \* _last_error: at most one time
  running,    \* at most one, the running sync: [start, listing], start being its
              \*   `now`, and listing when its copy of the listing was read
  failures    \* history: failed syncs since the last good one, and before

schedule == <<last, counter, offset, backup>>
precache == <<jitter, cache, fetch, lastError>>
timingVars == <<now, schedule, precache, running, failures>>

AtMostOne(S) == {{}} \union {{x} : x \in S}
Clock == 0..Horizon
Times == 0..(Horizon + WarmupMax + 1)

TimingTypeOK ==
  /\ now \in Clock /\ jitter \in 0..WarmupMax
  /\ last \in [at : Clock, failed : BOOLEAN]
  /\ counter \in Nat /\ offset \in Intervals /\ backup \in AtMostOne(Clock)
  /\ cache \in AtMostOne([until : Times, read : Clock])
  /\ fetch \in AtMostOne([next : Times, read : AtMostOne(Clock)])
  /\ lastError \in AtMostOne(Clock)
  /\ running \in AtMostOne([start : Clock, listing : AtMostOne(Clock)])
  /\ failures \in [row : 0..MaxFailures, all : 0..MaxFailures]

\* The add-on starts, which counts as a success, and no error is known.
TimingInit ==
  /\ now = 0 /\ last = [at |-> 0, failed |-> FALSE] /\ counter = 0 /\ offset \in Intervals
  /\ backup \in AtMostOne(Clock)
  /\ jitter \in 0..WarmupMax /\ cache = {} /\ fetch = {} /\ lastError = {}
  /\ running = {} /\ failures = [row |-> 0, all |-> 0]

Tick == now < Horizon /\ now' = now + 1 /\ UNCHANGED <<schedule, precache, running, failures>>

-----------------------------------------------------------------------------
(* The schedule                                                            *)

AtMost(x, max) == IF x < max THEN x ELSE max

\* Mutation of Peek: there is no first wait.
PeekFromZero(n) == IF n <= 2 THEN 0 ELSE AtMost(Base * 2^AtMost(n - 2, 20), MaxBackoff)

\* Backoff.peek() after the n-th error: none, then twice as long each time, up
\* to MaxBackoff.  MAX_FACTOR is 20.
Peek(n) == IF n = 1 THEN 0 ELSE AtMost(Base * 2^AtMost(n - 2, 20), MaxBackoff)

\* nextSyncAttempt().
NextSync ==
  IF last.failed THEN last.at + Peek(counter)
  ELSE LET times == {last.at + offset} \union backup
       IN  CHOOSE t \in times : \A u \in times : t <= u

-----------------------------------------------------------------------------
(* The precache                                                            *)

\* cached(): what may be used by who asks for this date.
Cached(date) == {c \in cache : c.until >= date}

\* The error timeout of getNextWarmDate is over.
Forgiven == \A e \in lastError : now >= e + ErrorTimeout * Inflation

\* checkForSmoothing, up to its await: the next sync lies ahead, and the random
\* moment before it has come.
Check ==
  /\ WarmupMax # 0 /\ fetch = {} /\ Cached(now) = {} /\ Forgiven
  /\ \E next \in (now + 1)..(now + jitter) :
       next = NextSync /\ fetch' = {[next |-> next, read |-> {}]}
  /\ UNCHANGED <<now, schedule, jitter, cache, lastError, running, failures>>

\* Proton Drive answers; the sidecars may take some more time.
Read ==
  /\ \E f \in fetch : f.read = {} /\ fetch' = {[f EXCEPT !.read = {now}]}
  /\ UNCHANGED <<now, schedule, jitter, cache, lastError, running, failures>>

\* Mutation of Fetched: the answer is good until the sync that is next by now.
FetchedForTheNext ==
  /\ \E f \in fetch, t \in 0..now :
       f.read = {t} /\ cache' = {[until |-> AtMost(NextSync, Horizon) + 1, read |-> t]}
  /\ fetch' = {} /\ jitter' \in 0..WarmupMax
  /\ UNCHANGED <<now, schedule, lastError, running, failures>>

Fetched ==
  /\ \E f \in fetch, t \in 0..now :
       f.read = {t} /\ cache' = {[until |-> f.next + 1, read |-> t]}
  /\ fetch' = {} /\ jitter' \in 0..WarmupMax
  /\ UNCHANGED <<now, schedule, lastError, running, failures>>

FetchFails ==
  /\ fetch # {} /\ fetch' = {}
  /\ lastError' = IF ErrorTimeout # 0 THEN {now} ELSE lastError
  /\ jitter' \in 0..WarmupMax
  /\ UNCHANGED <<now, schedule, cache, running, failures>>

Clear == cache' = {} /\ jitter' \in 0..WarmupMax

\* A request of the user clears the cache.
UserClears ==
  /\ cache # {} /\ Clear
  /\ UNCHANGED <<now, schedule, fetch, lastError, running, failures>>

-----------------------------------------------------------------------------
(* Syncs, due or triggered, use what is cached, and then it is cleared     *)

\* _sync gives its model the time at which it starts.
SyncStarts ==
  /\ running = {} /\ running' = {[start |-> now, listing |-> {}]}
  /\ UNCHANGED <<now, schedule, precache, failures>>

\* _syncBackups: after the awaits of preSync and of Home Assistant's get(), the sync
\* asks for what is good at its start.  Without one, or if it is empty, it asks Proton
\* Drive.
Uses ==
  /\ \E s \in running : s.listing = {} /\ \E t \in {c.read : c \in Cached(s.start)} \union {now} :
       running' = {[s EXCEPT !.listing = {t}]}
  /\ UNCHANGED <<now, schedule, precache, failures>>

\* Without a destination that is enabled nothing is asked for.
SyncEndsWell ==
  /\ running # {} /\ running' = {} /\ Clear
  /\ last' = [at |-> now, failed |-> FALSE] /\ counter' = 0
  /\ offset' \in Intervals
  /\ failures' = [failures EXCEPT !.row = 0]
  /\ UNCHANGED <<now, backup, fetch, lastError>>

\* handleError: an error that is worth a retry, or that only the user can end.
SyncEndsBadly ==
  /\ failures.all < MaxFailures
  /\ running # {} /\ running' = {} /\ Clear
  /\ last' = [at |-> now, failed |-> TRUE]
  /\ counter' \in {counter + 1, 100}
  /\ failures' = [row |-> failures.row + 1, all |-> failures.all + 1]
  /\ UNCHANGED <<now, offset, backup, fetch, lastError>>

\* A backup that is made or gone, or new settings, move the next backup.
Reschedule ==
  /\ backup' \in AtMostOne(Clock) /\ backup' # backup
  /\ UNCHANGED <<now, last, counter, offset, precache, running, failures>>

TimingNext == \/ Tick \/ Check \/ Read \/ Fetched \/ FetchFails \/ UserClears
        \/ SyncStarts \/ Uses \/ SyncEndsWell \/ SyncEndsBadly \/ Reschedule

TimingSpec == TimingInit /\ [][TimingNext]_timingVars

-----------------------------------------------------------------------------
(* Properties                                                              *)

\* However the schedule moves and however long get() takes, also while a sync waits
\* for Home Assistant, the listing a sync works with was, when the sync started, no
\* older than the warmup time and the minute of grace (lines 49-56, 66-76).
UsedIsRecent == \A s \in running : \A t \in s.listing : s.start - t <= WarmupMax + 1

\* A sync that fails again and again is tried again at once no more than one
\* time, and never later than MaxBackoff after its last error, whatever kinds of
\* error follow each other (backoff.py lines 20-42, handleError lines 222-238).
RetriesSpaced ==
  last.failed =>
    NextSync - last.at \in (IF failures.row = 1 THEN 0 ELSE AtMost(Base, MaxBackoff))..MaxBackoff
=============================================================================
