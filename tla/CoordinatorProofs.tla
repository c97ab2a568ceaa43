-------------------------- MODULE CoordinatorProofs --------------------------
(***************************************************************************)
(* When the add-on syncs.  First SyncTrigger: syncs and the requests of    *)
(* the web UI exclude each other, for any number of triggers, requests and *)
(* failures.  Then PrecacheTiming: no sync uses an old listing, and syncs  *)
(* that fail are tried again after some time, for all settings, intervals  *)
(* between syncs and lengths of time.                                      *)
(***************************************************************************)
EXTENDS SyncTrigger, PrecacheTiming, TLAPS

\* A sync that has begun is under the soft lock, of the worker or of the web
\* UI, and the worker knows when the lock is its own (_withSoftLock, sync and
\* _sync_wrapper of coordinator.py): no request runs beside a sync.
UnderLock ==
  /\ sync # "over" => busy \in {"worker", "web"}
  /\ worker = "syncing" <=> busy = "worker"

TriggerInv == TypeOK /\ UnderLock

LEMMA InitEstablishes == Init => TriggerInv
<1>1. MaxRaises \in Nat /\ MaxRequests \in Nat /\ MaxFaults \in Nat
  BY BoundsAssumption
<1>2. Init => UnderLock
  BY DEF Init, UnderLock
<1>3. ASSUME Init PROVE TypeOK
  <2>1. left \in [raises : Nat, requests : Nat, faults : Nat]
    BY <1>1, <1>3 DEF Init
  <2> QED BY <1>3, <2>1 DEF Init, TypeOK, Early, Late
<1> QED BY <1>2, <1>3 DEF TriggerInv

LEMMA SpendTypes ==
  ASSUME TypeOK, NEW what \in {"raises", "requests", "faults"}, Spend(what)
  PROVE  left' \in [raises : Nat, requests : Nat, faults : Nat]
BY DEF TypeOK, Spend

LEMMA AttemptKeeps ==
  ASSUME TriggerInv, worker # "syncing", Attempt
  PROVE  /\ worker' \in {"asleep", "waiting", "syncing"}
         /\ busy' \in {"nobody", "worker", "web", "request"}
         /\ sync' \in {"over", "created", "running"}
         /\ UnderLock'
BY DEF TriggerInv, TypeOK, UnderLock, Attempt, Start

LEMMA AskLateKeeps ==
  ASSUME TriggerInv, worker # "syncing", NEW found, NEW rest \in SUBSET (Early \union Late),
         AskLate(found, rest)
  PROVE  /\ raised' \subseteq Early \union Late /\ doSync' = FALSE
         /\ worker' \in {"asleep", "waiting", "syncing"}
         /\ busy' \in {"nobody", "worker", "web", "request"}
         /\ sync' \in {"over", "created", "running"}
         /\ UnderLock'
<1>1. CASE Attempt
  BY <1>1, AttemptKeeps DEF AskLate
<1>2. CASE worker' = "asleep" /\ UNCHANGED <<busy, sync>>
  BY <1>2 DEF AskLate, TriggerInv, TypeOK, UnderLock
<1> QED BY <1>1, <1>2 DEF AskLate

LEMMA WorkerKeeps == ASSUME TriggerInv, Worker PROVE TriggerInv'
<1>1. CASE Ask
  <2>1. raised \ Early \in SUBSET (Early \union Late)
    BY DEF TriggerInv, TypeOK
  <2>2. CASE worker' = "noticing" /\ UNCHANGED <<busy, sync>>
    BY <1>1, <2>1, <2>2 DEF Ask, TriggerInv, TypeOK, UnderLock, AskLate, Attempt, Start
  <2>3. CASE /\ AskLate(due \/ raised \cap Early # {}, raised \ Early)
             /\ changed' = changed
    BY <1>1, <2>1, <2>3, AskLateKeeps DEF Ask, TriggerInv, TypeOK
  <2> QED BY <1>1, <2>2, <2>3 DEF Ask
<1>2. CASE Noticed
  <2>1. raised \in SUBSET (Early \union Late)
    BY DEF TriggerInv, TypeOK
  <2>2. PICK news \in BOOLEAN : AskLate(doSync \/ news, raised)
    BY <1>2 DEF Noticed
  <2> QED BY <1>2, <2>1, <2>2, AskLateKeeps DEF Noticed, TriggerInv, TypeOK
<1>3. CASE NoticeFails
  BY <1>3, SpendTypes DEF NoticeFails, TriggerInv, TypeOK, UnderLock
<1>4. CASE WaitedEnough
  BY <1>4, AttemptKeeps DEF WaitedEnough, TriggerInv, TypeOK
<1> QED BY <1>1, <1>2, <1>3, <1>4 DEF Worker

LEMMA TaskKeeps == ASSUME TriggerInv, Task PROVE TriggerInv'
<1>1. CASE SyncRuns
  BY <1>1 DEF SyncRuns, TriggerInv, TypeOK, UnderLock
<1>2. CASE SyncSucceeds
  BY <1>2 DEF SyncSucceeds, TriggerInv, TypeOK, UnderLock
<1>3. CASE SyncFails
  BY <1>3, SpendTypes DEF SyncFails, TriggerInv, TypeOK, UnderLock
<1> QED BY <1>1, <1>2, <1>3 DEF Task

LEMMA LocksKeep == ASSUME TriggerInv, Unlock \/ RequestEnds PROVE TriggerInv'
BY DEF Unlock, RequestEnds, TriggerInv, TypeOK, UnderLock

LEMMA WorldKeeps == ASSUME TriggerInv, World PROVE TriggerInv'
<1>1. CASE WebSyncs
  BY <1>1, SpendTypes DEF WebSyncs, Start, TriggerInv, TypeOK, UnderLock
<1>2. CASE Request
  BY <1>2, SpendTypes DEF Request, TriggerInv, TypeOK, UnderLock
<1>3. CASE FileChanges
  BY <1>3, SpendTypes DEF FileChanges, TriggerInv, TypeOK, UnderLock
<1>4. CASE ComesDue
  BY <1>4 DEF ComesDue, TriggerInv, TypeOK, UnderLock
<1>5. ASSUME NEW t \in Early \union Late, Raise(t) PROVE TriggerInv'
  BY <1>5, SpendTypes DEF Raise, TriggerInv, TypeOK, UnderLock
<1> QED BY <1>1, <1>2, <1>3, <1>4, <1>5 DEF World

\* The inductive invariant of SyncTrigger.
THEOREM TriggerInvariance == Spec => []TriggerInv
<1>1. TriggerInv /\ [Next]_vars => TriggerInv'
  <2> SUFFICES ASSUME TriggerInv, [Next]_vars PROVE TriggerInv'
    OBVIOUS
  <2>1. CASE UNCHANGED vars
    BY <2>1 DEF vars, TriggerInv, TypeOK, UnderLock
  <2> QED BY <2>1, WorkerKeeps, TaskKeeps, LocksKeep, WorldKeeps DEF Next
<1> QED BY InitEstablishes, <1>1, PTL DEF Spec

\* The types of SyncTrigger's variables.
THEOREM TriggerTypeCorrect == Spec => []TypeOK
<1>1. TriggerInv => TypeOK
  BY DEF TriggerInv
<1> QED BY TriggerInvariance, <1>1, PTL

\* Syncs run one at a time and never beside a request that holds the soft lock.
THEOREM SyncsAreLocked == Spec => []UnderLock
<1>1. TriggerInv => UnderLock
  BY DEF TriggerInv
<1> QED BY TriggerInvariance, <1>1, PTL

-----------------------------------------------------------------------------
(* No trigger is lost                                                      *)

\* Bounds are only spent, and until some are the lock is the worker's alone.
Undisturbed == left.requests = MaxRequests /\ left.faults = MaxFaults
AloneOK ==
  /\ left.requests <= MaxRequests /\ left.faults <= MaxFaults
  /\ Undisturbed => busy \in {"nobody", "worker"} /\ worker # "waiting"

\* What is asked for while nobody has the lock begins a sync.
LEMMA AttemptStarts ==
  ASSUME TriggerInv, busy = "nobody", Attempt
  PROVE  worker' = "syncing" /\ busy' = "worker" /\ sync' = "created"
BY DEF TriggerInv, UnderLock, TypeOK, Attempt, Start

\* The worker asks with the lock free.  Each trigger that it resets is in its
\* local variable, or has begun a sync.
LEMMA AskingLosesNone ==
  ASSUME TriggerInv, AloneOK, NoTriggerLost, Undisturbed, Ask \/ Noticed
  PROVE  /\ \A t \in owed' : t \in raised' \/ (worker' = "noticing" /\ doSync') \/ sync' = "created"
         /\ busy' \in {"nobody", "worker"} /\ worker' # "waiting" /\ left' = left
<1>1. worker \in {"asleep", "noticing"} /\ busy = "nobody" /\ sync = "over"
  BY DEF Ask, Noticed, AloneOK, TriggerInv, UnderLock, TypeOK
<1>2. \A t \in owed : t \in raised \/ (worker = "noticing" /\ doSync)
  BY <1>1 DEF NoTriggerLost, Undisturbed
<1>3. owed \subseteq Early \union Late /\ owed' = owed /\ left' = left
  BY DEF TriggerInv, TypeOK, Ask, Noticed
<1>4. ASSUME NEW found, NEW rest, AskLate(found, rest),
             \A t \in owed : t \in rest \/ found
      PROVE  /\ \A t \in owed : t \in raised' \/ sync' = "created"
             /\ busy' \in {"nobody", "worker"} /\ worker' # "waiting"
  <2>1. CASE found \/ rest \cap Late # {}
    BY <1>1, <1>4, <2>1, AttemptStarts DEF AskLate
  <2>2. CASE ~(found \/ rest \cap Late # {})
    BY <1>1, <1>4, <2>2 DEF AskLate
  <2> QED BY <2>1, <2>2
<1>5. CASE Ask
  <2> DEFINE found == due \/ raised \cap Early # {}
  <2>1. worker = "asleep" /\ \A t \in owed : t \in raised \ Early \/ found
    BY <1>2, <1>5 DEF Ask
  <2>2. CASE AskLate(found, raised \ Early)
    <3> HIDE DEF found
    <3> QED BY <1>3, <1>4, <2>1, <2>2
  <2>3. CASE worker' = "noticing" /\ doSync' = found /\ raised' = raised \ Early /\ busy' = busy
    <3> HIDE DEF found
    <3> QED BY <1>1, <1>3, <2>1, <2>3
  <2> QED BY <1>5, <2>2, <2>3 DEF Ask
<1>6. CASE Noticed
  <2>1. PICK news \in BOOLEAN : AskLate(doSync \/ news, raised)
    BY <1>6 DEF Noticed
  <2>2. \A t \in owed : t \in raised \/ (doSync \/ news)
    BY <1>2
  <2> QED BY <1>3, <1>4, <2>1, <2>2
<1> QED BY <1>5, <1>6

LEMMA SpendIsSeen ==
  ASSUME TriggerInv, AloneOK, NEW what \in {"requests", "faults"}, Spend(what)
  PROVE  ~Undisturbed' /\ left'.requests <= MaxRequests /\ left'.faults <= MaxFaults
<1>1. MaxRequests \in Nat /\ MaxFaults \in Nat /\ left \in [raises : Nat, requests : Nat, faults : Nat]
  BY BoundsAssumption DEF TriggerInv, TypeOK
<1> QED BY <1>1 DEF AloneOK, Spend, Undisturbed

\* A step that spends no request and no fault.
LEMMA SpendsNone ==
  ASSUME AloneOK, left'.requests = left.requests, left'.faults = left.faults,
         Undisturbed => /\ busy' \in {"nobody", "worker"} /\ worker' # "waiting"
                        /\ \A t \in owed' : t \in raised' \/ (worker' = "noticing" /\ doSync')
                                            \/ sync' = "created"
  PROVE  AloneOK' /\ NoTriggerLost'
BY DEF AloneOK, Undisturbed, NoTriggerLost

LEMMA TriggersStay ==
  ASSUME TriggerInv, AloneOK, NoTriggerLost, [Next]_vars
  PROVE  AloneOK' /\ NoTriggerLost'
<1>1. ASSUME NEW what \in {"requests", "faults"}, Spend(what) PROVE AloneOK' /\ NoTriggerLost'
  BY <1>1, SpendIsSeen DEF AloneOK, NoTriggerLost, Undisturbed
<1>2. CASE NoticeFails \/ SyncFails \/ WebSyncs \/ Request
  BY <1>1, <1>2 DEF NoticeFails, SyncFails, WebSyncs, Request
<1>3. CASE Ask \/ Noticed
  <2>1. left' = left
    BY <1>3 DEF Ask, Noticed
  <2> QED BY <1>3, <2>1, AskingLosesNone, SpendsNone
<1>4. CASE WaitedEnough \/ RequestEnds
  <2>1. ~Undisturbed /\ left' = left
    BY <1>4 DEF WaitedEnough, RequestEnds, AloneOK
  <2> QED BY <2>1, SpendsNone
<1>5. CASE SyncRuns \/ SyncSucceeds
  BY <1>5, SpendsNone DEF SyncRuns, SyncSucceeds, AloneOK, NoTriggerLost, Undisturbed
<1>6. CASE Unlock
  <2>1. sync = "over" /\ (busy = "worker" => worker = "syncing")
    BY <1>6 DEF Unlock, TriggerInv, UnderLock
  <2> QED BY <1>6, <2>1, SpendsNone DEF Unlock, AloneOK, NoTriggerLost, Undisturbed
<1>7. CASE FileChanges \/ ComesDue \/ UNCHANGED vars
  <2>1. /\ left'.requests = left.requests /\ left'.faults = left.faults
        /\ UNCHANGED <<raised, worker, doSync, busy, sync, owed>>
    BY <1>7 DEF FileChanges, ComesDue, vars, Spend, TriggerInv, TypeOK
  <2> QED BY <2>1, SpendsNone DEF AloneOK, NoTriggerLost, Undisturbed
<1>8. ASSUME NEW t \in Early \union Late, Raise(t) PROVE AloneOK' /\ NoTriggerLost'
  <2>1. /\ left'.requests = left.requests /\ left'.faults = left.faults
        /\ UNCHANGED <<worker, doSync, busy, sync>>
        /\ raised' = raised \union {t} /\ owed' = owed \union {t}
    BY <1>8 DEF Raise, Spend, TriggerInv, TypeOK
  <2> QED BY <2>1, SpendsNone DEF AloneOK, NoTriggerLost, Undisturbed
<1> QED BY <1>2, <1>3, <1>4, <1>5, <1>6, <1>7, <1>8 DEF Next, Worker, Task, World

\* The safety half of TriggersServed: the worker, which resets the triggers before
\* it knows that a sync will run, forgets none of them at any of its awaits, for
\* any number of triggers and changed files (Trigger.check, checkforSync lines 23-36).
THEOREM TriggersAreKept == Spec => []NoTriggerLost
<1>1. Init => AloneOK /\ NoTriggerLost
  BY BoundsAssumption DEF Init, AloneOK, NoTriggerLost, Undisturbed
<1> QED BY <1>1, TriggerInvariance, TriggersStay, PTL DEF Spec

-----------------------------------------------------------------------------
(* PrecacheTiming                                                          *)

\* The settings and bounds as single facts.
LEMMA Constants ==
  /\ WarmupMax \in Nat /\ ErrorTimeout \in Nat /\ MaxFailures \in Nat /\ Horizon \in Nat
  /\ Intervals \subseteq Nat
BY TimesAssumption

\* How far ahead of its reading a listing may be good.
CacheOK == \A c \in cache : c.until <= c.read + WarmupMax + 1 /\ c.read <= now

\* The sync for which get() runs was due in the warmup time when get() began,
\* hence also when Proton Drive answered.
FetchOK == \A f \in fetch :
  f.next <= now + WarmupMax /\ \A t \in f.read : f.next <= t + WarmupMax /\ t <= now

\* What is counted since the last good sync is counted in all, too.
CountOK == failures.row <= failures.all

\* The running sync has started.
SyncOK == \A s \in running : s.start <= now

TimingInv == TimingTypeOK /\ CacheOK /\ FetchOK /\ CountOK /\ SyncOK /\ UsedIsRecent

\* A clear leaves nothing that could be old.
LEMMA Cleared == ASSUME Clear PROVE cache' = {} /\ jitter' \in 0..WarmupMax
BY DEF Clear

\* Initially there is no listing at all.
LEMMA TimingInitOK == TimingInit => TimingInv
BY Constants DEF TimingInit, TimingInv, TimingTypeOK, CacheOK, FetchOK, CountOK, SyncOK, UsedIsRecent,
   AtMostOne, Clock, Times

\* A sync that uses the cache finds it good at the time of its start: it was read at
\* most WarmupMax + 1 before, or after the sync started.
LEMMA UsesRecent ==
  ASSUME TimingInv, Uses
  PROVE  /\ running' \in AtMostOne([start : Clock, listing : AtMostOne(Clock)])
         /\ UsedIsRecent'
<1> USE Constants DEF TimingInv, TimingTypeOK, Clock, Times
<1>1. PICK s \in running : \E t \in {c.read : c \in Cached(s.start)} \union {now} :
        running' = {[s EXCEPT !.listing = {t}]}
  BY DEF Uses
<1>a. PICK t \in {c.read : c \in Cached(s.start)} \union {now} :
        running' = {[s EXCEPT !.listing = {t}]}
  BY <1>1
<1>2. s \in [start : Clock, listing : AtMostOne(Clock)] /\ s.start <= now
  BY DEF AtMostOne, SyncOK
<1>3. t \in Clock /\ s.start - t <= WarmupMax + 1
  <2>1. CASE t = now
    BY <1>2, <2>1
  <2>2. CASE \E c \in Cached(s.start) : t = c.read
    <3>1. PICK c \in cache : c.until >= s.start /\ t = c.read
      BY <2>2 DEF Cached
    <3>2. c \in [until : Times, read : Clock] /\ c.until <= c.read + WarmupMax + 1
      BY DEF AtMostOne, CacheOK
    <3> QED BY <1>2, <3>1, <3>2
  <2> QED BY <1>a, <2>1, <2>2
<1>4. /\ [s EXCEPT !.listing = {t}] \in [start : Clock, listing : AtMostOne(Clock)]
      /\ [s EXCEPT !.listing = {t}].start = s.start /\ [s EXCEPT !.listing = {t}].listing = {t}
  BY <1>2, <1>3 DEF AtMostOne
<1>5. UsedIsRecent'
  BY <1>a, <1>3, <1>4 DEF UsedIsRecent
<1> QED BY <1>a, <1>4, <1>5 DEF AtMostOne

\* The steps of the precache.
LEMMA PrecacheSteps ==
  ASSUME TimingInv, Check \/ Read \/ Fetched \/ FetchFails \/ UserClears
  PROVE  TimingInv'
<1> USE Constants
<1>a. /\ now \in Clock /\ Clock \subseteq Nat /\ jitter \in 0..WarmupMax
      /\ UNCHANGED <<now, schedule, running, failures>>
  BY DEF TimingInv, TimingTypeOK, Clock, Check, Read, Fetched, FetchFails, UserClears
<1>b. /\ cache \in AtMostOne([until : Times, read : Clock])
      /\ fetch \in AtMostOne([next : Times, read : AtMostOne(Clock)])
      /\ lastError \in AtMostOne(Clock)
  BY DEF TimingInv, TimingTypeOK
<1>c. SUFFICES /\ cache' \in AtMostOne([until : Times, read : Clock])
               /\ fetch' \in AtMostOne([next : Times, read : AtMostOne(Clock)])
               /\ lastError' \in AtMostOne(Clock) /\ jitter' \in 0..WarmupMax
               /\ CacheOK' /\ FetchOK'
  BY <1>a DEF TimingInv, TimingTypeOK, CountOK, SyncOK, UsedIsRecent, schedule, Clock, Times
<1>1. CASE Check
  <2>1. PICK next \in (now + 1)..(now + jitter) : fetch' = {[next |-> next, read |-> {}]}
    BY <1>1 DEF Check
  <2>2. next \in Times /\ next <= now + WarmupMax
    BY <1>a DEF Times, Clock
  <2>3. CacheOK' /\ FetchOK'
    BY <1>1, <1>a, <2>1, <2>2 DEF Check, TimingInv, CacheOK, FetchOK
  <2> QED
    BY <1>1, <1>a, <1>b, <2>1, <2>2, <2>3 DEF Check, AtMostOne
<1>2. CASE Read
  <2>1. PICK f \in fetch : fetch' = {[f EXCEPT !.read = {now}]}
    BY <1>2 DEF Read
  <2>2. f \in [next : Times, read : AtMostOne(Clock)] /\ f.next <= now + WarmupMax
    BY <1>b DEF AtMostOne, TimingInv, FetchOK
  <2>3. CacheOK' /\ FetchOK'
    BY <1>2, <1>a, <2>1, <2>2 DEF Read, TimingInv, CacheOK, FetchOK, Clock
  <2> QED
    BY <1>2, <1>a, <1>b, <2>1, <2>2, <2>3 DEF Read, AtMostOne
<1>3. CASE Fetched
  <2>1. PICK f \in fetch, t \in 0..now :
               f.read = {t} /\ cache' = {[until |-> f.next + 1, read |-> t]}
    BY <1>3 DEF Fetched
  <2>2. /\ f \in [next : Times, read : AtMostOne(Clock)]
        /\ f.next <= t + WarmupMax /\ t <= now /\ t \in Clock
    BY <1>a, <1>b, <2>1 DEF AtMostOne, TimingInv, FetchOK, Clock
  <2>3. f.next + 1 \in Times
    BY <1>a, <2>2 DEF Times, Clock
  <2>4. fetch' = {} /\ jitter' \in 0..WarmupMax /\ lastError' = lastError
    BY <1>3 DEF Fetched
  <2>5. CacheOK' /\ FetchOK'
    BY <1>a, <2>1, <2>2, <2>4 DEF CacheOK, FetchOK, Times, Clock
  <2> QED
    BY <1>b, <2>1, <2>2, <2>3, <2>4, <2>5 DEF AtMostOne
<1>4. CASE FetchFails
  BY <1>4, <1>a, <1>b DEF FetchFails, TimingInv, CacheOK, FetchOK, AtMostOne
<1>5. CASE UserClears
  BY <1>5, <1>a, <1>b, Cleared DEF UserClears, TimingInv, CacheOK, FetchOK, AtMostOne
<1> QED
  BY <1>1, <1>2, <1>3, <1>4, <1>5

\* The steps of a sync, of the clock, and of what moves the next backup.
LEMMA ScheduleSteps ==
  ASSUME TimingInv, Tick \/ SyncStarts \/ Uses \/ SyncEndsWell \/ SyncEndsBadly \/ Reschedule
  PROVE  TimingInv'
<1> USE Constants
<1>1. CASE Tick
  BY <1>1 DEF Tick, TimingInv, TimingTypeOK, CacheOK, FetchOK, CountOK, SyncOK, UsedIsRecent,
     schedule, precache, Clock, Times, AtMostOne
<1>2. CASE SyncStarts
  <2>1. running' = {[start |-> now, listing |-> {}]} /\ now' = now /\ now \in Clock
    BY <1>2 DEF SyncStarts, TimingInv, TimingTypeOK
  <2>2. now <= now
    BY <2>1 DEF Clock
  <2>3. /\ running' \in AtMostOne([start : Clock, listing : AtMostOne(Clock)])
        /\ SyncOK' /\ UsedIsRecent'
    BY <2>1, <2>2 DEF AtMostOne, SyncOK, UsedIsRecent
  <2> QED BY <1>2, <2>1, <2>3 DEF SyncStarts, TimingInv, TimingTypeOK, CacheOK, FetchOK, CountOK,
             schedule, precache
<1>3. CASE Uses
  <2>1. running' \in AtMostOne([start : Clock, listing : AtMostOne(Clock)]) /\ UsedIsRecent'
    BY <1>3, UsesRecent
  <2>2. SyncOK'
    BY <1>3 DEF Uses, TimingInv, TimingTypeOK, AtMostOne, SyncOK
  <2> QED BY <1>3, <2>1, <2>2 DEF Uses, TimingInv, TimingTypeOK, CacheOK, FetchOK, CountOK, schedule,
             precache
<1>4. CASE SyncEndsWell \/ SyncEndsBadly
  <2>1. /\ running' = {} /\ cache' = {} /\ jitter' \in 0..WarmupMax
        /\ UNCHANGED <<now, backup, fetch, lastError>>
    BY <1>4, Cleared DEF SyncEndsWell, SyncEndsBadly
  <2>2. last' \in [at : Clock, failed : BOOLEAN] /\ counter' \in Nat /\ offset' \in Intervals
    <3>1. now \in Clock /\ counter \in Nat /\ offset \in Intervals
      BY DEF TimingInv, TimingTypeOK
    <3>2. CASE SyncEndsWell
      BY <3>1, <3>2 DEF SyncEndsWell
    <3>3. CASE SyncEndsBadly
      BY <3>1, <3>3 DEF SyncEndsBadly
    <3> QED BY <1>4, <3>2, <3>3
  <2>3. /\ failures' \in [row : 0..MaxFailures, all : 0..MaxFailures]
        /\ failures'.row <= failures'.all
    BY <1>4 DEF SyncEndsWell, SyncEndsBadly, TimingInv, TimingTypeOK, CountOK
  <2>4. /\ cache' \in AtMostOne([until : Times, read : Clock])
        /\ running' \in AtMostOne([start : Clock, listing : AtMostOne(Clock)])
    BY <2>1 DEF AtMostOne
  <2> QED
    BY <2>1, <2>2, <2>3, <2>4 DEF TimingInv, TimingTypeOK, CacheOK, FetchOK, CountOK, SyncOK,
       UsedIsRecent
<1>5. CASE Reschedule
  BY <1>5 DEF Reschedule, TimingInv, TimingTypeOK, CacheOK, FetchOK, CountOK, SyncOK, UsedIsRecent,
     precache
<1> QED
  BY <1>1, <1>2, <1>3, <1>4, <1>5

\* No step makes a cached or a used listing too old (checkForSmoothing, cached).
THEOREM TimingInvariance == TimingSpec => []TimingInv
<1>1. TimingInv /\ UNCHANGED timingVars => TimingInv'
  BY DEF timingVars, schedule, precache, TimingInv, TimingTypeOK, CacheOK, FetchOK, CountOK,
     SyncOK, UsedIsRecent
<1>2. TimingInv /\ [TimingNext]_timingVars => TimingInv'
  BY <1>1, PrecacheSteps, ScheduleSteps DEF TimingNext
<1> QED
  BY TimingInitOK, <1>2, PTL DEF TimingSpec

\* Types are kept (the settings may be anything natural).
THEOREM TimingTypeCorrect == TimingSpec => []TimingTypeOK
<1>1. TimingInv => TimingTypeOK
  BY DEF TimingInv
<1> QED
  BY <1>1, TimingInvariance, PTL

\* Every sync works with a listing read at most the warmup time and a minute before
\* the sync's start, which is the time that Model.sync asks cached() for.
THEOREM ListingIsRecent == TimingSpec => []UsedIsRecent
<1>1. TimingInv => UsedIsRecent
  BY DEF TimingInv
<1> QED
  BY <1>1, TimingInvariance, PTL

-----------------------------------------------------------------------------
(* The waits after errors                                                  *)

\* After a failed sync an error is counted, by Backoff too; and Backoff counts
\* at least two after two errors in a row.
BackoffOK == /\ last.failed => failures.row >= 1
             /\ failures.row >= 1 => counter >= 1
             /\ failures.row >= 2 => counter >= 2

\* The factors that Backoff.peek() multiplies with.
LEMMA Factors == ASSUME NEW k \in 0..20 PROVE 2^k \in Nat /\ 2^k >= 1
<1> DEFINE pow == [i \in 0..20 |-> 2^i]
<1>1. /\ pow[0] = 1 /\ pow[1] = 2 /\ pow[2] = 4 /\ pow[3] = 8 /\ pow[4] = 16 /\ pow[5] = 32 /\ pow[6] = 64
      /\ pow[7] = 128 /\ pow[8] = 256 /\ pow[9] = 512 /\ pow[10] = 1024
  OBVIOUS
<1>2. /\ pow[11] = 2048 /\ pow[12] = 4096 /\ pow[13] = 8192 /\ pow[14] = 16384 /\ pow[15] = 32768
      /\ pow[16] = 65536 /\ pow[17] = 131072 /\ pow[18] = 262144 /\ pow[19] = 524288 /\ pow[20] = 1048576
  OBVIOUS
<1>3. \/ k = 0 \/ k = 1 \/ k = 2 \/ k = 3 \/ k = 4 \/ k = 5 \/ k = 6
      \/ k = 7 \/ k = 8 \/ k = 9 \/ k = 10 \/ k = 11 \/ k = 12 \/ k = 13
      \/ k = 14 \/ k = 15 \/ k = 16 \/ k = 17 \/ k = 18 \/ k = 19 \/ k = 20
  OBVIOUS
<1>4. 2^k = pow[k]
  OBVIOUS
<1> HIDE DEF pow
<1> QED
  BY <1>1, <1>2, <1>3, <1>4

\* A wait is at most MaxBackoff, and after the first error at least Base.
LEMMA Waits ==
  ASSUME NEW n \in Nat, n >= 1, MaxBackoff \in Nat, Base \in Nat
  PROVE  /\ Peek(n) \in 0..MaxBackoff
         /\ n >= 2 => Peek(n) >= AtMost(Base, MaxBackoff)
<1>1. CASE n = 1
  BY <1>1 DEF Peek
<1>2. CASE n >= 2
  <2> DEFINE k == AtMost(n - 2, 20)
             f == 2^k
  <2>1. k \in 0..20
    BY <1>2 DEF AtMost
  <2>2. f \in Nat /\ f >= 1
    BY <2>1, Factors
  <2>3. Peek(n) = AtMost(Base * f, MaxBackoff)
    BY <1>2 DEF Peek
  <2> HIDE DEF f
  <2>4. Base * f \in Nat /\ Base * f >= Base
    BY <2>2, Z3
  <2> QED
    BY <2>3, <2>4 DEF AtMost
<1> QED
  BY <1>1, <1>2

LEMMA BackoffInit == TimingInit => BackoffOK
BY DEF TimingInit, BackoffOK

LEMMA BackoffStep == ASSUME TimingTypeOK, BackoffOK, [TimingNext]_timingVars PROVE BackoffOK'
<1> USE DEF BackoffOK, TimingTypeOK
<1>1. CASE UNCHANGED <<last, counter, failures>>
  BY <1>1
<1>2. CASE SyncEndsWell
  BY <1>2 DEF SyncEndsWell
<1>3. CASE SyncEndsBadly
  BY <1>3 DEF SyncEndsBadly
<1>4. CASE UNCHANGED timingVars
  BY <1>1, <1>4 DEF timingVars, schedule
<1> QED
  BY <1>1, <1>2, <1>3, <1>4
     DEF TimingNext, Tick, Check, Read, Fetched, FetchFails, UserClears, SyncStarts, Uses, Reschedule,
         schedule

\* A sync that fails is tried again at once no more than one time, then after
\* Base at least, and never later than MaxBackoff (backoff.py, peek; the
\* coordinator's handleError), for all lengths of both and any number of errors.
THEOREM RetriesAreSpaced == TimingSpec => []RetriesSpaced
<1>1. TimingTypeOK /\ BackoffOK => RetriesSpaced
  <2> SUFFICES ASSUME TimingTypeOK, BackoffOK, last.failed
               PROVE  NextSync - last.at \in
                        (IF failures.row = 1 THEN 0 ELSE AtMost(Base, MaxBackoff))..MaxBackoff
    BY DEF RetriesSpaced
  <2>1. counter \in Nat /\ counter >= 1 /\ failures.row \in Nat
        /\ (failures.row # 1 => counter >= 2)
    BY Constants DEF TimingTypeOK, BackoffOK
  <2>2. Base \in Nat /\ MaxBackoff \in Nat
    BY TimesAssumption
  <2>3. NextSync = last.at + Peek(counter) /\ last.at \in Nat
    BY Constants DEF NextSync, TimingTypeOK, Clock
  <2>4. /\ Peek(counter) \in 0..MaxBackoff
        /\ counter >= 2 => Peek(counter) >= AtMost(Base, MaxBackoff)
    BY <2>1, <2>2, Waits
  <2>5. AtMost(Base, MaxBackoff) \in Nat
    BY <2>2 DEF AtMost
  <2> QED
    BY <2>1, <2>2, <2>3, <2>4, <2>5
<1> QED
  BY <1>1, TimingTypeCorrect, BackoffInit, BackoffStep, PTL DEF TimingSpec
=============================================================================
