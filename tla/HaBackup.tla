------------------------------ MODULE HaBackup ------------------------------
(***************************************************************************)
(* Making a backup in Home Assistant (ha/hasource.py): create asks the     *)
(* supervisor for one, a task waits for the answer for hours, and get,     *)
(* called by each sync, finds out which of the backups it lists is the one *)
(* that was asked for.  Around it the add-ons that are stopped meanwhile   *)
(* (AddonStopper), backups that other programs make, failures, time-outs,  *)
(* cancelled syncs, and the add-on being killed.                           *)
(*                                                                         *)
(* A request is a number, and so is a backup; the larger is the newer one. *)
(* Request 0 stands for the other programs, and -r for one of theirs that  *)
(* has the name of request r, and a date within a day of it.  The names of *)
(* the requests themselves differ, as the default template makes them.     *)
(***************************************************************************)
EXTENDS AddonStopper, Integers, SequencesExt

CONSTANTS
  MaxRequests,  \* bound: backups the add-on asks for
  MaxOthers,    \* bound: backups other programs make
  OtherNames,   \* the requests whose names they may have, 0 for another name
  MaxFaults     \* bound: calls and syncs that fail, and restarts of the add-on

ASSUME BoundsAssumption ==
  {MaxRequests, MaxOthers, MaxFaults} \subseteq Nat

ASSUME NamesAssumption == OtherNames \subseteq 0..MaxRequests

Requests == 1..MaxRequests
Backups  == 1..(MaxRequests + MaxOthers)

VARIABLES
  by, job, have,   \* Home Assistant: who asked for each backup, the one it is
                   \* making (0: none), and those it has
  asked,           \* the requests made so far
  pending,         \* pending_backup: the request, 0 when none, and its state
  task,            \* _requestAsync of each request
  cache, disk,     \* data_cache, in memory and in its file
  lastSlugs,       \* last_slugs
  creating,        \* where create is
  sync, listing,   \* where the sync around it is, and what its get has listed
  faults           \* what is left of the bound

ha    == <<by, job, have>>
mem   == <<pending, task, cache, lastSlugs>>
where == <<creating, sync, listing>>
vars  == <<stopper, ha, asked, mem, disk, where, faults>>

NoPending == [id |-> 0, state |-> "none"]
Tasks     == {"none", "sent", "waiting", "logs", "done"}

\* data_cache: the backups it knows, those with KEY_I_MADE_THIS, the request
\* whose note each has, and the request under KEY_PENDING.
NoCache == [seen |-> {}, mine |-> {}, note |-> [b \in Backups |-> 0], asked |-> 0]

TypeOK ==
  /\ StopperTypeOK
  /\ by \in Seq(-MaxRequests..MaxRequests) /\ Len(by) <= MaxRequests + MaxOthers
  /\ job \in {0, Len(by)} /\ have \subseteq (1..Len(by)) \ {job}
  /\ asked \in 0..MaxRequests
  /\ pending \in [id : 0..asked,
                  state : {"none", "requested", "complete", "failed", "subverted"}]
  /\ task \in [Requests -> Tasks]
  /\ \A c \in {cache, disk} :
       /\ c.mine \subseteq c.seen /\ c.seen \subseteq 1..Len(by)
       /\ c.note \in [Backups -> 0..asked] /\ c.asked \in 0..asked
  /\ lastSlugs \subseteq 1..Len(by) /\ listing \subseteq 1..Len(by)
  /\ creating \in {"no", "stopping", "waiting"} /\ sync \in {"no", "listing", "on"}
  /\ faults \in Nat

Init ==
  /\ StopperInit
  /\ by = <<>> /\ job = 0 /\ have = {} /\ asked = 0
  /\ pending = NoPending /\ task = [r \in Requests |-> "none"]
  /\ cache = NoCache /\ disk = NoCache /\ lastSlugs = {}
  /\ creating = "no" /\ sync = "no" /\ listing = {}
  /\ faults = MaxFaults

Name(b)    == IF by[b] < 0 THEN -by[b] ELSE by[b]
MadeFor(r) == {b \in 1..Len(by) : by[b] = r /\ b # job}
Fault      == faults > 0 /\ faults' = faults - 1
InFlight(r) == task[r] \in {"sent", "waiting"}

\* The task of request r changes its own PendingBackup.
Settle(r, s) == pending' = IF pending.id = r THEN [pending EXCEPT !.state = s] ELSE pending

-----------------------------------------------------------------------------
(* create: under the soft lock, alone or in a sync                         *)

\* Mutation of Create: the pending backup is not looked at.
CreateAnyway ==
  /\ asked < MaxRequests /\ creating = "no" /\ sync # "listing"
  /\ StopAddons
  /\ creating' = "stopping"
  /\ UNCHANGED <<ha, asked, mem, disk, sync, listing, faults>>

\* A request that is neither complete nor failed refuses the next.
Create ==
  /\ asked < MaxRequests /\ creating = "no" /\ sync # "listing"
  /\ pending.state \notin {"requested", "subverted"}
  /\ StopAddons
  /\ creating' = "stopping"
  /\ UNCHANGED <<ha, asked, mem, disk, sync, listing, faults>>

Stopping == StopStep /\ UNCHANGED <<ha, asked, mem, disk, where, faults>>

\* The add-ons are stopped; the task that asks for the backup is created.
Ask ==
  /\ StopSaves
  /\ asked' = asked + 1
  /\ pending' = [id |-> asked', state |-> "requested"]
  /\ task' = [task EXCEPT ![asked'] = "sent"]
  /\ creating' = "waiting"
  /\ UNCHANGED <<ha, cache, disk, lastSlugs, sync, listing, faults>>

\* What raiseIfNeeded finds once the task is done or five seconds are over.
CreateRaises ==
  /\ creating = "waiting" /\ pending.state \in {"failed", "subverted"}
  /\ creating' = "no" /\ sync' = "no"
  /\ UNCHANGED <<stopper, ha, asked, mem, disk, listing, faults>>

\* New backups with the name under KEY_PENDING.
Matching(c, L) == {b \in L \ c.seen : c.asked # 0 /\ Name(b) = c.asked}

\* Mutations of Known: the record is not kept, and KEY_PENDING stays.
KnownUnlisted(c, L) ==
  IF Matching(c, L) = {} THEN {c}
  ELSE {[c EXCEPT !.mine = @ \union {b}, !.asked = 0] : b \in Matching(c, L)}

KnownAgain(c, L) ==
  {[c EXCEPT !.seen = @ \union L, !.mine = @ \union Matching(c, L)]}

\* setDataCacheInfo for a set of backups: the first new one with the name that was
\* asked for is taken for the add-on's own, and the name is then forgotten.  They
\* come in any order.
Known(c, L) ==
  LET listed == [c EXCEPT !.seen = @ \union L] IN
  IF Matching(c, L) = {} THEN {listed}
  ELSE {[listed EXCEPT !.mine = @ \union {b}, !.asked = 0] : b \in Matching(c, L)}

\* The name is written under KEY_PENDING.  A backup that is there already is
\* the add-on's own, and gets the note; one that is gone again raises.
CreateReturns ==
  /\ creating = "waiting" /\ pending.state \in {"requested", "complete"}
  /\ creating' = "no"
  /\ LET made == IF pending.state = "complete" THEN MadeFor(pending.id) ELSE {}
         got  == made \cap have
     IN  /\ \E c \in Known([cache EXCEPT !.asked = pending.id], got) :
              cache' = [c EXCEPT !.mine = @ \union got,
                                 !.note = [b \in Backups |-> IF b \in got THEN pending.id ELSE c.note[b]]]
         /\ sync' = IF made \subseteq have THEN sync ELSE "no"
  /\ UNCHANGED <<stopper, ha, asked, pending, task, disk, lastSlugs, listing, faults>>

\* The sync is cancelled, or what create awaits raises.  The task goes on.
CreateAborted ==
  /\ creating # "no" /\ Fault
  /\ creating' = "no" /\ sync' = "no"
  /\ IF creating = "stopping" THEN StopAborted ELSE UNCHANGED stopper
  /\ UNCHANGED <<ha, asked, mem, disk, listing>>

-----------------------------------------------------------------------------
(* Home Assistant, and _requestAsync                                       *)

HaAccepts(r) ==
  /\ task[r] = "sent" /\ job = 0
  /\ by' = Append(by, r) /\ job' = Len(by')
  /\ task' = [task EXCEPT ![r] = "waiting"]
  /\ UNCHANGED <<stopper, have, asked, pending, cache, disk, lastSlugs, where, faults>>

\* Another program is having one made: HTTP 400, setPendingUnknown.
HaRefuses(r) ==
  /\ task[r] = "sent" /\ job # 0
  /\ task' = [task EXCEPT ![r] = "logs"]
  /\ Settle(r, "subverted")
  /\ UNCHANGED <<stopper, ha, asked, cache, disk, lastSlugs, where, faults>>

\* Its name may be that of a request.
OtherAsks ==
  /\ job = 0 /\ Cardinality({b \in 1..Len(by) : by[b] <= 0}) < MaxOthers
  /\ \E r \in OtherNames : by' = Append(by, -r)
  /\ job' = Len(by')
  /\ UNCHANGED <<stopper, have, asked, mem, disk, where, faults>>

HaFinishes ==
  /\ job # 0
  /\ have' = have \union {job} /\ job' = 0
  /\ UNCHANGED <<stopper, by, asked, mem, disk, where, faults>>

\* The reply arrives: complete, then the add-ons are started again.
Reply(r) ==
  /\ task[r] = "waiting" /\ MadeFor(r) # {}
  /\ task' = [task EXCEPT ![r] = "done"]
  /\ Settle(r, "complete")
  /\ StartAddons
  /\ UNCHANGED <<addons, notes, loop, ha, asked, cache, disk, lastSlugs, where, faults>>

\* Any other error, or PENDING_BACKUP_TIMEOUT_SECONDS: Home Assistant may go on.
RequestFails(r) ==
  /\ InFlight(r) /\ Fault
  /\ task' = [task EXCEPT ![r] = "logs"]
  /\ Settle(r, "failed")
  /\ \/ UNCHANGED <<by, job>>
     \/ job # 0 /\ by[job] = r /\ job' = 0 /\ by' = Front(by)
  /\ UNCHANGED <<stopper, have, asked, cache, disk, lastSlugs, where>>

LogsRead(r) ==
  /\ task[r] = "logs" /\ task' = [task EXCEPT ![r] = "done"]
  /\ StartAddons
  /\ UNCHANGED <<addons, notes, loop, ha, asked, pending, cache, disk, lastSlugs, where, faults>>

-----------------------------------------------------------------------------
(* get, in a sync                                                          *)

StartSync ==
  /\ sync = "no" /\ creating = "no"
  /\ sync' = "listing" /\ listing' = have
  /\ UNCHANGED <<stopper, ha, asked, mem, disk, creating, faults>>

\* _killPending: a task that is not done is cancelled, and its finally starts
\* the add-ons.
Kill ==
  /\ pending' = NoPending
  /\ IF pending.id # 0 /\ task[pending.id] # "done"
     THEN task' = [task EXCEPT ![pending.id] = "done"] /\ StartAddons
     ELSE UNCHANGED <<task, flags>>

\* Mutation of Stale: one that failed is never too old.
StaleIfRefused == pending.state = "subverted"

\* The states in which isStale holds after a while.
Stale == pending.state \in {"failed", "subverted"}

\* How the listing tells what became of the pending backup.
Process ==
  LET made     == MadeFor(pending.id)
      arrived  == pending.state = "complete" /\ made \subseteq listing
      another  == pending.id # 0 /\ ~arrived /\ listing \ lastSlugs # {}
      Noted(k, b) == IF pending.state = "subverted" THEN k ELSE [k EXCEPT !.note[b] = pending.id]
  IN
  /\ sync = "listing" /\ sync' = "on"
  /\ listing' = {} /\ lastSlugs' = listing
  /\ \E know \in Known(cache, listing) :
       \/ Stale /\ Kill /\ cache' = know
       \/ arrived /\ Kill /\ cache' = Noted(know, Max(made))
       \/ another /\ Kill /\ cache' = Noted(know, Max(listing))
       \/ ~arrived /\ ~another /\ cache' = know /\ UNCHANGED <<pending, task, flags>>
  /\ UNCHANGED <<addons, notes, loop, ha, asked, disk, creating, faults>>

\* postSync, and the data cache is saved.
EndSync ==
  /\ sync = "on" /\ creating = "no" /\ sync' = "no"
  /\ AllowRun(pending.id # 0)
  /\ disk' = cache
  /\ UNCHANGED <<addons, mustWatch, saved, loop, ha, asked, mem, creating, listing, faults>>

SyncFails ==
  /\ sync # "no" /\ creating = "no" /\ Fault
  /\ sync' = "no" /\ listing' = {}
  /\ UNCHANGED <<stopper, ha, asked, mem, disk, creating>>

-----------------------------------------------------------------------------
rest == <<ha, asked, mem, disk, where, faults>>

CheckBegins == Check /\ UNCHANGED rest
CheckGoesOn == CheckStep /\ UNCHANGED rest
EarlyEnds   == TimePasses /\ UNCHANGED rest

SupervisorFails == Failure /\ Fault /\ UNCHANGED <<ha, asked, mem, disk, where>>

Crash ==
  /\ Fault
  /\ StopperRestarts
  /\ pending' = NoPending /\ task' = [r \in Requests |-> "none"]
  /\ cache' = disk /\ lastSlugs' = {}
  /\ creating' = "no" /\ sync' = "no" /\ listing' = {}
  /\ UNCHANGED <<ha, asked, disk>>

TaskStep == \E r \in Requests : HaAccepts(r) \/ HaRefuses(r) \/ Reply(r) \/ LogsRead(r)
CreateStep == Stopping \/ Ask \/ CreateRaises \/ CreateReturns
World == OtherAsks \/ HaFinishes

Next ==
  \/ Create \/ CreateStep \/ CreateAborted
  \/ TaskStep \/ \E r \in Requests : RequestFails(r)
  \/ StartSync \/ Process \/ EndSync \/ SyncFails
  \/ CheckBegins \/ CheckGoesOn \/ EarlyEnds \/ SupervisorFails \/ World \/ Crash

Spec == Init /\ [][Next]_vars

\* The supervisor answers, the timer and the syncs go on, and time passes.  A
\* stale pending backup is dropped by a later sync.
Fairness ==
  /\ WF_vars(CreateStep) /\ WF_vars(TaskStep) /\ WF_vars(HaFinishes)
  /\ WF_vars(StartSync) /\ WF_vars(Process) /\ WF_vars(EndSync)
  /\ SF_vars(Process /\ pending'.id = 0)
  /\ SF_vars(CheckBegins) /\ WF_vars(CheckGoesOn) /\ WF_vars(EarlyEnds)

FairSpec == Spec /\ Fairness

-----------------------------------------------------------------------------
(* Properties                                                              *)

\* The add-on waits for one backup at a time, the pending one (create lines
\* 206-210, get lines 299-320).
OneRequest == \A r \in Requests : InFlight(r) => pending.id = r

\* What a request leaves in the data cache goes to one backup: neither the mark
\* KEY_I_MADE_THIS nor its note is given twice, whoever else makes a backup of its
\* name, whenever the add-on is killed and however late the listing is (create
\* lines 225-237, setDataCacheInfo and get).
GivenOnce ==
  /\ \A b, c \in cache.mine : Name(b) = Name(c) => b = c
  /\ \A b, c \in Backups : cache.note[b] = cache.note[c] /\ cache.note[b] # 0 => b = c

\* An add-on that was stopped runs again, and a watchdog that is noted in the
\* file is on again, even if the backup fails or the add-on is killed, unless a
\* call to the supervisor for it fails unnoted (stopAddons, startAddons, check).
StoppedComesBack == \A s \in Addons :
  /\ s \notin running ~> (s \in running \/ s \in gaveUp)
  /\ (s \in saved.watchdog \ watchdog) ~> (s \in watchdog \/ s \in gaveUp)

\* An add-on that was stopped is to be started, once any may be, unless a failed
\* or cancelled call did it unnoted; and so with a watchdog that the file lists,
\* or that was turned off while nothing failed.
NothingForgotten ==
  /\ allowed => Addons \subseteq running \union mustStart \union gaveUp
  /\ saved.watchdog \subseteq watchdog \union mustWatch \union gaveUp
  /\ faults = MaxFaults => Watched \subseteq watchdog \union mustWatch

\* A pending backup is dropped in the end, or followed by another.
PendingEnds == \A r \in Requests : (pending.id = r) ~> (pending.id # r)
=============================================================================
