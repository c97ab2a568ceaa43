----------------------------- MODULE SyncTrigger -----------------------------
(***************************************************************************)
(* When a sync runs.  The sync worker (model/syncer.py on worker/worker.py)*)
(* wakes twice a second, asks every Trigger (worker/trigger.py) in turn,   *)
(* waits for a running sync to end and starts one of its own.  Syncs and   *)
(* the user's requests exclude each other by the Coordinator's soft lock   *)
(* (model/coordinator.py), which does not wait: it raises PleaseWait.      *)
(*                                                                         *)
(* The code between two awaits is one action.                              *)
(***************************************************************************)
EXTENDS Naturals

CONSTANTS
  MaxRaises,    \* bound: triggers raised by the user, and changed files
  MaxRequests,  \* bound: syncs and other requests from the web UI
  MaxFaults     \* bound: failures of a sync or of the watcher's query

ASSUME BoundsAssumption == {MaxRaises, MaxRequests, MaxFaults} \subseteq Nat

\* The order in which the worker asks: the Coordinator, HaSource, the Watcher
\* and the UiServer.  (ProtonSource never raises its own.)
Early == {"coordinator", "ha"}
Late  == {"server"}

VARIABLES
  raised,   \* the triggers whose _triggered is set
  due,      \* now >= Coordinator.nextSyncAttempt()
  changed,  \* Watcher._changes_have_happened
  worker,   \* where checkforSync is, "asleep" between two calls
  doSync,   \* its local variable
  busy,     \* who holds the soft lock
  sync,     \* Coordinator._sync_task: "over" also when there was none
  owed,     \* history: triggers raised since the last sync that ran
  left      \* what is left of the bounds

vars == <<raised, due, changed, worker, doSync, busy, sync, owed, left>>

TypeOK ==
  /\ raised \subseteq Early \union Late /\ owed \subseteq Early \union Late
  /\ {due, changed, doSync} \subseteq BOOLEAN
  /\ worker \in {"asleep", "noticing", "waiting", "syncing"}
  /\ busy \in {"nobody", "worker", "web", "request"}
  /\ sync \in {"over", "created", "running"}
  /\ left \in [raises : Nat, requests : Nat, faults : Nat]

\* The Coordinator raises its trigger when it is made.
Init ==
  /\ raised = {"coordinator"} /\ owed = {"coordinator"}
  /\ due = FALSE /\ changed = FALSE /\ doSync = FALSE
  /\ worker = "asleep" /\ busy = "nobody" /\ sync = "over"
  /\ left = [raises |-> MaxRaises, requests |-> MaxRequests, faults |-> MaxFaults]

Spend(what) == left[what] > 0 /\ left' = [left EXCEPT ![what] = @ - 1]

-----------------------------------------------------------------------------
(* The worker                                                              *)

\* Coordinator.sync under _withSoftLock: the task is made at once.
Start(who) == busy = "nobody" /\ busy' = who /\ sync' = "created"

\* The end of checkforSync: wait for a running sync, or start one.  There is no
\* await between isSyncing and the lock; PleaseWait is ignored.
Attempt ==
  \/ sync # "over" /\ worker' = "waiting" /\ UNCHANGED <<busy, sync>>
  \/ sync = "over" /\ worker' = "syncing" /\ Start("worker")
  \/ sync = "over" /\ busy # "nobody" /\ worker' = "asleep" /\ UNCHANGED <<busy, sync>>

\* The server's trigger is asked last, after the watcher has answered.
AskLate(found, rest) ==
  /\ raised' = rest \ Late /\ doSync' = FALSE
  /\ IF found \/ rest \cap Late # {} THEN Attempt
     ELSE worker' = "asleep" /\ UNCHANGED <<busy, sync>>

\* Mutation of Ask: the schedule is taken for a trigger, and reset with it.
AskOnce ==
  /\ worker = "asleep"
  /\ LET found == due \/ raised \cap Early # {} IN
     \/ /\ changed /\ changed' = FALSE
        /\ worker' = "noticing" /\ doSync' = found /\ raised' = raised \ Early
        /\ UNCHANGED <<busy, sync>>
     \/ AskLate(found, raised \ Early) /\ changed' = changed
  /\ due' = FALSE
  /\ UNCHANGED <<owed, left>>

\* Each trigger that answers yes is reset.  A sync that is due resets the
\* Coordinator's trigger too, and stays due until it has run.  The watcher asks
\* Home Assistant, an await, when files changed and were then left alone.
Ask ==
  /\ worker = "asleep"
  /\ LET found == due \/ raised \cap Early # {} IN
     \/ /\ changed /\ changed' = FALSE
        /\ worker' = "noticing" /\ doSync' = found /\ raised' = raised \ Early
        /\ UNCHANGED <<busy, sync>>
     \/ AskLate(found, raised \ Early) /\ changed' = changed
  /\ UNCHANGED <<due, owed, left>>

Noticed ==
  /\ worker = "noticing"
  /\ \E news \in BOOLEAN : AskLate(doSync \/ news, raised)
  /\ UNCHANGED <<due, changed, owed, left>>

\* Worker.work logs the error and goes back to sleep.
NoticeFails ==
  /\ worker = "noticing" /\ Spend("faults")
  /\ worker' = "asleep" /\ doSync' = FALSE
  /\ UNCHANGED <<raised, due, changed, busy, sync, owed>>

WaitedEnough ==
  /\ worker = "waiting" /\ sync = "over" /\ Attempt
  /\ UNCHANGED <<raised, due, changed, doSync, owed, left>>

-----------------------------------------------------------------------------
(* The sync's own task                                                     *)

SyncRuns ==
  /\ sync = "created" /\ sync' = "running"
  /\ owed' = {}
  /\ UNCHANGED <<raised, due, changed, worker, doSync, busy, left>>

\* GlobalInfo.success: the next one is due hours later.
SyncSucceeds ==
  /\ sync = "running" /\ sync' = "over"
  /\ due' = FALSE
  /\ UNCHANGED <<raised, changed, worker, doSync, busy, owed, left>>

\* handleError: the backoff starts at no wait at all.  cancel() also ends so,
\* or before the task has begun, which changes nothing.
SyncFails ==
  /\ Spend("faults")
  /\ \/ sync = "running" /\ due' \in BOOLEAN
     \/ sync = "created" /\ due' = due
  /\ sync' = "over"
  /\ UNCHANGED <<raised, changed, worker, doSync, busy, owed>>

\* Mutation of Unlock: the triggers are reset after the sync.
UnlockAndReset ==
  /\ busy \in {"worker", "web"} /\ sync = "over"
  /\ busy' = "nobody" /\ raised' = {}
  /\ worker' = IF busy = "worker" THEN "asleep" ELSE worker
  /\ UNCHANGED <<due, changed, doSync, sync, owed, left>>

\* _sync_wrapper resumes some turns of the event loop after its task is done.
Unlock ==
  /\ busy \in {"worker", "web"} /\ sync = "over"
  /\ busy' = "nobody"
  /\ worker' = IF busy = "worker" THEN "asleep" ELSE worker
  /\ UNCHANGED <<raised, due, changed, doSync, sync, owed, left>>

-----------------------------------------------------------------------------
(* The web UI, and the world                                               *)

WebSyncs ==
  /\ Spend("requests") /\ Start("web")
  /\ UNCHANGED <<raised, due, changed, worker, doSync, owed>>

\* delete, ignore, startBackup and uploadToProton hold the lock for a while.
Request ==
  /\ Spend("requests") /\ busy = "nobody" /\ busy' = "request"
  /\ UNCHANGED <<raised, due, changed, worker, doSync, sync, owed>>

RequestEnds ==
  /\ busy = "request" /\ busy' = "nobody"
  /\ UNCHANGED <<raised, due, changed, worker, doSync, sync, owed, left>>

\* Signing in or out, a pending backup that is done, new settings.
Raise(t) ==
  /\ t \notin raised /\ Spend("raises")
  /\ raised' = raised \union {t} /\ owed' = owed \union {t}
  /\ UNCHANGED <<due, changed, worker, doSync, busy, sync>>

FileChanges ==
  /\ ~changed /\ Spend("raises") /\ changed' = TRUE
  /\ UNCHANGED <<raised, due, worker, doSync, busy, sync, owed>>

ComesDue ==
  /\ ~due /\ due' = TRUE
  /\ UNCHANGED <<raised, changed, worker, doSync, busy, sync, owed, left>>

-----------------------------------------------------------------------------
Worker == Ask \/ Noticed \/ NoticeFails \/ WaitedEnough
Task   == SyncRuns \/ SyncSucceeds \/ SyncFails
World  == WebSyncs \/ Request \/ FileChanges \/ ComesDue
          \/ \E t \in Early \union Late : Raise(t)

Next == Worker \/ Task \/ Unlock \/ RequestEnds \/ World

Spec == Init /\ [][Next]_vars

\* The event loop resumes what can go on; nothing makes a sync due.
FairSpec == /\ Spec /\ WF_vars(Worker) /\ WF_vars(Task)
            /\ WF_vars(Unlock) /\ WF_vars(RequestEnds)

-----------------------------------------------------------------------------
(* Properties                                                              *)

\* A sync that is due runs, whatever fails and whoever holds the lock when the
\* worker tries (checkforSync lines 23-36, Coordinator.check lines 86-91).
DueServed == due ~> sync = "running"

\* A raised trigger is followed by a sync, also when it is raised while one
\* runs (Trigger.check resets it before the sync, lines 22-26), as long as no
\* request from the web UI takes the lock and nothing fails: otherwise the
\* worker, which has reset the trigger, may drop it (syncer.py lines 34-36).
Disturbed == busy \in {"request", "web"} \/ left.faults < MaxFaults
TriggersServed ==
  \A t \in Early \union Late : (t \in raised) ~> (t \notin owed \/ Disturbed)

\* No trigger is lost while the web UI asks for nothing and nothing fails, whatever
\* is raised between the worker's awaits: one that no sync has served yet is still
\* raised, or the worker knows that it must sync, or a sync is about to begin.
NoTriggerLost ==
  left.requests = MaxRequests /\ left.faults = MaxFaults =>
    \A t \in owed : t \in raised \/ (worker = "noticing" /\ doSync) \/ sync = "created"
=============================================================================
