---------------------------- MODULE AddonStopper ----------------------------
(***************************************************************************)
(* The add-ons that the user wants stopped during a backup                 *)
(* (ha/addon_stopper.py).  stopAddons turns the watchdog of each off and   *)
(* stops it; check, run by a timer and at the end of a request, starts it  *)
(* again and turns its watchdog on.  Both hold one lock, but the flag that *)
(* says a backup is running is set outside of it.                          *)
(*                                                                         *)
(* The supervisor is external: a call to it may fail, and it may have done  *)
(* what it was asked all the same.  HaBackup says who calls these actions. *)
(***************************************************************************)
CONSTANTS
  Addons,   \* setting stop_addons
  Watched   \* those of them whose watchdog the user has turned on

ASSUME WatchedAssumption == Watched \subseteq Addons

VARIABLES
  running, watchdog,     \* the supervisor's view: the sets of add-ons
  mustStart, mustWatch,  \* must_start, must_enable_watchdog
  saved,                 \* stop_addon_state.json
  backingUp, allowed,    \* _backing_up, allow_run
  early,                 \* now <= stop_start_check_time
  lock,                  \* who holds the lock: "free", "stop", "start" or "watch"
  todo, cur,             \* the slugs left to look at, and in them the one being stopped
  changed,               \* check's local "changes"
  gaveUp                 \* history: the add-ons that a failed call left stopped or
                         \* without watchdog, with no note of it

addons == <<running, watchdog, gaveUp>>
notes  == <<mustStart, mustWatch, saved>>
flags  == <<backingUp, allowed, early>>
loop   == <<lock, todo, cur, changed>>
stopper == <<addons, notes, flags, loop>>

StopperTypeOK ==
  /\ {running, watchdog, mustStart, mustWatch, todo, gaveUp} \subseteq SUBSET Addons
  /\ saved \in [start : SUBSET Addons, watchdog : SUBSET Addons]
  /\ {backingUp, allowed, early, changed} \subseteq BOOLEAN
  /\ lock \in {"free", "stop", "start", "watch"}
  /\ cur \subseteq todo /\ \A a, b \in cur : a = b

\* What _save writes.
Memory == [start |-> mustStart, watchdog |-> mustWatch]

StopperInit ==
  /\ running = Addons /\ watchdog = Watched /\ gaveUp = {}
  /\ mustStart = {} /\ mustWatch = {}
  /\ saved = [start |-> {}, watchdog |-> {}]
  /\ backingUp = FALSE /\ allowed = FALSE /\ early = FALSE
  /\ lock = "free" /\ todo = {} /\ cur = {} /\ changed = FALSE

-----------------------------------------------------------------------------
(* stopAddons                                                              *)

StopAddons ==
  /\ lock = "free" /\ lock' = "stop"
  /\ backingUp' = TRUE /\ todo' = Addons
  /\ UNCHANGED <<addons, notes, allowed, early, cur, changed>>

\* getAddonInfo, and for one that is started its watchdog.
StopLook(s) ==
  /\ lock = "stop" /\ cur = {} /\ s \in todo
  /\ IF s \in running THEN cur' = {s} /\ todo' = todo ELSE cur' = cur /\ todo' = todo \ {s}
  /\ IF s \in running \cap watchdog
     THEN watchdog' = watchdog \ {s} /\ mustWatch' = mustWatch \union {s}
     ELSE UNCHANGED <<watchdog, mustWatch>>
  /\ UNCHANGED <<running, gaveUp, mustStart, saved, flags, lock, changed>>

\* The supervisor does what the failed call asked for: must_start and
\* must_enable_watchdog are not told.
OffUnnoted(stopped, unwatched) ==
  /\ running' = running \ stopped /\ watchdog' = watchdog \ unwatched
  /\ gaveUp' = gaveUp \union stopped \union unwatched

\* The supervisor does not answer for it, or the call that turns its watchdog off
\* fails.
StopLookFails(s) ==
  /\ lock = "stop" /\ cur = {} /\ s \in todo
  /\ \/ cur' = cur /\ todo' = todo \ {s} /\ UNCHANGED addons
     \/ /\ s \in running \cap watchdog /\ cur' = {s} /\ todo' = todo
        /\ \E off \in SUBSET {s} : OffUnnoted({}, off)
  /\ UNCHANGED <<notes, flags, lock, changed>>

StopOne ==
  /\ lock = "stop" /\ cur # {}
  /\ running' = running \ cur /\ mustStart' = mustStart \union cur
  /\ todo' = todo \ cur /\ cur' = {}
  /\ UNCHANGED <<watchdog, gaveUp, mustWatch, saved, flags, lock, changed>>

StopOneFails ==
  /\ lock = "stop" /\ cur # {}
  /\ todo' = todo \ cur /\ cur' = {}
  /\ \E off \in SUBSET cur : OffUnnoted(off, {})
  /\ UNCHANGED <<notes, flags, lock, changed>>

\* stopAddons is cancelled in the call it awaits: nothing is saved.
StopAborted ==
  /\ lock = "stop" /\ lock' = "free" /\ todo' = {} /\ cur' = {}
  /\ \/ \E off \in SUBSET cur : OffUnnoted(off, {})
     \/ cur = {} /\ \E s \in todo \cap running \cap watchdog : OffUnnoted({}, {s})
  /\ UNCHANGED <<notes, flags, changed>>

StopSaves ==
  /\ lock = "stop" /\ todo = {} /\ lock' = "free"
  /\ saved' = Memory
  /\ UNCHANGED <<addons, mustStart, mustWatch, flags, todo, cur, changed>>

-----------------------------------------------------------------------------
(* check, of the timer or of startAddons                                   *)

\* The flags that startAddons sets before it waits for the lock.
StartAddons == backingUp' = FALSE /\ early' = TRUE /\ allowed' = allowed

Check ==
  /\ lock = "free" /\ ~backingUp /\ allowed
  /\ mustStart \union mustWatch # {}
  /\ lock' = "start" /\ todo' = mustStart /\ changed' = FALSE
  /\ UNCHANGED <<addons, notes, flags, cur>>

\* One that is stopped is started; one that runs was never stopped, or its
\* supervisor has not seen it stop yet.
CheckStart(s) ==
  /\ lock = "start" /\ s \in todo /\ todo' = todo \ {s}
  /\ running' = running \union {s}
  /\ IF s \notin running \/ ~early
     THEN mustStart' = mustStart \ {s} /\ changed' = TRUE
     ELSE UNCHANGED <<mustStart, changed>>
  /\ UNCHANGED <<watchdog, gaveUp, mustWatch, saved, flags, lock, cur>>

CheckStartFails(s) ==
  /\ lock = "start" /\ s \in todo /\ todo' = todo \ {s}
  /\ mustStart' = mustStart \ {s} /\ changed' = TRUE
  /\ \/ running' = running \union {s} /\ gaveUp' = gaveUp
     \/ running' = running /\ gaveUp' = gaveUp \union ({s} \ running)
  /\ UNCHANGED <<watchdog, mustWatch, saved, flags, lock, cur>>

CheckTurns ==
  /\ lock = "start" /\ todo = {} /\ lock' = "watch" /\ todo' = mustWatch
  /\ UNCHANGED <<addons, notes, flags, cur, changed>>

\* The watchdog waits until its add-on is started.
CheckWatch(s) ==
  /\ lock = "watch" /\ s \in todo /\ todo' = todo \ {s}
  /\ IF s \in mustStart THEN UNCHANGED <<watchdog, mustWatch, changed>>
     ELSE watchdog' = watchdog \union {s} /\ mustWatch' = mustWatch \ {s} /\ changed' = TRUE
  /\ UNCHANGED <<running, gaveUp, mustStart, saved, flags, lock, cur>>

CheckWatchFails(s) ==
  /\ lock = "watch" /\ s \in todo \ mustStart /\ todo' = todo \ {s}
  /\ mustWatch' = mustWatch \ {s} /\ changed' = TRUE
  /\ \/ watchdog' = watchdog \union {s} /\ gaveUp' = gaveUp
     \/ watchdog' = watchdog /\ gaveUp' = gaveUp \union ({s} \ watchdog)
  /\ UNCHANGED <<running, mustStart, saved, flags, lock, cur>>

CheckSaves ==
  /\ lock = "watch" /\ todo = {} /\ lock' = "free"
  /\ saved' = (IF changed THEN Memory ELSE saved) /\ changed' = FALSE
  /\ UNCHANGED <<addons, mustStart, mustWatch, flags, todo, cur>>

-----------------------------------------------------------------------------
\* Mutation of AllowRun: only what the file lists is started.
AllowRunOfFile(busy) ==
  /\ allowed' = TRUE /\ backingUp' = busy /\ early' = early /\ mustStart' = mustStart

\* allowRun and isBackingUp, at the end of a sync.  The first time, all the
\* configured add-ons are started.
AllowRun(busy) ==
  /\ allowed' = TRUE /\ backingUp' = busy /\ early' = early
  /\ mustStart' = IF allowed THEN mustStart ELSE mustStart \union Addons

\* CHECK_DURATION passes.
TimePasses == early /\ early' = FALSE /\ UNCHANGED <<addons, notes, backingUp, allowed, loop>>

\* The add-on is killed and started again.
StopperRestarts ==
  /\ mustStart' = saved.start /\ mustWatch' = saved.watchdog
  /\ backingUp' = FALSE /\ allowed' = FALSE /\ early' = FALSE
  /\ lock' = "free" /\ todo' = {} /\ cur' = {} /\ changed' = FALSE
  /\ UNCHANGED <<addons, saved>>

StopStep == (\E s \in Addons : StopLook(s)) \/ StopOne
CheckStep == \/ \E s \in Addons : CheckStart(s) \/ CheckWatch(s)
             \/ CheckTurns \/ CheckSaves
Failure == \/ \E s \in Addons : StopLookFails(s) \/ CheckStartFails(s) \/ CheckWatchFails(s)
           \/ StopOneFails
=============================================================================
