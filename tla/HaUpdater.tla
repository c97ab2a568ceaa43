----------------------------- MODULE HaUpdater ------------------------------
(***************************************************************************)
(* The notifications that Home Assistant shows for the add-on              *)
(* (ha/haupdater.py, _updateNotifications).  Every few minutes the updater *)
(* compares two conditions with two flags and sends or dismisses.  Each    *)
(* call awaits Home Assistant, the conditions are read between the calls,  *)
(* and the flags live in memory only.                                      *)
(***************************************************************************)
EXTENDS Naturals

CONSTANTS
  Enabled   \* setting enable_proton_upload

ASSUME EnabledAssumption == Enabled \in BOOLEAN

VARIABLES
  firstSync,   \* GlobalInfo._first_sync
  late,        \* the last success, or the next backup, is overdue
  told,        \* _notified and _paused_notified: which flags are set
  shown,       \* external: the notifications Home Assistant shows
  orphans,     \* history: sent before a restart, or sent and the answer lost
  gone,        \* history: gone, but not by a call the updater knows of
  calling,     \* the call the updater awaits
  paused       \* _updateNotifications' local "paused"

info == <<firstSync, late>>
updater == <<told, shown, orphans, gone, calling, paused>>

Notes == {"paused", "stale"}
NoCall == <<"none", "none">>

UpdaterTypeOK ==
  /\ {firstSync, late, paused} \subseteq BOOLEAN
  /\ {told, shown, orphans, gone} \subseteq SUBSET Notes
  /\ calling \in ({"send", "dismiss"} \X Notes) \union {NoCall}

UpdaterInit ==
  /\ firstSync = TRUE /\ late = FALSE
  /\ told = {} /\ shown = {} /\ orphans = {} /\ gone = {}
  /\ calling = NoCall /\ paused = FALSE

\* backupsPausedForProtonAuth
PausedWhile(signedIn) == ~firstSync /\ Enabled /\ ~signedIn

\* _stale
Stale == ~firstSync /\ late

\* Mutation of NextCall: the prompt to sign in leaves the generic one alone.
NextCallBeside(pausing, flags) ==
  CASE pausing /\ "paused" \notin flags -> <<"send", "paused">>
    [] ~pausing /\ "paused" \in flags -> <<"dismiss", "paused">>
    [] ~pausing /\ flags = {} /\ Stale -> <<"send", "stale">>
    [] ~pausing /\ flags = {"stale"} /\ ~Stale -> <<"dismiss", "stale">>
    [] OTHER -> NoCall

\* What _updateNotifications calls next, with these flags.
NextCall(pausing, flags) ==
  CASE pausing /\ "stale" \in flags -> <<"dismiss", "stale">>
    [] pausing /\ flags = {} -> <<"send", "paused">>
    [] ~pausing /\ "paused" \in flags -> <<"dismiss", "paused">>
    [] ~pausing /\ flags = {} /\ Stale -> <<"send", "stale">>
    [] ~pausing /\ flags = {"stale"} /\ ~Stale -> <<"dismiss", "stale">>
    [] OTHER -> NoCall

Update(signedIn) ==
  /\ calling = NoCall
  /\ paused' = PausedWhile(signedIn)
  /\ calling' = NextCall(paused', told) /\ calling' # NoCall
  /\ UNCHANGED <<told, shown, orphans, gone, info>>

\* A dismissal of the other notification comes first in the same update.
Goes(flags) ==
  /\ told' = flags
  /\ calling' = IF calling[1] = "dismiss" /\ (paused <=> calling[2] = "stale")
                  THEN NextCall(paused, flags) ELSE NoCall

Sent ==
  /\ calling[1] = "send" /\ Goes(told \union {calling[2]})
  /\ shown' = shown \union {calling[2]}
  /\ orphans' = orphans \ {calling[2]} /\ gone' = gone \ {calling[2]}
  /\ UNCHANGED <<paused, info>>

\* Mutation of Dismissed: the flag is kept.
DismissedOnly ==
  /\ calling[1] = "dismiss" /\ Goes(told)
  /\ shown' = shown \ {calling[2]} /\ orphans' = orphans \ {calling[2]}
  /\ gone' = gone \ {calling[2]}
  /\ UNCHANGED <<paused, info>>

Dismissed ==
  /\ calling[1] = "dismiss" /\ Goes(told \ {calling[2]})
  /\ shown' = shown \ {calling[2]} /\ orphans' = orphans \ {calling[2]}
  /\ gone' = gone \ {calling[2]}
  /\ UNCHANGED <<paused, info>>

\* Mutation of CallFails: the flag is set although the call failed.
CallFailsUnheard ==
  /\ calling # NoCall /\ calling' = NoCall
  /\ told' = IF calling[1] = "send" THEN told \union {calling[2]} ELSE told \ {calling[2]}
  /\ UNCHANGED <<shown, orphans, gone, paused, info>>

\* The update ends with an exception; Home Assistant may have done the call.
CallFails ==
  /\ calling # NoCall /\ calling' = NoCall
  /\ \/ UNCHANGED <<shown, orphans, gone>>
     \/ /\ calling[1] = "send" /\ UNCHANGED gone
        /\ shown' = shown \union {calling[2]} /\ orphans' = orphans \union {calling[2]}
     \/ /\ calling[1] = "dismiss" /\ UNCHANGED orphans
        /\ shown' = shown \ {calling[2]} /\ gone' = gone \union {calling[2]}
  /\ UNCHANGED <<told, paused, info>>

NoteGoes(n) ==
  /\ n \in shown /\ shown' = shown \ {n} /\ gone' = gone \union {n}
  /\ orphans' = orphans \ {n}
  /\ UNCHANGED <<told, calling, paused, info>>

TimeRunsOut ==
  /\ ~firstSync /\ ~late /\ late' = TRUE
  /\ UNCHANGED <<firstSync, updater>>

\* GlobalInfo.success and failed, called at the end of every sync.
SyncHeard(ok) ==
  /\ firstSync' = FALSE /\ late' = (late /\ ~ok)
  /\ UNCHANGED updater

UpdaterRestarts ==
  /\ firstSync' = TRUE /\ late' = FALSE
  /\ told' = {} /\ calling' = NoCall /\ paused' = FALSE
  /\ orphans' = shown
  /\ UNCHANGED <<shown, gone>>
=============================================================================
