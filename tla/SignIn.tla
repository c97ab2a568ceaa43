------------------------------- MODULE SignIn -------------------------------
(***************************************************************************)
(* The session of the proton-drive CLI, the sync that finds it gone, and   *)
(* the notification that tells the user so: without a session the add-on   *)
(* makes no backup at all.                                                 *)
(***************************************************************************)
EXTENDS CliSession, HaUpdater

vars == <<sessionVars, info, updater>>

TypeOK == SessionTypeOK /\ UpdaterTypeOK

Init == SessionInit /\ UpdaterInit

\* The sync ends in these two actions: without Proton Drive it ends well, but
\* makes no backup, so what was overdue stays so.
SyncEnds == \/ CommandReturns /\ SyncHeard(cli.says = "ok")
            \/ SyncWithout /\ SyncHeard(FALSE)

SyncGoesOn == (PreSync \/ PreSyncReturns \/ Get \/ GetProbed \/ Command)
                /\ UNCHANGED <<info, updater>>

Others == (Returns \/ LoginStep \/ Outside \/ UserAsks) /\ UNCHANGED <<info, updater>>

Updating == \/ (Update(auth) \/ Sent \/ Dismissed) /\ UNCHANGED sessionVars
            \/ /\ CallFails /\ Spend("faults")
               /\ UNCHANGED <<session, corrupt, belief, cli, sync, logins>>

NoteIsLost == /\ \E n \in Notes : NoteGoes(n) /\ Spend("asks")
              /\ UNCHANGED <<session, corrupt, belief, cli, sync, logins>>

TimePasses == TimeRunsOut /\ UNCHANGED sessionVars

Restarts == Restart /\ UpdaterRestarts

Next == \/ SyncEnds \/ SyncGoesOn \/ Others
        \/ Updating \/ NoteIsLost \/ TimePasses \/ Restarts

Spec == Init /\ [][Next]_vars

\* The workers call sync and update again and again, a command is killed when
\* it takes too long, and so is a sign-in that nobody completes.
FairSpec == /\ Spec
            /\ WF_vars(SyncEnds) /\ WF_vars(SyncGoesOn) /\ WF_vars(Updating)
            /\ WF_vars(Returns /\ UNCHANGED <<info, updater>>)
            /\ WF_vars(LoginStep /\ UNCHANGED <<info, updater>>)

-----------------------------------------------------------------------------
Paused == PausedWhile(auth)

\* A sign-in whose link the user was given stays the one that the add-on polls
\* until its process ends, whatever other sign-ins begin, end or are cancelled
\* (protoncli.py, startLogin and the end of _awaitLogin); and two sign-in
\* processes never wait for the user at once.
LinkStaysGood ==
  /\ \A l \in awaiting : proc[l] = "shown" =>
       loginProc = l /\ loginUrl = l /\ loginTask = l
  /\ Cardinality({l \in Logins : proc[l] \in {"quiet", "shown"}}) <= 1

\* Once the session stays, or stays away, the flag follows, also when a killed
\* command has broken the CLI's events.lock (protoncli.py, _runLocked, checkAuth
\* and _healCorruptEventsLock; protonsource.py, preSync).
FlagFollowsSession == /\ <>[]session => <>[]auth
                      /\ <>[](~session) => <>[](~auth)

\* When backups pause, the user is told (haupdater.py, _updateNotifications).
PauseIsTold == Paused ~> (~Paused \/ "paused" \in shown \union gone)

\* What no longer holds is taken back, unless the add-on forgot it had sent it.
NotesAreWithdrawn ==
  /\ ("paused" \in shown \ orphans) ~> ("paused" \notin shown \ orphans \/ Paused)
  /\ ("stale" \in shown \ orphans) ~> ("stale" \notin shown \ orphans \/ Stale)

\* The prompt to sign in and the generic warning never stand beside each other
\* (haupdater.py, "takes precedence over - and suppresses"), unless the add-on
\* forgot that it had sent one.
OneNotification == Notes \subseteq shown => orphans # {}
=============================================================================
