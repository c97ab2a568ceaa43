----------------------------- MODULE CliSession -----------------------------
(***************************************************************************)
(* What the add-on believes about the session of the proton-drive CLI      *)
(* (proton/protoncli.py): the flag _authenticated, the warning beside it,  *)
(* the probe that sets both, and the interactive sign-in, whose process    *)
(* runs outside of the lock that serializes every other command.           *)
(*                                                                         *)
(* The session itself is a file of the CLI: it appears when a sign-in      *)
(* completes and goes with a sign-out or when Proton ends it.  A command   *)
(* looks at it (Answer) before the add-on hears of it (the Return actions).*)
(***************************************************************************)
EXTENDS Naturals, FiniteSets

CONSTANTS
  MaxLogins,   \* bound: sign-in processes
  MaxAsks,     \* bound: requests to re-check, sign out or cancel
  MaxFaults    \* bound: commands that fail, sessions that expire, restarts

ASSUME SessionBounds == MaxLogins \in Nat /\ MaxAsks \in Nat /\ MaxFaults \in Nat

VARIABLES
  session,    \* the CLI's session on disk is usable
  corrupt,    \* its events.lock cannot be parsed
  auth,       \* _authenticated
  warning,    \* _auth_warning, by its cause
  cli,        \* the holder of _cli_lock, and what its command answered
  sync,       \* where the sync is
  proc,       \* the sign-in processes, by number
  awaiting,   \* those with an _awaitLogin task
  loginProc, loginUrl, loginTask,   \* the fields of that name, 0 for None
  login,      \* the requests in startLogin or cancelLogin, and the login of each
  budget      \* what is left of the bounds

belief == <<auth, warning>>
fields == <<loginProc, loginUrl, loginTask>>
logins == <<proc, awaiting, fields, login>>
sessionVars == <<session, corrupt, belief, cli, sync, logins, budget>>

Logins  == 1 .. MaxLogins
Tabs    == {1, 2}
NoRequest == <<"free", 0>>
Answers == {"ok", "empty", "unauth", "net", "other", "signal"}
Idle    == [by |-> "free", says |-> "none"]
Running == {"quiet", "shown", "dying"}     \* no returncode yet

SessionTypeOK ==
  /\ {session, corrupt, auth} \subseteq BOOLEAN
  /\ warning \in {"none", "signal", "other"}
  /\ cli \in [by : {"free", "probe", "get", "command", "recheck", "logout"},
              says : Answers \union {"none"}]
  /\ sync \in {"idle", "probe", "ready", "get", "wait", "command"}
  /\ proc \in [Logins -> {"unborn", "quiet", "shown", "dying", "ok", "bad", "mute", "gone"}]
  /\ awaiting \subseteq Logins
  /\ {loginProc, loginUrl, loginTask} \subseteq 0 .. MaxLogins
  /\ login \in [Tabs -> {"free", "start", "cancel", "read"} \X (0 .. MaxLogins)]
  /\ budget \in [logins : Nat, asks : Nat, faults : Nat]

SessionInit ==
  /\ session \in BOOLEAN /\ corrupt = FALSE
  /\ auth = FALSE /\ warning = "none"
  /\ cli = Idle /\ sync = "idle"
  /\ proc = [l \in Logins |-> "unborn"] /\ awaiting = {}
  /\ loginProc = 0 /\ loginUrl = 0 /\ loginTask = 0
  /\ login = [t \in Tabs |-> NoRequest]
  /\ budget = [logins |-> MaxLogins, asks |-> MaxAsks, faults |-> MaxFaults]

Spend(what) == budget[what] > 0 /\ budget' = [budget EXCEPT ![what] = @ - 1]

InProgress == loginProc # 0 /\ proc[loginProc] \in Running
Busy       == cli.by # "free" \/ InProgress

-----------------------------------------------------------------------------
(* The commands                                                            *)

Run(who) == cli' = [by |-> who, says |-> "none"]

\* The child has looked at the session.  A broken events.lock makes it fail
\* once: the add-on deletes the file and runs the command again.
Answer ==
  /\ cli.by # "free" /\ cli.says = "none"
  /\ \E says \in Answers :
       /\ IF says = (IF session THEN "ok" ELSE "unauth")
            THEN UNCHANGED budget ELSE Spend("faults")
       /\ says = "unauth" => ~session
       /\ says \in {"ok", "empty"} => session
       /\ says = "empty" => cli.by \notin {"command", "logout"}
       /\ corrupt' = (corrupt /\ says = "signal")
       /\ cli' = [cli EXCEPT !.says = says]
       /\ session' = (session /\ ~(cli.by = "logout" /\ says = "ok"))
  /\ UNCHANGED <<belief, sync, logins>>

\* Mutation of Probed: any failure is a warning.
ProbedLoudly(says) ==
  /\ auth' = IF says \in {"ok", "empty", "unauth"} THEN says = "ok" ELSE auth
  /\ warning' = IF says \in {"ok", "empty", "unauth"} THEN "none" ELSE says

\* What checkAuth makes of the answer to its probe.
Probed(says) ==
  /\ auth' = IF says \in {"ok", "empty", "unauth"} THEN says = "ok" ELSE auth
  /\ warning' = CASE says \in {"ok", "empty", "unauth"} -> "none"
                  [] says = "net" -> IF auth THEN warning ELSE "none"
                  [] says = "signal" -> "signal"
                  [] says = "other" -> IF auth THEN "other" ELSE "none"

\* What _runLocked makes of the answer to any other command.
Failed(says) ==
  /\ auth' = (auth /\ says # "unauth")
  /\ warning' = IF says = "unauth" THEN "none" ELSE warning

Recheck ==
  /\ ~Busy /\ Run("recheck") /\ Spend("asks")
  /\ UNCHANGED <<session, corrupt, belief, sync, logins>>

RecheckReturns ==
  /\ cli.by = "recheck" /\ cli.says # "none"
  /\ Probed(cli.says) /\ cli' = Idle
  /\ UNCHANGED <<session, corrupt, sync, logins, budget>>

\* logout refuses to wait behind another command, but not behind a sign-in.
Logout ==
  /\ cli.by = "free" /\ Run("logout") /\ Spend("asks")
  /\ UNCHANGED <<session, corrupt, belief, sync, logins>>

LogoutReturns ==
  /\ cli.by = "logout" /\ cli.says # "none"
  /\ IF cli.says \in {"net", "signal"}
       THEN UNCHANGED belief
       ELSE auth' = FALSE /\ warning' = "none"
  /\ cli' = Idle
  /\ UNCHANGED <<session, corrupt, sync, logins, budget>>

-----------------------------------------------------------------------------
(* The sync, as far as it meets the session                                *)

\* Mutation of PreSync: the sync does not probe a session it thinks is gone.
PreSyncBlind ==
  /\ sync = "idle" /\ sync' = "ready"
  /\ UNCHANGED <<session, corrupt, belief, cli, logins, budget>>

\* preSync: only a signed-out session is probed, and only if nothing else runs.
PreSync ==
  /\ sync = "idle"
  /\ IF auth \/ Busy
       THEN sync' = "ready" /\ UNCHANGED cli
       ELSE sync' = "probe" /\ Run("probe")
  /\ UNCHANGED <<session, corrupt, belief, logins, budget>>

PreSyncReturns ==
  /\ cli.by = "probe" /\ cli.says # "none"
  /\ Probed(cli.says) /\ cli' = Idle /\ sync' = "ready"
  /\ UNCHANGED <<session, corrupt, logins, budget>>

\* get() begins with a probe of its own; without a session there is no get().
Get ==
  /\ sync = "ready" /\ auth
  /\ IF Busy THEN sync' = "wait" /\ UNCHANGED cli
             ELSE sync' = "get" /\ Run("get")
  /\ UNCHANGED <<session, corrupt, belief, logins, budget>>

\* It goes on whatever the probe says.
GetProbed ==
  /\ cli.by = "get" /\ cli.says # "none"
  /\ Probed(cli.says) /\ cli' = Idle /\ sync' = "wait"
  /\ UNCHANGED <<session, corrupt, logins, budget>>

Command ==
  /\ sync = "wait" /\ cli.by = "free"
  /\ sync' = "command" /\ Run("command")
  /\ UNCHANGED <<session, corrupt, belief, logins, budget>>

\* The sync ends, with an error unless its command went well.
CommandReturns ==
  /\ cli.by = "command" /\ cli.says # "none"
  /\ Failed(cli.says) /\ cli' = Idle /\ sync' = "idle"
  /\ UNCHANGED <<session, corrupt, logins, budget>>

\* Proton Drive is left out of the sync.
SyncWithout ==
  /\ sync = "ready" /\ ~auth /\ sync' = "idle"
  /\ UNCHANGED <<session, corrupt, belief, cli, logins, budget>>

SyncStep == PreSync \/ PreSyncReturns \/ Get \/ GetProbed \/ Command
              \/ CommandReturns \/ SyncWithout

-----------------------------------------------------------------------------
(* The sign-in                                                             *)

ClearFields(l) ==
  /\ loginProc' = IF loginProc = l THEN 0 ELSE loginProc
  /\ loginUrl' = IF loginProc = l THEN 0 ELSE loginUrl
  /\ loginTask' = IF loginTask = l THEN 0 ELSE loginTask

\* _cancelLoginLocked forgets the login before it kills its process.
Take(t, why) ==
  /\ login[t] = NoRequest
  /\ login' = [login EXCEPT ![t] = <<why, loginProc>>]
  /\ loginProc' = 0 /\ loginUrl' = 0 /\ loginTask' = 0
  /\ proc' = [l \in Logins |-> IF l = loginProc /\ proc[l] \in Running
                                 THEN "dying" ELSE proc[l]]

\* Mutation of LoginLocked: two tabs are let in at once.
LoginUnlocked == \A t \in Tabs : login[t] # NoRequest

\* _login_lock is held.
LoginLocked == \E t \in Tabs : login[t] # NoRequest

\* A pending login with a link is handed to a second caller.
StartLogin(t) ==
  /\ ~LoginLocked
  /\ ~(InProgress /\ loginUrl # 0)
  /\ Take(t, "start") /\ Spend("logins")
  /\ UNCHANGED <<session, corrupt, belief, cli, sync, awaiting>>

CancelLogin(t) ==
  /\ ~LoginLocked
  /\ Take(t, "cancel") /\ Spend("asks")
  /\ UNCHANGED <<session, corrupt, belief, cli, sync, awaiting>>

Reaped(t) == [l \in Logins |-> IF l = login[t][2] THEN "gone" ELSE proc[l]]
Done(t) == login' = [login EXCEPT ![t] = NoRequest]

CancelEnds(t) ==
  /\ login[t][1] = "cancel"
  /\ proc' = Reaped(t) /\ awaiting' = awaiting \ {login[t][2]} /\ Done(t)
  /\ UNCHANGED <<session, corrupt, belief, cli, sync, fields, budget>>

\* The old process is reaped, its task cancelled, and a new process started.
Spawn(t) ==
  /\ login[t][1] = "start"
  /\ \E l \in Logins :
       /\ proc[l] = "unborn" /\ \A k \in 1 .. l - 1 : proc[k] # "unborn"
       /\ proc' = [Reaped(t) EXCEPT ![l] = "quiet"]
       /\ awaiting' = awaiting \ {login[t][2]}
       /\ loginProc' = l /\ login' = [login EXCEPT ![t] = <<"read", l>>]
  /\ UNCHANGED <<session, corrupt, belief, cli, sync, loginUrl, loginTask, budget>>

\* _readLoginUrl has found the link.
LinkRead(t) ==
  LET l == login[t][2] IN
  /\ login[t][1] = "read" /\ proc[l] \in {"shown", "ok", "bad"}
  /\ loginUrl' = l /\ loginTask' = l
  /\ awaiting' = awaiting \union {l} /\ Done(t)
  /\ UNCHANGED <<session, corrupt, belief, cli, sync, proc, loginProc, budget>>

\* The process ended before it showed one, or 45 seconds went by.
LinkMissing(t) ==
  LET l == login[t][2] IN
  /\ login[t][1] = "read" /\ proc[l] \in {"quiet", "mute"}
  /\ proc' = [proc EXCEPT ![l] = "gone"]
  /\ ClearFields(l) /\ Done(t)
  /\ UNCHANGED <<session, corrupt, belief, cli, sync, awaiting, budget>>

\* The process: prints the link, ends without it, or with the user's sign-in.
LinkShown(l) ==
  /\ proc[l] = "quiet" /\ ~corrupt
  /\ proc' = [proc EXCEPT ![l] = "shown"]
  /\ UNCHANGED <<session, corrupt, belief, cli, sync, awaiting, fields, login, budget>>

LoginFails(l) ==
  /\ proc[l] \in {"quiet", "shown"}
  /\ proc' = [proc EXCEPT ![l] = IF @ = "shown" THEN "bad" ELSE "mute"]
  /\ UNCHANGED <<session, corrupt, belief, cli, sync, awaiting, fields, login, budget>>

UserSignsIn(l) ==
  /\ proc[l] = "shown"
  /\ proc' = [proc EXCEPT ![l] = "ok"] /\ session' = TRUE
  /\ UNCHANGED <<corrupt, belief, cli, sync, awaiting, fields, login, budget>>

\* _awaitLogin: the process has ended, or 10 minutes went by and it is killed.
LoginEnds(l) ==
  /\ l \in awaiting /\ proc[l] # "dying"
  /\ proc' = [proc EXCEPT ![l] = "gone"]
  /\ auth' = (auth \/ proc[l] = "ok")
  /\ warning' = IF proc[l] = "ok" THEN "none" ELSE warning
  /\ awaiting' = awaiting \ {l} /\ ClearFields(l)
  /\ UNCHANGED <<session, corrupt, cli, sync, login, budget>>

LoginStep == \/ \E t \in Tabs : CancelEnds(t) \/ Spawn(t) \/ LinkRead(t) \/ LinkMissing(t)
             \/ \E l \in Logins : LoginEnds(l)

-----------------------------------------------------------------------------
(* What happens to the session outside                                     *)

SessionExpires ==
  /\ session /\ session' = FALSE /\ Spend("faults")
  /\ UNCHANGED <<corrupt, belief, cli, sync, logins>>

LockBreaks ==
  /\ ~corrupt /\ corrupt' = TRUE /\ Spend("faults")
  /\ UNCHANGED <<session, belief, cli, sync, logins>>

\* The container restarts: its children die with it.  start() probes, as
\* the first sync does.
Restart ==
  /\ Spend("faults")
  /\ auth' = FALSE /\ warning' = "none" /\ cli' = Idle /\ sync' = "idle"
  /\ proc' = [l \in Logins |-> IF proc[l] = "unborn" THEN "unborn" ELSE "gone"]
  /\ awaiting' = {} /\ loginProc' = 0 /\ loginUrl' = 0 /\ loginTask' = 0
  /\ login' = [t \in Tabs |-> NoRequest]
  /\ UNCHANGED <<session, corrupt>>

Outside == SessionExpires \/ LockBreaks \/ \E l \in Logins :
             LinkShown(l) \/ LoginFails(l) \/ UserSignsIn(l)

\* Which tab asks makes no difference while only one is let in.
UserAsks == \/ Recheck \/ Logout
            \/ \E t \in Tabs : /\ \A u \in Tabs : u < t => login[u] # NoRequest
                             /\ (StartLogin(t) \/ CancelLogin(t))

\* Every command ends or times out, and every request returns.
Returns == Answer \/ RecheckReturns \/ LogoutReturns
=============================================================================
