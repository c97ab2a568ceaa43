---------------------------- MODULE SignInProofs ----------------------------
(***************************************************************************)
(* That a sign-in link stays good and that two notifications never stand   *)
(* beside each other, for any number of sign-ins, requests and faults.     *)
(* The session and the updater share no variable, so that each has an      *)
(* invariant of its own.                                                   *)
(***************************************************************************)
EXTENDS SignIn, FiniteSetTheorems, TLAPS

\* What a step of the whole does to the session: one of its own actions, a
\* fault or request that is only counted, or nothing.
Counted == \E what \in {"asks", "faults"} :
             Spend(what) /\ UNCHANGED <<session, corrupt, belief, cli, sync, logins>>
SessionMoves == \/ SyncStep \/ Returns \/ LoginStep \/ Outside \/ UserAsks \/ Restart
                \/ Counted \/ UNCHANGED sessionVars

\* And what it does to the updater.
UpdaterMoves == \/ \E ok \in BOOLEAN : SyncHeard(ok)
                \/ Update(auth) \/ Sent \/ Dismissed \/ CallFails
                \/ \E n \in Notes : NoteGoes(n)
                \/ TimeRunsOut \/ UpdaterRestarts \/ UNCHANGED <<info, updater>>

LEMMA Parts == Next => SessionMoves /\ UpdaterMoves
<1> SUFFICES ASSUME Next PROVE SessionMoves /\ UpdaterMoves
  OBVIOUS
<1>1. CASE SyncEnds
  <2>1. SyncStep
    BY <1>1 DEF SyncEnds, SyncStep
  <2>2. \E ok \in BOOLEAN : SyncHeard(ok)
    <3>1. CASE SyncHeard(cli.says = "ok")
      BY <3>1
    <3>2. CASE SyncHeard(FALSE)
      BY <3>2
    <3> QED
      BY <1>1, <3>1, <3>2 DEF SyncEnds
  <2> QED
    BY <2>1, <2>2 DEF SessionMoves, UpdaterMoves
<1>2. CASE SyncGoesOn
  BY <1>2 DEF SyncGoesOn, SyncStep, SessionMoves, UpdaterMoves
<1>3. CASE Others
  BY <1>3 DEF Others, SessionMoves, UpdaterMoves
<1>4. CASE Updating
  BY <1>4 DEF Updating, SessionMoves, UpdaterMoves, Counted
<1>5. CASE NoteIsLost
  BY <1>5 DEF NoteIsLost, SessionMoves, UpdaterMoves, Counted
<1>6. CASE TimePasses
  BY <1>6 DEF TimePasses, SessionMoves, UpdaterMoves
<1>7. CASE Restarts
  BY <1>7 DEF Restarts, SessionMoves, UpdaterMoves
<1> QED
  BY <1>1, <1>2, <1>3, <1>4, <1>5, <1>6, <1>7 DEF Next

-----------------------------------------------------------------------------
(* The updater                                                             *)

\* A notification that shows and is not forgotten has its flag; at most one
\* flag is set; and none is set while a notification is being sent.
FlagsOK == /\ shown \ orphans \subseteq told
           /\ told # Notes
           /\ calling[1] = "send" => told = {}

NInv == UpdaterTypeOK /\ FlagsOK

\* The next call is a call, and it sends only when no flag is set.
LEMMA NextCallSends ==
  ASSUME NEW pausing, NEW flags
  PROVE  /\ NextCall(pausing, flags) \in ({"send", "dismiss"} \X Notes) \union {NoCall}
         /\ NextCall(pausing, flags)[1] = "send" => flags = {}
BY DEF NextCall, NoCall, Notes

LEMMA UpdaterInitOK == UpdaterInit => NInv
BY DEF UpdaterInit, NInv, UpdaterTypeOK, FlagsOK, NoCall, Notes

\* Where an answered call leads: to another call, or to none.
LEMMA GoesOn ==
  ASSUME NEW flags, Goes(flags)
  PROVE  /\ told' = flags
         /\ calling' \in ({"send", "dismiss"} \X Notes) \union {NoCall}
         /\ calling'[1] = "send" => flags = {}
BY NextCallSends DEF Goes, NoCall

\* Every step of the updater keeps its invariant.
LEMMA UpdaterStep == ASSUME NInv, UpdaterMoves PROVE NInv'
<1> USE DEF NInv, UpdaterTypeOK, FlagsOK, info, updater
<1>1. ASSUME NEW ok \in BOOLEAN, SyncHeard(ok) PROVE NInv'
  <2>1. late' \in BOOLEAN /\ firstSync' \in BOOLEAN
    BY Zenon, <1>1 DEF SyncHeard
  <2> QED
    BY <1>1, <2>1 DEF SyncHeard
<1>2. CASE Update(auth)
  <2>1. paused' \in BOOLEAN
    BY Zenon, <1>2 DEF Update, PausedWhile
  <2>2. /\ calling' \in ({"send", "dismiss"} \X Notes) \union {NoCall}
        /\ calling'[1] = "send" => told = {}
    BY <1>2, NextCallSends DEF Update
  <2> QED
    BY <1>2, <2>1, <2>2 DEF Update
<1>3. CASE Sent
  <2>1. PICK n \in Notes : calling = <<"send", n>>
    BY <1>3 DEF Sent, NoCall
  <2>2. told = {} /\ told' = {n}
    BY <1>3, <2>1, GoesOn DEF Sent
  <2>3. /\ calling' \in ({"send", "dismiss"} \X Notes) \union {NoCall}
        /\ calling'[1] # "send"
    BY <1>3, <2>1, <2>2, GoesOn DEF Sent
  <2> QED
    BY <1>3, <2>1, <2>2, <2>3 DEF Sent, Notes
<1>4. CASE Dismissed
  <2>1. PICK n \in Notes : calling = <<"dismiss", n>>
    BY <1>4 DEF Dismissed, NoCall
  <2>2. /\ told' = told \ {n}
        /\ calling' \in ({"send", "dismiss"} \X Notes) \union {NoCall}
        /\ calling'[1] = "send" => told' = {}
    BY <1>4, <2>1, GoesOn DEF Dismissed
  <2> QED
    BY <1>4, <2>1, <2>2 DEF Dismissed, Notes
<1>5. CASE CallFails
  <2>1. PICK why \in {"send", "dismiss"}, n \in Notes : calling = <<why, n>>
    BY <1>5 DEF CallFails
  <2> QED
    BY <1>5, <2>1 DEF CallFails, NoCall
<1>6. ASSUME NEW n \in Notes, NoteGoes(n) PROVE NInv'
  BY <1>6 DEF NoteGoes
<1>7. CASE TimeRunsOut
  BY <1>7 DEF TimeRunsOut
<1>8. CASE UpdaterRestarts
  BY <1>8 DEF UpdaterRestarts, NoCall, Notes
<1>9. CASE UNCHANGED <<info, updater>>
  BY <1>9
<1> QED
  BY <1>1, <1>2, <1>3, <1>4, <1>5, <1>6, <1>7, <1>8, <1>9 DEF UpdaterMoves

-----------------------------------------------------------------------------
(* The sign-in                                                             *)

\* The login lock lets one request in; a request that is let in has forgotten
\* the login before it, or waits for the link of the one it began.
LockOK == /\ \A t, u \in Tabs : login[t] # NoRequest /\ login[u] # NoRequest => t = u
          /\ \A t \in Tabs : login[t][1] = "free" => login[t] = NoRequest
          /\ \A t \in Tabs : login[t][1] \in {"start", "cancel"} =>
               loginProc = 0 /\ loginUrl = 0 /\ loginTask = 0
          /\ \A t \in Tabs : login[t][1] = "read" =>
               /\ loginProc = login[t][2] /\ login[t][2] \in Logins \ awaiting
               /\ proc[login[t][2]] # "unborn"

\* A process that waits for the user is the one of the fields.
OwnProcess == \A l \in Logins : proc[l] \in {"quiet", "shown"} => loginProc = l

\* A task waits for a process that has begun and has shown its link.
Watched == \A l \in awaiting :
  /\ proc[l] \notin {"unborn", "quiet"}
  /\ proc[l] = "shown" => loginUrl = l /\ loginTask = l

LoginsOK == LockOK /\ OwnProcess /\ Watched

\* The part of the type invariant that the sign-in needs.
LoginTypes ==
  /\ proc \in [Logins -> {"unborn", "quiet", "shown", "dying", "ok", "bad", "mute", "gone"}]
  /\ awaiting \subseteq Logins
  /\ loginProc \in 0 .. MaxLogins /\ loginUrl \in 0 .. MaxLogins /\ loginTask \in 0 .. MaxLogins
  /\ login \in [Tabs -> {"free", "start", "cancel", "read"} \X (0 .. MaxLogins)]

SInv == LoginTypes /\ LoginsOK

LEMMA Numbers == Logins \subseteq 0 .. MaxLogins /\ 0 \in 0 .. MaxLogins /\ 0 \notin Logins
BY SessionBounds DEF Logins

LEMMA SessionInitOK == SessionInit => SInv
BY Numbers DEF SessionInit, SInv, LoginTypes, LoginsOK, LockOK, OwnProcess, Watched, NoRequest

\* A request that begins forgets the login, so that no process waits on.
LEMMA Takes ==
  ASSUME SInv, NEW t \in Tabs, NEW why \in {"start", "cancel"},
         ~LoginLocked, Take(t, why), UNCHANGED awaiting
  PROVE  SInv'
<1> USE Numbers DEF SInv, LoginTypes, LoginsOK, Take
<1>1. LoginTypes'
  OBVIOUS
<1>2. \A l \in Logins : proc'[l] \notin {"quiet", "shown"}
  BY DEF OwnProcess, Running
<1>3. OwnProcess'
  BY <1>2 DEF OwnProcess
<1>4. Watched'
  <2>1. \A l \in Logins : proc'[l] = "unborn" => proc[l] = "unborn"
    OBVIOUS
  <2> QED
    BY <1>2, <2>1 DEF Watched
<1>5. LockOK'
  BY DEF LockOK, LoginLocked, NoRequest
<1> QED
  BY <1>1, <1>3, <1>4, <1>5

\* The steps of a request that was let in.
LEMMA Requested ==
  ASSUME SInv, NEW t \in Tabs, CancelEnds(t) \/ Spawn(t) \/ LinkRead(t) \/ LinkMissing(t)
  PROVE  SInv'
<1> USE Numbers DEF SInv, LoginTypes, LoginsOK
<1>1. CASE CancelEnds(t)
  <2> USE <1>1 DEF CancelEnds, Reaped, Done, fields
  <2>1. LoginTypes'
    BY DEF NoRequest
  <2>2. OwnProcess' /\ Watched'
    BY DEF OwnProcess, Watched
  <2>3. LockOK'
    BY DEF LockOK, NoRequest
  <2> QED
    BY <2>1, <2>2, <2>3
<1>2. CASE Spawn(t)
  <2>1. PICK l \in Logins :
          /\ proc[l] = "unborn"
          /\ proc' = [Reaped(t) EXCEPT ![l] = "quiet"]
          /\ awaiting' = awaiting \ {login[t][2]}
          /\ loginProc' = l /\ login' = [login EXCEPT ![t] = <<"read", l>>]
    BY <1>2 DEF Spawn
  <2>2. login[t][1] = "start" /\ UNCHANGED <<loginUrl, loginTask>>
    BY <1>2 DEF Spawn
  <2>3. \A k \in Logins : proc'[k] = IF k = l THEN "quiet"
                                     ELSE IF k = login[t][2] THEN "gone" ELSE proc[k]
    BY <2>1 DEF Reaped
  <2>4. \A k \in Logins : proc[k] \notin {"quiet", "shown"}
    BY <2>2 DEF LockOK, OwnProcess
  <2>5. l \notin awaiting
    BY <2>1 DEF Watched
  <2>6. LoginTypes'
    BY <2>1, <2>2 DEF Reaped
  <2>7. OwnProcess'
    BY <2>1, <2>3, <2>4 DEF OwnProcess
  <2>8. Watched'
    BY <2>1, <2>3, <2>4, <2>5 DEF Watched
  <2>9. LockOK'
    <3>1. \A u \in Tabs : u # t => login[u] = NoRequest /\ login'[u] = NoRequest
      BY <2>1, <2>2 DEF LockOK, NoRequest
    <3>2. login'[t] = <<"read", l>>
      BY <2>1
    <3> QED
      BY <2>1, <2>3, <2>5, <3>1, <3>2 DEF LockOK, NoRequest
  <2> QED
    BY <2>6, <2>7, <2>8, <2>9
<1>3. CASE LinkRead(t)
  <2> USE <1>3 DEF LinkRead, Done
  <2>1. /\ login[t][2] \in Logins \ awaiting /\ loginProc = login[t][2]
        /\ loginUrl' = loginProc /\ loginTask' = loginProc
        /\ awaiting' = awaiting \union {loginProc} /\ UNCHANGED <<proc, loginProc>>
    BY DEF LockOK
  <2>2. \A u \in Tabs : login'[u] = NoRequest
    BY DEF LockOK, NoRequest
  <2>3. LoginTypes'
    BY <2>1 DEF NoRequest
  <2>4. OwnProcess' /\ Watched'
    BY <2>1 DEF OwnProcess, Watched
  <2>5. LockOK'
    BY <2>2 DEF LockOK, NoRequest
  <2> QED
    BY <2>3, <2>4, <2>5
<1>4. CASE LinkMissing(t)
  <2> USE <1>4 DEF LinkMissing, Done
  <2>1. /\ login[t][2] \in Logins \ awaiting /\ loginProc = login[t][2]
        /\ proc' = [proc EXCEPT ![loginProc] = "gone"] /\ UNCHANGED awaiting
    BY DEF LockOK
  <2>2. \A u \in Tabs : login'[u] = NoRequest
    BY DEF LockOK, NoRequest
  <2>3. LoginTypes'
    BY <2>1 DEF NoRequest, ClearFields
  <2>4. OwnProcess'
    BY <2>1 DEF OwnProcess
  <2>5. Watched'
    <3>1. \A l \in awaiting : l # loginProc /\ proc[l] # "shown" /\ proc'[l] = proc[l]
      BY <2>1 DEF Watched, OwnProcess
    <3> QED
      BY <2>1, <3>1 DEF Watched
  <2>6. LockOK'
    BY <2>2 DEF LockOK, NoRequest
  <2> QED
    BY <2>3, <2>4, <2>5, <2>6
<1> QED
  BY <1>1, <1>2, <1>3, <1>4

\* The task of a sign-in ends, and clears only the fields that are its own.
LEMMA Ends == ASSUME SInv, NEW l \in Logins, LoginEnds(l) PROVE SInv'
<1> USE Numbers DEF SInv, LoginTypes, LoginsOK, LoginEnds, ClearFields
<1>1. LoginTypes'
  OBVIOUS
<1>2. \A k \in Logins : proc'[k] = IF k = l THEN "gone" ELSE proc[k]
  OBVIOUS
<1>3. OwnProcess'
  BY <1>2 DEF OwnProcess
<1>4. Watched'
  BY <1>2 DEF Watched, OwnProcess
<1>5. LockOK'
  BY <1>2 DEF LockOK
<1> QED
  BY <1>1, <1>3, <1>4, <1>5

\* What the process of a sign-in does by itself.
LEMMA ProcessActs ==
  ASSUME SInv, NEW l \in Logins, LinkShown(l) \/ LoginFails(l) \/ UserSignsIn(l)
  PROVE  SInv'
<1> USE DEF SInv, LoginTypes, LoginsOK, fields
<1>1. /\ proc[l] \in {"quiet", "shown"} /\ UNCHANGED <<awaiting, loginProc, loginUrl, loginTask, login>>
      /\ \E s \in {"shown", "ok", "bad", "mute"} :
           /\ proc' = [proc EXCEPT ![l] = s] /\ (s = "shown" => proc[l] = "quiet")
  BY DEF LinkShown, LoginFails, UserSignsIn
<1>2. PICK s \in {"shown", "ok", "bad", "mute"} :
        proc' = [proc EXCEPT ![l] = s] /\ (s = "shown" => proc[l] = "quiet")
  BY <1>1
<1>3. LoginTypes'
  BY <1>1, <1>2
<1>4. OwnProcess'
  BY <1>1, <1>2 DEF OwnProcess
<1>5. Watched'
  BY <1>1, <1>2 DEF Watched
<1>6. LockOK'
  BY <1>1, <1>2 DEF LockOK
<1> QED
  BY <1>3, <1>4, <1>5, <1>6

\* A restart leaves no process, no task and no request.
LEMMA Restarted == ASSUME SInv, Restart PROVE SInv'
<1> USE Numbers DEF SInv, LoginTypes, LoginsOK, Restart
<1>1. LoginTypes'
  BY DEF NoRequest
<1>2. LockOK' /\ OwnProcess' /\ Watched'
  BY DEF LockOK, OwnProcess, Watched, NoRequest
<1> QED
  BY <1>1, <1>2

\* Every step of the session keeps the invariant of the sign-in.
LEMMA SessionStep == ASSUME SInv, SessionMoves PROVE SInv'
<1>1. CASE UNCHANGED logins
  BY <1>1 DEF logins, fields, SInv, LoginTypes, LoginsOK, LockOK, OwnProcess, Watched
<1>2. CASE SyncStep
  <2>1. UNCHANGED logins
    BY <1>2 DEF SyncStep, PreSync, PreSyncReturns, Get, GetProbed, Command, CommandReturns, SyncWithout
  <2> QED
    BY <1>1, <2>1
<1>3. CASE Returns
  <2>1. UNCHANGED logins
    BY <1>3 DEF Returns, Answer, RecheckReturns, LogoutReturns
  <2> QED
    BY <1>1, <2>1
<1>4. CASE LoginStep
  BY <1>4, Requested, Ends DEF LoginStep
<1>5. CASE Outside
  <2>1. SessionExpires \/ LockBreaks => UNCHANGED logins
    BY DEF SessionExpires, LockBreaks
  <2> QED
    BY <1>1, <1>5, <2>1, ProcessActs DEF Outside
<1>6. CASE UserAsks
  <2>1. Recheck \/ Logout => UNCHANGED logins
    BY DEF Recheck, Logout
  <2>2. ASSUME NEW t \in Tabs, StartLogin(t) \/ CancelLogin(t) PROVE SInv'
    BY <2>2, Takes DEF StartLogin, CancelLogin
  <2> QED
    BY <1>1, <1>6, <2>1, <2>2 DEF UserAsks
<1>7. CASE Restart
  BY <1>7, Restarted
<1>8. CASE Counted \/ UNCHANGED sessionVars
  BY <1>1, <1>8 DEF Counted, sessionVars
<1> QED
  BY <1>2, <1>3, <1>4, <1>5, <1>6, <1>7, <1>8 DEF SessionMoves

-----------------------------------------------------------------------------
(* The rest of the types                                                   *)

RestTypes ==
  /\ session \in BOOLEAN /\ corrupt \in BOOLEAN /\ auth \in BOOLEAN
  /\ warning \in {"none", "signal", "other"}
  /\ cli \in [by : {"free", "probe", "get", "command", "recheck", "logout"},
              says : Answers \union {"none"}]
  /\ sync \in {"idle", "probe", "ready", "get", "wait", "command"}
  /\ budget \in [logins : Nat, asks : Nat, faults : Nat]

LEMMA TypesSplit == SessionTypeOK <=> LoginTypes /\ RestTypes
BY DEF SessionTypeOK, LoginTypes, RestTypes

\* What is charged to a bound leaves a budget.
LEMMA Charged ==
  ASSUME budget \in [logins : Nat, asks : Nat, faults : Nat],
         \E what \in {"logins", "asks", "faults"} : Spend(what)
  PROVE  budget' \in [logins : Nat, asks : Nat, faults : Nat]
BY DEF Spend

\* A command that starts is one of the commands, and Probed and Failed give
\* the flag and the warning values of their types.
LEMMA Runs ==
  ASSUME NEW who \in {"probe", "get", "command", "recheck", "logout"}, Run(who)
  PROVE  cli' \in [by : {"free", "probe", "get", "command", "recheck", "logout"},
                   says : Answers \union {"none"}]
BY DEF Run

LEMMA Believed ==
  ASSUME RestTypes, cli.says # "none", Probed(cli.says) \/ Failed(cli.says)
  PROVE  auth' \in BOOLEAN /\ warning' \in {"none", "signal", "other"}
<1>1. cli.says \in Answers
  BY DEF RestTypes
<1>2. auth' \in BOOLEAN
  <2>1. auth \in BOOLEAN
    BY DEF RestTypes
  <2>2. CASE Probed(cli.says)
    BY Zenon, <2>1, <2>2 DEF Probed
  <2>3. CASE Failed(cli.says)
    BY Zenon, <2>1, <2>3 DEF Failed
  <2> QED
    BY <2>2, <2>3
<1>3. warning' \in {"none", "signal", "other"}
  BY <1>1 DEF Probed, Failed, RestTypes, Answers
<1> QED
  BY <1>2, <1>3

\* The steps of the sync.
LEMMA SyncTypes == ASSUME RestTypes, SyncStep PROVE RestTypes'
<1> USE DEF RestTypes, belief
<1>1. Idle \in [by : {"free", "probe", "get", "command", "recheck", "logout"},
                says : Answers \union {"none"}]
  BY DEF Idle
<1>2. CASE PreSync
  BY <1>2, Runs DEF PreSync
<1>3. CASE PreSyncReturns
  BY <1>1, <1>3, Believed DEF PreSyncReturns
<1>4. CASE Get
  BY <1>4, Runs DEF Get
<1>5. CASE GetProbed
  BY <1>1, <1>5, Believed DEF GetProbed
<1>6. CASE Command
  BY <1>6, Runs DEF Command
<1>7. CASE CommandReturns
  BY <1>1, <1>7, Believed DEF CommandReturns
<1>8. CASE SyncWithout
  BY <1>8 DEF SyncWithout
<1> QED
  BY <1>2, <1>3, <1>4, <1>5, <1>6, <1>7, <1>8 DEF SyncStep

\* The other commands and their answers.
LEMMA ReturnTypes == ASSUME RestTypes, Returns PROVE RestTypes'
<1> USE DEF RestTypes, belief
<1>1. Idle \in [by : {"free", "probe", "get", "command", "recheck", "logout"},
                says : Answers \union {"none"}]
  BY DEF Idle
<1>2. CASE Answer
  <2>1. session' \in BOOLEAN /\ corrupt' \in BOOLEAN
    BY Zenon, <1>2 DEF Answer
  <2>2. budget' \in [logins : Nat, asks : Nat, faults : Nat]
    BY <1>2, Charged DEF Answer
  <2> QED
    BY <1>2, <2>1, <2>2 DEF Answer
<1>3. CASE RecheckReturns
  BY <1>1, <1>3, Believed DEF RecheckReturns
<1>4. CASE LogoutReturns
  BY <1>1, <1>4 DEF LogoutReturns
<1> QED
  BY <1>2, <1>3, <1>4 DEF Returns

\* The sign-in changes the flag when it ends, and nothing else of these.
LEMMA LoginStepTypes == ASSUME RestTypes, LoginStep PROVE RestTypes'
<1> USE DEF RestTypes, belief
<1>1. ASSUME NEW t \in Tabs, CancelEnds(t) \/ Spawn(t) \/ LinkRead(t) \/ LinkMissing(t)
      PROVE  RestTypes'
  BY <1>1 DEF CancelEnds, Spawn, LinkRead, LinkMissing
<1>2. ASSUME NEW l \in Logins, LoginEnds(l) PROVE RestTypes'
  <2>1. auth' \in BOOLEAN
    BY Zenon, <1>2 DEF LoginEnds
  <2> QED
    BY <1>2, <2>1 DEF LoginEnds
<1> QED
  BY <1>1, <1>2 DEF LoginStep

\* What the user and the world outside do.
LEMMA OutsideTypes == ASSUME RestTypes, Outside \/ UserAsks PROVE RestTypes'
<1> USE DEF RestTypes, belief
<1>1. ASSUME NEW l \in Logins, LinkShown(l) \/ LoginFails(l) \/ UserSignsIn(l) PROVE RestTypes'
  BY <1>1 DEF LinkShown, LoginFails, UserSignsIn
<1>2. CASE SessionExpires \/ LockBreaks
  BY <1>2, Charged DEF SessionExpires, LockBreaks
<1>3. CASE Recheck \/ Logout
  BY <1>3, Charged, Runs DEF Recheck, Logout
<1>4. ASSUME NEW t \in Tabs, StartLogin(t) \/ CancelLogin(t) PROVE RestTypes'
  BY <1>4, Charged DEF StartLogin, CancelLogin
<1> QED
  BY <1>1, <1>2, <1>3, <1>4 DEF Outside, UserAsks

LEMMA SessionTypesStep ==
  ASSUME SessionTypeOK, SInv, SessionMoves PROVE SessionTypeOK'
<1>1. RestTypes
  BY TypesSplit
<1>2. ASSUME Restart PROVE RestTypes'
  BY <1>1, <1>2, Charged DEF Restart, RestTypes, Idle
<1>3. ASSUME Counted PROVE RestTypes'
  BY <1>1, <1>3, Charged DEF Counted, RestTypes, belief
<1>4. ASSUME UNCHANGED sessionVars PROVE RestTypes'
  BY <1>1, <1>4 DEF sessionVars, belief, RestTypes
<1>5. RestTypes'
  BY <1>1, <1>2, <1>3, <1>4, SyncTypes, ReturnTypes, LoginStepTypes, OutsideTypes
     DEF SessionMoves
<1>6. LoginTypes'
  BY SessionStep DEF SInv
<1>7. SessionTypeOK' <=> LoginTypes' /\ RestTypes'
  BY DEF SessionTypeOK, LoginTypes, RestTypes
<1> QED
  BY <1>5, <1>6, <1>7

-----------------------------------------------------------------------------
(* The whole                                                               *)

IInv == SessionTypeOK /\ SInv /\ NInv

LEMMA InitOK == Init => IInv
<1> SUFFICES ASSUME Init PROVE IInv
  OBVIOUS
<1>1. SInv /\ NInv
  BY SessionInitOK, UpdaterInitOK DEF Init
<1>2. RestTypes
  BY SessionBounds DEF Init, SessionInit, RestTypes, Idle
<1> QED
  BY <1>1, <1>2, TypesSplit DEF IInv, SInv

LEMMA StepOK == ASSUME IInv, [Next]_vars PROVE IInv'
<1>1. SessionMoves /\ UpdaterMoves
  <2>1. CASE UNCHANGED vars
    BY <2>1 DEF vars, SessionMoves, UpdaterMoves
  <2> QED
    BY <2>1, Parts
<1> QED
  BY <1>1, SessionStep, SessionTypesStep, UpdaterStep DEF IInv

LEMMA Always == Spec => []IInv
BY InitOK, StepOK, PTL DEF Spec

\* Two sign-in processes never wait at once, since a process that waits is the
\* one that the field of the add-on names.
LEMMA OneWaits == SInv => LinkStaysGood
<1> SUFFICES ASSUME SInv PROVE LinkStaysGood
  OBVIOUS
<1> DEFINE W == {l \in Logins : proc[l] \in {"quiet", "shown"}}
<1>1. W \subseteq {loginProc}
  BY DEF SInv, LoginsOK, OwnProcess
<1>2. W = {} \/ W = {loginProc}
  BY <1>1
<1>3. Cardinality(W) <= 1
  <2>1. CASE W = {}
    <3>1. Cardinality(W) = 0
      BY <2>1, FS_EmptySet, Zenon
    <3> QED
      BY <3>1
  <2>2. CASE W = {loginProc}
    <3>1. Cardinality(W) = 1
      BY <2>2, FS_Singleton, Zenon
    <3> QED
      BY <3>1
  <2> HIDE DEF W
  <2> QED
    BY <1>2, <2>1, <2>2
<1>4. \A l \in awaiting : proc[l] = "shown" => loginProc = l /\ loginUrl = l /\ loginTask = l
  BY DEF SInv, LoginTypes, LoginsOK, OwnProcess, Watched
<1> QED
  BY <1>3, <1>4 DEF LinkStaysGood

\* The types of the session (protoncli.py) and of the updater (haupdater.py)
\* hold for any number of sign-ins, requests and faults.
THEOREM TypeCorrect == Spec => []TypeOK
<1>1. IInv => TypeOK
  BY DEF IInv, NInv, TypeOK
<1> QED
  BY <1>1, Always, PTL

\* The sign-in whose link the user holds is the one the add-on polls until its
\* process ends, and no second one waits beside it (protoncli.py, startLogin,
\* cancelLogin and _awaitLogin), however many sign-ins and restarts there are.
THEOREM LinksStayGood == Spec => []LinkStaysGood
<1>1. IInv => LinkStaysGood
  BY OneWaits DEF IInv
<1> QED
  BY <1>1, Always, PTL

\* The prompt to sign in and the generic warning never stand beside each other,
\* unless the add-on forgot one (haupdater.py, _updateNotifications): the flags
\* cover what shows, and at most one of them is set.
THEOREM NeverBoth == Spec => []OneNotification
<1>1. IInv => OneNotification
  BY DEF IInv, NInv, FlagsOK, UpdaterTypeOK, OneNotification, Notes
<1> QED
  BY <1>1, Always, PTL
=============================================================================
