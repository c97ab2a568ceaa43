------------------------------- MODULE Settings -------------------------------
(***************************************************************************)
(* The add-on's settings: config/config.py over config/settings.py, and    *)
(* who changes them.  The Supervisor keeps the options; the add-on works   *)
(* with a copy in memory, which a restart, a save in the web UI            *)
(* (ui/uiserver.py) and a look at the Supervisor (HaSource._refreshInfo)   *)
(* replace.                                                                *)
(*                                                                         *)
(* One key stands for each class of settings that is treated in its own    *)
(* way; value 0 is the default.  Options that config.json does not declare *)
(* are always at their default and left out, as are the deprecated names:  *)
(* no version of this add-on has declared them.                            *)
(***************************************************************************)
EXTENDS Naturals

CONSTANTS
  MaxEdits,     \* bound: requests of the web UI and edits in the Supervisor
  MaxFaults,    \* bound: calls of the Supervisor that fail
  MaxRestarts   \* bound: restarts of the add-on

ASSUME BoundsAssumption == MaxEdits \in Nat /\ MaxFaults \in Nat /\ MaxRestarts \in Nat

\* "count" is in ALWAYS_KEEP, "upgrades" in KEEP_DEFAULT (it is
\* IGNORE_UPGRADE_BACKUPS, whose default 0 is True), "watch" in NON_UI_SETTING,
\* "cert" counts only with "ssl", "confirm" is like all others.
Keys == {"count", "upgrades", "watch", "ssl", "cert", "confirm"}
AlwaysKeep == {"count"}
KeepDefault == {"upgrades"}
NonUi == {"watch"}
SslOnly == {"cert"}

Values == {0, 1}
Absent == 2
Refused == 3     \* what no validator lets pass
None == [none |-> TRUE]
Options == [Keys -> Values \union {Absent}]
Forms == [Keys -> Values]

Backups == {"sync", "hand"}   \* a backup that starts, in a sync or by hand
Readers == Backups \union {"page"}   \* or a page that opens

VARIABLES
  opts,      \* the options the Supervisor holds
  memory,    \* Config.config
  byName,    \* whether its keys are names, as fromFile has them, and not Settings
  noticed,   \* the flag NOTIFIED_ABOUT_IGNORED_BACKUPS of the data cache
  legacy,    \* Config._legacy_ignored_behavior
  read,      \* per reader the options it has read and not used yet, or None
  form,      \* what the settings page shows, or None
  post,      \* the request that changes the options, or None
  saved,     \* history: the form that was saved last and by nothing overtaken
  budget

vars == <<opts, memory, byName, noticed, legacy, read, form, post, saved, budget>>

Budget == [edits : 0..MaxEdits, faults : 0..MaxFaults, restarts : 0..MaxRestarts]
Posts == [kind : {"save", "confirm", "hide"}, new : Options, form : Forms \union {None},
          base : Options \union {None}, done : BOOLEAN]

TypeOK ==
  /\ opts \in Options /\ memory \in Options
  /\ {byName, noticed, legacy} \subseteq BOOLEAN
  /\ DOMAIN read = Readers /\ \A r \in Readers : read[r] = None \/ read[r] \in Options
  /\ form = None \/ form \in Forms
  /\ post = None \/ post \in Posts
  /\ saved = None \/ saved \in Forms
  /\ budget \in Budget

-----------------------------------------------------------------------------
(* Config                                                                  *)

\* get().  An add-on that thinks it was upgraded from before 0.108.2 takes a
\* missing IGNORE_UPGRADE_BACKUPS for False.
Get(m, k) == IF m[k] # Absent THEN m[k]
             ELSE IF k = "upgrades" /\ legacy THEN 1 ELSE 0

\* The first loop of validate(): defaults are dropped, but for KEEP_DEFAULT.
NotDefault(new) ==
  [k \in Keys |-> IF new[k] = 0 /\ k \notin KeepDefault THEN Absent ELSE new[k]]

\* The rest of it: ALWAYS_KEEP, and no certificate without SSL.
Completed(m) ==
  LET kept == [k \in Keys |-> IF k \in AlwaysKeep /\ m[k] = Absent THEN 0 ELSE m[k]]
  IN  IF m["ssl"] = 1 THEN kept ELSE [kept EXCEPT !["cert"] = Absent]

\* validate() of options by name: whether a NON_UI_SETTING is among them is
\* asked with Setting.key, the method, so the answer is always no and the
\* value in memory wins, unless that is the default.
ValidateNames(new) ==
  Completed([k \in Keys |-> IF k \in NonUi /\ Get(memory, k) # 0
                            THEN Get(memory, k) ELSE NotDefault(new)[k]])

\* validate() of options by Setting: here what memory has is only added.
ValidateSettings(new) ==
  Completed([k \in Keys |-> IF k \in NonUi /\ Get(memory, k) # 0 /\ new[k] = Absent
                            THEN Get(memory, k) ELSE NotDefault(new)[k]])

\* Mutation of ValidateUpdate: the additions alone are validated.
ValidateAdditions(additions) ==
  ValidateNames([k \in Keys |-> IF k \in DOMAIN additions THEN additions[k] ELSE Absent])

\* validateUpdate(): the settings in memory with some replaced.  A name in memory is
\* another key than the Setting, and where that asks for the default the name counts.
Replaced(additions) == {k \in DOMAIN additions : ~byName \/ additions[k] # 0}
ValidateUpdate(additions) ==
  ValidateSettings([k \in Keys |-> IF k \in Replaced(additions) THEN additions[k] ELSE memory[k]])

Init ==
  /\ opts \in {[k \in Keys |-> IF k = "count" THEN 0 ELSE Absent],
               [k \in Keys |-> IF k = "confirm" THEN Absent ELSE 1]}
  /\ memory = opts /\ byName = TRUE
  /\ noticed = (opts["upgrades"] # Absent) /\ legacy = ~noticed
  /\ read = [r \in Readers |-> None]
  /\ form = None /\ post = None /\ saved = None
  /\ budget = [edits |-> 0, faults |-> 0, restarts |-> 0]

Spend(what, max) == budget[what] < max /\ budget' = [budget EXCEPT ![what] = @ + 1]

-----------------------------------------------------------------------------
(* HaSource._refreshInfo: create(), getconfig and exposeserver await it.   *)

\* selfInfo() has the options; five more calls follow before they are used.  Backups
\* start under the soft lock.
RefreshReads(r) ==
  /\ read[r] = None /\ (r \in Backups => \A b \in Backups : read[b] = None)
  /\ read' = [read EXCEPT ![r] = opts]
  /\ UNCHANGED <<opts, memory, byName, noticed, legacy, form, post, saved, budget>>

\* Mutation of RefreshEnds: what is read is added to what is there.
RefreshAdds(r) ==
  /\ read[r] # None
  /\ memory' = ValidateSettings([k \in Keys |-> IF read[r][k] = Absent THEN memory[k]
                                                ELSE read[r][k]])
  /\ byName' = FALSE
  /\ form' = IF r = "page" THEN [k \in Keys |-> Get(memory', k)] ELSE form
  /\ read' = [read EXCEPT ![r] = None]
  /\ UNCHANGED <<opts, noticed, legacy, post, saved, budget>>

\* config.update(); getconfig shows the page what is in memory then.
RefreshEnds(r) ==
  /\ read[r] # None
  /\ memory' = ValidateNames(read[r]) /\ byName' = FALSE
  /\ form' = IF r = "page" THEN [k \in Keys |-> Get(memory', k)] ELSE form
  /\ read' = [read EXCEPT ![r] = None]
  /\ UNCHANGED <<opts, noticed, legacy, post, saved, budget>>

\* Any of the calls may fail: nothing is changed.
RefreshFails(r) ==
  /\ read[r] # None /\ Spend("faults", MaxFaults)
  /\ read' = [read EXCEPT ![r] = None]
  /\ UNCHANGED <<opts, memory, byName, noticed, legacy, form, post, saved>>

-----------------------------------------------------------------------------
(* UiServer                                                                *)

\* base is the options if memory agrees with them.
Submit(kind, new, f) ==
  /\ post = None
  /\ post' = [kind |-> kind, new |-> new, form |-> f, done |-> FALSE,
              base |-> IF \A k \in Keys : Get(memory, k) = Get(opts, k) THEN opts ELSE None]
  /\ saved' = None
  /\ Spend("edits", MaxEdits)
  /\ UNCHANGED <<opts, memory, byName, noticed, legacy, read, form>>

\* saveconfig: the page sends every option it shows, with one changed.
Save(k, v) ==
  /\ form # None /\ form[k] # v /\ v # Refused
  /\ LET f == [form EXCEPT ![k] = v] IN Submit("save", ValidateNames(f), f)

\* A value that no validator lets pass: the request ends before anything is sent.
SaveRefused ==
  /\ form # None /\ post = None
  /\ Spend("edits", MaxEdits)
  /\ UNCHANGED <<opts, memory, byName, noticed, legacy, read, form, post, saved>>

\* confirmdelete with "always", and exposeserver with "expose=false"; the other
\* settings that exposeserver changes are like "confirm".
Confirm == Submit("confirm", ValidateUpdate([confirm |-> 1]), None)
Hide == Submit("hide", ValidateUpdate([ssl |-> 0]), None)

\* _updateConfiguration awaits HaRequests.updateConfig: the Supervisor replaces
\* all options ...
Applied ==
  /\ post # None /\ ~post.done
  /\ opts' = post.new
  /\ post' = [post EXCEPT !.done = TRUE]
  /\ UNCHANGED <<memory, byName, noticed, legacy, read, form, saved, budget>>

\* Mutation of Answered: the sync goes on with the options it has read.
AnsweredLater ==
  /\ post # None /\ post.done
  /\ memory' = ValidateSettings(post.new) /\ byName' = FALSE
  /\ read' = read
  /\ saved' = IF opts = post.new /\ \A r \in {"page", "hand"} : read[r] \in {None, opts}
              THEN post.form ELSE None
  /\ post' = None
  /\ UNCHANGED <<opts, noticed, legacy, form, budget>>

\* ... and when it has answered, memory follows.  saveconfig then cancels the sync
\* that runs, with the refresh of a backup that starts in it, but no backup by hand.
Answered ==
  /\ post # None /\ post.done
  /\ memory' = ValidateSettings(post.new) /\ byName' = FALSE
  /\ read' = IF post.kind = "save" THEN [read EXCEPT !["sync"] = None] ELSE read
  /\ saved' = IF opts = post.new /\ \A r \in {"page", "hand"} : read[r] \in {None, opts}
              THEN post.form ELSE None
  /\ post' = None
  /\ UNCHANGED <<opts, noticed, legacy, form, budget>>

\* The call fails before or after the Supervisor has done it.
PostFails ==
  /\ post # None /\ Spend("faults", MaxFaults)
  /\ post' = None
  /\ UNCHANGED <<opts, memory, byName, noticed, legacy, read, form, saved>>

-----------------------------------------------------------------------------
(* The Supervisor's own page, and a restart with its options               *)

UserEdits(k, v) ==
  /\ opts[k] # v /\ (k \in AlwaysKeep => v # Absent)
  /\ Spend("edits", MaxEdits)
  /\ opts' = [opts EXCEPT ![k] = v] /\ saved' = None
  /\ UNCHANGED <<memory, byName, noticed, legacy, read, form, post>>

\* Config.fromFile() takes the options as they are; DataCache._load asks which
\* version this installation had first, and every version of this add-on is
\* before 0.108.2.  Once either setting was explicit it is never asked again.
Restart ==
  /\ Spend("restarts", MaxRestarts)
  /\ memory' = opts /\ byName' = TRUE
  /\ noticed' = (noticed \/ opts["upgrades"] # Absent)
  /\ legacy' = ~noticed'
  /\ read' = [r \in Readers |-> None] /\ post' = None
  /\ UNCHANGED <<opts, form, saved>>

Task == Applied \/ Answered \/ \E r \in Readers : RefreshEnds(r)

Next ==
  \/ \E r \in Readers : RefreshReads(r) \/ RefreshFails(r)
  \/ \E k \in Keys, v \in Values \union {Refused} : Save(k, v)
  \/ SaveRefused
  \/ Confirm \/ Hide \/ Task \/ PostFails
  \/ \E k \in Keys, v \in Values \union {Absent} : UserEdits(k, v)
  \/ Restart

Spec == Init /\ [][Next]_vars

\* The Supervisor answers, and backups start from time to time.
FairSpec == Spec /\ WF_vars(Applied) /\ WF_vars(Answered) /\ WF_vars(RefreshReads("sync"))
                 /\ \A r \in Readers : WF_vars(RefreshEnds(r))

-----------------------------------------------------------------------------
(* Properties                                                              *)

\* The value a form asks for: without SSL there is no certificate.
Asked(f, k) == IF k \in SslOnly /\ f["ssl"] = 0 THEN 0 ELSE f[k]

Stick(keys) ==
  saved # None => \A k \in keys : Get(memory, k) = Asked(saved, k) /\ Get(opts, k) = Asked(saved, k)

\* After "Settings saved" memory and the Supervisor hold what the page sent,
\* through the refresh of a sync that was under way, failures and restarts, until
\* someone changes a setting again.  Excepted: a page that opens, or a backup by hand
\* that starts, while the save goes on, as both put the options that they have read
\* before it back into memory, until the next refresh; and NON_UI_SETTING.
SavedSticks == Stick(Keys \ NonUi)

\* The web UI answers 'Settings saved' (uiserver.py:504) to a form that shows
\* also the settings of NON_UI_SETTING.
SavedSticksAll == Stick(Keys)

\* What else a request changes: hiding the server ends SSL and forgets the
\* certificate, and without SSL any request forgets it.
Touched(kind) ==
  CASE kind = "hide" -> {"ssl", "cert"}
    [] OTHER -> {"confirm"} \union (IF Get(opts, "ssl") = 0 THEN SslOnly ELSE {})

\* "Never ask again" and hiding the server change no other option of the
\* Supervisor, although they send all of them: if memory was up to date.
PartialKeepsRest ==
  [][post # None /\ ~post.done /\ post.kind # "save" /\ post.base = opts
       /\ post' # None /\ post' # post =>
       \A k \in Keys \ Touched(post.kind) : Get(opts, k)' = Get(opts, k)]_vars

\* When nobody changes settings any more, memory comes to agree with the
\* Supervisor, whatever it missed; but see SavedSticksAll for NON_UI_SETTING.
MemoryFollows ==
  <>[](\A k \in Keys \ NonUi : Get(memory, k) = Asked([j \in Keys |-> Get(opts, j)], k))
=============================================================================
