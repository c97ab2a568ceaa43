# Models of the Proton Drive backup add-on

The add-on runs beside Home Assistant, makes backups there, copies them to a
folder in Proton Drive and deletes old ones from both places. It is one asyncio
process: tasks are interrupted only at an `await`, and all its trouble comes
from what happens at those awaits, from commands and calls that fail half-way,
and from restarts. Paths below are relative to
`src/ha-proton-drive-backup/backup/`.

- [Inventory](#inventory)
- [Modules](#modules)
- [Runs](#runs)
- [Fairness](#fairness)
- [Proofs](#proofs)
- [Where the code does not keep its word](#where-the-code-does-not-keep-its-word)
- [Not modelled](#not-modelled)
- [Plan](#plan)

## Inventory

| Component | State | Operations | Hard behaviour |
|---|---|---|---|
| Proton folder, `proton/protonsource.py` | sidecar cache `_meta_cache`, `_uploading`, `_upload_starts`, `_ensured_path`; two files per backup in the remote folder | `get` (list, load sidecars, list again, sweep leftovers), `save` (tar, then sidecar), `delete`, `retain`, `note`, `_ensureFolder`, `_purgeFromTrash` | `get` runs in the sync and in the precache at once; every command can fail, time out or be cancelled between the two files; names are ambiguous |
| CLI wrapper, `proton/protoncli.py` | `_cli_lock`, `_authenticated`, `_auth_warning`, the sign-in's process, link and task | `_run`: one command at a time; sign in, sign out, `checkAuth` | timeouts after the server did the work; cancelled commands that go on; two browser tabs that sign in; a flag that must follow the session |
| Model, `model/model.py` | `backups`, the view of both stores | `sync`: read, purge, create, upload, purge | order of purge, create and upload; views that go stale during a sync |
| Coordinator, `model/coordinator.py` | soft lock `_busy`, `_sync_task`, backoff, trigger | `sync`, `cancel`, `delete`, `retain`, `note`, `uploadBackup`, `startBackup` | requests that take no lock run in the middle of a sync |
| Retention, `model/backupscheme.py` | none | `OldestScheme`, `DeleteAfterUploadScheme`, `GenerationalScheme` | off by one, one more or one fewer before a new backup |
| Precache, `model/destinationprecache.py` | cached listing, its expiry, last error | `checkForSmoothing`, `cached`, `clear` | writes after an await what others have cleared; deadlines that move |
| Worker and triggers, `model/syncer.py`, `worker/` | trigger flags | ask all triggers, wait, sync | the trigger is reset before it is known that a sync will run |
| Watcher, `watcher.py` | changed flag, last list of backups | file events, `check` | its query to Home Assistant can fail |
| Home Assistant source, `ha/hasource.py` | pending backup | `create`, `get`, `delete`, `save`, `retain` | a request that outlives its timeout and is found later |
| Add-on stopper, `ha/addon_stopper.py` | add-ons to start again, on disk | `stopAddons`, `startAddons`, `check` | the add-on restarts in between |
| Home Assistant updater, `ha/haupdater.py` | last states sent, two notification flags | `update` | flags lost with a restart; conditions that change between two calls |
| Settings, `config/config.py`, `config/settings.py`, `ui/uiserver.py` | options in the Supervisor, a copy in memory, two flags of the data cache | `validate`, `update`, `saveconfig`, `_refreshInfo` | a save overlaps a refresh; partial updates send everything |
| Backups as the user sees them, `model/backups.py`, `Config.retained` | the cards' sources and options; the file of pins | `retain`, `note`, `delete`, `uploadBackup`, `download` | rewrites of one sidecar that overlap; requests beside syncs |
| JSON files, `file/jsonfilesaver.py` | file and recovery copy | `read`, `write`, `delete` | power failure during a write |
| Pure helpers, `util/backoff.py`, `util/rangelookup.py`, `Model._nextBackup` | small | computed | boundaries |

Who calls whom. The *worker* starts `Coordinator.sync`, which runs
`Model.sync` in a task of its own under the soft lock. The Model calls the two
sources; the Proton source turns each call into a sequence of CLI commands that
wait for one FIFO lock. Beside that, without the soft lock: the *precache*
calls the Proton source's `get` shortly before the next sync is due, so that
the sync can use its answer, and the *web UI* rewrites sidecars (`retain`,
`note`). With the soft lock, when it is free: the web UI's deletions and
uploads. Home Assistant, other Proton Drive clients and the user change both
stores at any time.

What makes each part right:

- *Folder*: a backup that was stored keeps both its files; a sweep never takes
  what an upload is writing, nor a folder; leftovers do not stay for ever.
- *Sync*: nothing is deleted that the settings keep, that is pinned, that has
  no other copy under `delete_after_upload`, or that the user has not
  permitted; what is due is made, the newest backup is uploaded, and both
  stores come back to their limits.
- *Worker*: a sync that is due happens; triggers are not lost.
- *Precache*: it never makes a sync work from an old listing.
- *Making a backup*: one request at a time; what a request leaves in the cache goes
  to one backup; whatever was stopped for it is started again, with its watchdog.
- *Session*: the flag follows the session; the link the user was given stays
  good; Home Assistant is told when backups pause, and when they no longer do.
- *Settings*: what was saved stays; a partial update changes nothing else.
- *Retention*: what a slot keeps stays, the newest stays, backups go on.
- *Edits*: what the user was told is what the stores hold.
- *JSON files*: one failure costs no data.

`PROJECT.json` lists every component with its status, and the hazards of the
code line by line with the properties that cover them.

## Modules

Every module says at its top which code it models, and every definition of a
model is mapped to its lines in `PROJECT.json`. The code between two awaits
is one action. A definition whose comment begins "Mutation of" is not part of
the model: it is a plausible mistake in the definition that follows it, kept to
show that a property can fail.

| Module | Extends / uses | Models |
|---|---|---|
| ProtonFolder, MCProtonFolder | BackupStore (refinement) | `get`, `save`, `delete`, `retain`, `note` as CLI commands |
| BackupStore | | what the folder promises to a sync |
| DriveNames | | the walk to the folder, the permanent deletion |
| BackupSync, MCBackupSync | | one sync with everything around it |
| SyncTrigger | | when the worker syncs |
| PrecacheTiming | | the schedule of syncs, the precache and the backoff, in time |
| DurableFile | | a file written twice |
| Edits, MCEdits | DurableFile | what the user does to one backup |
| AddonStopper | | add-ons stopped for a backup |
| HaBackup | AddonStopper | the pending backup and the add-ons around it |
| CliSession | | the CLI's session, the probe and the sign-in |
| HaUpdater | | notifications in Home Assistant |
| SignIn | CliSession, HaUpdater | the two together, with the sync between them |
| Settings | | options in the Supervisor and in memory |
| Retention, MCRetention | | `GenerationalScheme`, `RangeLookup`, `_nextBackup` |

The proofs are in modules of their own: ProtonFolderProofs (with DriveNames),
BackupSyncProofs, EditsProofs (with DurableFile), HaBackupProofs, SignInProofs,
SettingsProofs, RetentionProofs, and CoordinatorProofs for SyncTrigger and PrecacheTiming.
Some names in DriveNames and PrecacheTiming are longer than they need be, so that
they can stand in one module with those of the other.

### ProtonFolder and BackupStore

`proton/protonsource.py` over `proton/protoncli.py`. A backup is a slug and
two names, its tar and its sidecar.

| State | Code |
|---|---|
| `files`, `folders` | the remote folder: plain files and folders by name |
| `known`, `cache` | `Model.backups` as far as Proton Drive goes; `_meta_cache` |
| `uploading`, `starts` | `_uploading`, `_upload_starts` |
| `pc`, `loc` | per task the command it awaits and its local variables |
| `queue`, `reply` | `_cli_lock`: holder and waiters; the holder's answer |
| `zombies` | commands of cancelled tasks, which are not killed |
| `stored`, `budget` | history and bounds |

A command is three steps: a task queues (`Call`, `Then`), the head's command
has its effect (`CommandSucceeds`, `CommandFails`: the effect may have happened
or not), and the task resumes (`Listed`, `Loaded`, `Relisted`, `Swept`,
`TarUploaded`, ...) and runs to its next command. The three tasks are the
holder of the soft lock (`sync`: gets, saves and deletes in any order a user or
a sync can ask for), the `precache` (gets) and the `editor` (rewrites).

BackupStore is what a sync may rely on: a set of whole backups, each of which is
there from the return of `save` until it is deleted or saved again, and a `get`
that tells only of backups that were whole at one moment of it. ProtonFolder maps
`whole` to the slugs with both files, `promised` to `stored`, `seen` to what the
running `get` has listed and `view` to `known`; `Store!Spec` is a property of
`folder_sync`. Without a precache, that is: see below.

Abstractions: sidecars have no contents (Edits has them). The commands that `get`
runs before its first listing are in CliSession and DriveNames. A user may
create a folder with the name of a backup's file at any time except between the
listing that clears a name and the trash command that follows, a window the CLI
cannot close. `MaxSaves` bounds `starts`, which the code lets grow.

### DriveNames

Two places where only a name is known. `WalkCalled`, `Enter`, `WalkListed`,
`Created`, `CreateFails`, `WalkRelisted` are `_ensureFolder` and `_ensureChildFolder` by several
tasks with `_folder_lock` and the latch `_ensured_path`, while the setting
changes and other clients add and remove folders and files. `TrashTar` to
`DeletedForever` are `delete` with `PERMANENTLY_DELETE`: an item that a name
denotes is probed and then deleted by its name again, while others change the
trash. The two halves share no state. The module has a proof and no run, since
a run would need properties that others use; an instance of two tasks, nested
paths and four items was checked once before the proof.

### BackupSync

`Model.sync` and what the Coordinator, the precache and the user do around it.
A backup is the number of its creation, the stores are sets, `mHa`, `mProton`
and `mPins` are the Model's view. `pc` is the phase of the sync or request that
holds the soft lock; each phase ends at the next await. `GetHa` ... `GotProton`
are `_syncBackups`; `Purge`, `PurgeEnds`, `Deleted`, `Refuse` are `_purge` for
each of its calls; `Decide`, `Create`, `Collect`, `NextUpload`, `Save`,
`Finish` are the rest. `Impossible` and `SyncFails` are errors at any await,
with or without the effect. `Warm`, `WarmRead`, `WarmStore`, `WarmExpires` are
the precache, `RequestPin` and `Pinned` the retain request, which takes no lock and
writes to the copy it has looked up (`held`), not to the one that a listing has put in
its place. `MadeElsewhere`, `LostInHa` and `LostInProton` are what others do to the
stores: backups come and go in Home Assistant, and other clients of Proton Drive remove
copies. A sync cannot know of the latter before it reads the folder again; `gone`
remembers them, so that the properties can compare with what Proton Drive held since
the last `get` (`Had`). A `save` that fails may have stored its backup, or trashed a copy
of it that the Model did not know (`SaveInDoubt`).
A *scenario* (`set`) is a combination of settings with the bounds of its own; the
scenarios of a run are a constant.

Abstractions: Proton Drive's operations are atomic here (ProtonFolder has their
parts). Not in the model: pins in Home Assistant (they go into the same list of
candidates), ignored backups, requests that delete from both stores (Edits).

### SyncTrigger and PrecacheTiming

SyncTrigger is the worker's loop over the triggers, the watcher's query, the soft
lock and the task that runs the sync. From the end of the last trigger's check to
the soft lock there is no await, hence `Attempt` is part of `Ask`, `Noticed` and
`WaitedEnough`. The lock outlives the sync's task by some turns of the event
loop (`Unlock`). `owed` remembers the triggers no sync has followed.

PrecacheTiming has time, in minutes: `NextSync` is `nextSyncAttempt` with the
backoff after failures (`Peek`) and the random offset after a success; the
precache reads shortly before it. The next sync may be rescheduled at any moment.
A sync is three steps: it starts and takes its `now` (`SyncStarts`), asks the
precache for what is good at that time, after the awaits of `preSync` and of Home
Assistant's `get` (`Uses`), and ends, and in between the precache may store or read.
The add-on's start counts as a success (`_last_success`).
`Inflation` is the factor by which `timedelta(x)`, x days, is longer than x
seconds; 86400 in the code, small here.

### DurableFile and Edits

`JsonFileSaver`: each of the two files is emptied, then written; a failure ends
the call anywhere, and damage may hit a file at rest.

Edits takes one backup, the requests `retain` and `note` (two editors, without
the soft lock), upload, download and deletion (with it), and syncs, down to the
CLI command, over the contents of the sidecar. It extends DurableFile for the
list of pins in Home Assistant, so a pin, its file, a failing disk and a restart
are one behaviour. `sure` becomes false when the code makes no promise: when two
rewrites overlap, a sync has read before an edit ends, or a command fails after
its effect.

### AddonStopper and HaBackup

AddonStopper is `stopAddons`, `startAddons` and `check`, each call to the
Supervisor a step of its own, with the lock they share, the flags `_backing_up`
and `allow_run` outside of it, and what is saved to disk. A call that fails, or is
cancelled while `stopAddons` awaits it (`StopAborted`), may have stopped the add-on or
turned off its watchdog all the same, without the note of it; `gaveUp` has those that
are left so. HaBackup extends it by
`create`, the task that waits for the Supervisor's answer, `get` that
finds the backup in a listing, `PendingBackup`'s states, the time-outs, backups of
other programs, and the add-on being killed between any two steps. The data cache takes
a new backup for its own by name and date (`Matching`), so a backup of another program
may have the name of a request: `by` says whose a backup is, `-r` being another
program's with the name of request `r`. All dates of an instance lie within a day, and
names of requests differ, as the template of the settings makes them.

### CliSession, HaUpdater and SignIn

CliSession: `_run` with its lock, the answer of a command before and after the
add-on hears of it, the probe `checkAuth`, sign-out, and `startLogin` with
its process, link and polling task under a lock of its own; the events lock that
a killed command leaves corrupt and its repair. HaUpdater:
`_updateNotifications`, one call to Home Assistant at a time, with its two flags.
SignIn composes them: an expired session ends in a notification, because the
flag of one is the condition of the other.

### Settings

One key per class of settings that the code treats in its own way: kept even at
its default, not shown in the UI, meaningless without SSL, with a
deprecated meaning, and so on. `validate`, `validateUpdate` and `update` are
operators over these; the actions are saves, partial updates, edits in the
Supervisor's own tab, refreshes, failures and restarts. A refresh belongs to a backup in
a sync, which a save cancels, to a backup by hand, which nothing cancels, or to a page.
After a restart memory has the names of the settings as its keys (`byName`), until it is
first replaced; a partial update that sets an option to its default then changes
nothing.

### Retention

`RangeLookup`'s bisections, the partitions of `GenerationalScheme` over a
calendar that is a parameter (days, weeks and months may be short; the code does
not depend on their lengths), `Partition.select`, `getOldest`, and
`_nextBackup`, whose days between backups are a float and so a wait in moments
here. On top of the operators a store lives through some time: backups
come due, the purge runs to its end, restarts happen, the session is lost and comes back.
Without a session nothing is planned and nothing purged (`Planned`, `Next`); a start and a
sign-in in the web UI begin a cooldown (`rested`), a session that is found to work again
does not; the page may ask not to wait (`Hurry`). The loops of the bisections are
recursive functions on the ranges of indices they can come to, the days before a month one on
the months, so that they can be reasoned about; each kind of partition is an operator of the
index that the loop of `_buildPartitions` counts. A sorted list of backups is given by
rank. The assumptions on the settings (`ConfigsAssumption`) are the schemas of
`config/settings.py`.

## Runs

| Run | Question | Bounds, and why they are enough |
|---|---|---|
| `folder_sync` | `StoredStaysPaired`; the folder implements BackupStore (`ImplementsStore`) | Two backups, because sweeps and saves of different slugs meet; two failures, so that a clean-up fails after a save has failed; two uploads, so that a backup is saved again; one restart; one folder. No precache and no cancelled sync: with these the properties do not hold, see [below](#where-the-code-does-not-keep-its-word) |
| `folder_live` | `UploadInFlightSpared`, `FolderNeverTrashed`; `OrphansReaped` under fairness | All three tasks. One backup: a sweep, the save it could hurt and the folder it could hit share a slug, and the proof covers any number. One each of failure, cancel, restart and folder, two uploads |
| `sync` | `PurgeKeepsMax`, `PinnedNotPurged`, `NoUploadChurn`, `LocalKept`; `NewestReachesProton`, `DueIsMade`, `RetentionConverges` under fairness | Three scenarios: `Default` (two old backups, two to keep in Home Assistant and one in Proton Drive, so that the purge before an upload has two candidates and asks for permission), `Space` (`delete_before_new_backup` and `delete_after_upload`, with a session that ends and returns), `Busy` (limits of one, so that every new backup displaces one, with precache, pins and requests). One failure each, and one request or, but in `Busy`, one copy removed by another client |
| `sync_loss` | does the local copy survive the precache? It does not | violation |
| `trigger_due` | `DueServed`, `TriggersServed` | Three raises, two requests and two failures: one to lose a trigger or a sync, one more while it is made up for. A user who held the lock whenever the worker looks would starve it |
| `precache_fresh` | `UsedIsRecent`, `RetriesSpaced` | A horizon of five minutes with intervals of three and four: a sync of the schedule follows the start, requested ones come at any time, a read may begin before one sync and its answer be stored during it, before or after the next; two failures in a row, the first retry at once and the next after the base of the backoff (its cap, and more failures, are in the proof) |
| `edits` | `EditSticks`, `ViewMatches`, `PinOnlyIfAsked`, `PinSurvives`, `SurvivesOneFailure` | Two editors, so that rewrites overlap; two edits, two requests with the lock, two failures and a restart: an upload fails, its clean-up fails, and a sync looks |
| `ha_addons` | types; `OneRequest`, `GivenOnce`; `StoppedComesBack`, `PendingEnds` under fairness | Two requests, so that an old one ends during a newer; a backup of another program, that has the name of the first request, and another than the second; one failure, cancel or crash; one add-on with a watchdog, since add-ons share nothing but the lock |
| `sign_in` | types; `LinkStaysGood`, `OneNotification`; `FlagFollowsSession`, `PauseIsTold`, `NotesAreWithdrawn` under fairness | Two sign-ins, so that one cancels the other; one request of the web page; one failure or expiry |
| `settings` | `SavedSticks`, `PartialKeepsRest`; `MemoryFollows` under fairness | Two edits, a failure and a restart over all classes of keys with two or three values each |
| `settings_nonui` | do saves stick for settings the code counts as not shown? They do not | violation |
| `retention` | `SlotsKept`, `NewestStays`, `LookupFinds`, `BackupsKeepComing`, `OneIsEnough` | Weeks of three days, years of ten in months of 3, 4 and 3, two moments a day; four settings with every kind of slot, with and without room for them; a backup every day at a time, every day and a half, and every half day with a time; 12 moments that begin in the last month but one of a year and end in the next year, so that each kind of slot turns; two restarts, lost sessions, clicks or backups by hand |

Types are proved of ProtonFolder, BackupSync, SyncTrigger, PrecacheTiming, HaBackup,
SignIn and Settings; of DurableFile and Edits as far as the proofs need them (`FileOK`,
`DataOK`); two runs check them as well. Runs that may stop (all bounds spent) say so; the others check
for deadlock.

In short, the less obvious properties say:

- `StoredStaysPaired`: between the return of `save` and the next save or deletion
  of that backup both files stay, whatever fails.
- `UploadInFlightSpared`: `get` decides on a listing that is old by several
  commands; the latch and the counter keep it from the tar of an upload
  that began since, or runs now. The property looks at every step that takes the tar of
  the upload that is writing its sidecar, whosever command it is, and excepts one: the
  trash command of a sync that was cancelled, which goes on by itself (`LeftOver`).
- `PurgeKeepsMax`, `LocalKept`: compared with the *real* folder, not with the Model's view,
  and with what other clients have removed from it since the sync has read it: no
  sync can know that, and from a listing that is some awaits old the code does go below
  the limit. They except scenarios with a precache, the first also pins that are set
  while a sync reads, where the view may be older than that.
- `UsedIsRecent`: the age of the listing when the sync *started*. At the moment it is used
  it is older by what `preSync` and Home Assistant's `get` take, because the sync asks the
  precache with the time of its start (`coordinator.py` 208).
- `GivenOnce`: nobody but a matching backup is marked as the add-on's own, that is how
  the code is written; what could go wrong is that the mark or the note of a request is given
  to a second one, when the request outlives its time-out, its backup is listed late,
  or the cache is older than the backup after a crash. That it goes to the *right*
  backup the code does not ensure.
- `SavedSticks`: the refresh of a sync that has read the options before the save is cancelled
  in time. A page or a backup by hand that has read them is not, and is excepted.
- `NoUploadChurn`: no sync deletes what it has uploaded itself; excepts sessions
  that end in the middle of a sync.
- `RetentionConverges`: after any failure, refusal or deletion elsewhere the
  stores are within their limits again and again.
- `EditSticks`: at rest the sidecar says what the user was last told, field by
  field.
- `BackupsKeepComing`: while there is a session the newest backup is never older than the
  days between backups (than a day, where these are fewer and a time of day is set), except
  within the cooldown of a start or a sign-in, and in the moment in which a session comes
  back, whose sync makes the backup. Starts and sign-ins may follow each other within the
  cooldown, and then no backup is made for as long as they do; signed out none is made at
  all (`DOCS.md` 176-180).
- `OneIsEnough`: a backup that was just made is enough; no other is due at once.
- `PinSurvives`: one disk failure and a restart later the pin of the copy in
  Home Assistant is still there, if its last write succeeded.
- `SlotsKept`: a declarative reading of retention by age: the last n days, weeks,
  months and years that had a backup have one still.

## Fairness

- *Commands end and tasks resume* (weak fairness of `Command`, `Resumes`,
  `ZombieEnds`, `SyncStep`, `RequestStep`, `Pinned`, `Unlock`, `Task`,
  `CreateStep`, `TaskStep`, `Returns`, `LoginStep`, `Applied`, `Answered`): the
  CLI wrapper kills a command at its timeout, HTTP calls have timeouts, a
  sign-in that nobody completes is killed, and the event loop runs what is ready.
- *The worker syncs again and again* (strong fairness of `StartGet` of the
  sync and of `BackupSync!StartSync`; weak of `SyncTrigger!Worker`,
  `HaBackup!StartSync`, `SyncEnds`): `nextSyncAttempt` always lies a bounded time
  ahead, so that a sync is tried for ever; the soft lock is taken by other
  requests only now and then. `trigger_due` checks exactly that a due sync is
  served, from the fairness of the worker alone.
- *Timers fire* (`CheckBegins`, `EarlyEnds`, `Updating`): workers call
  `AddonStopper.check` and `HaUpdater.update` for ever. `CheckBegins` is strong:
  the lock it needs is free again and again.
- *A stale pending backup is dropped by a later sync* (strong fairness of the
  `Process` that does so): time passes, and a sync comes after it is stale.
- *Home Assistant finishes the backup it makes* (`HaFinishes`).
- *The user signs in and permits deletions* when asked, in `BackupSync`: an
  add-on that waits for its user promises nothing until the user has answered.
  In SignIn no such fairness is needed.
- *A precached listing expires*, `WarmExpires`: time passes. *A refresh of the
  settings comes from time to time* (`RefreshReads`), with every backup made.

Failures, cancels, restarts, requests and everything users and other programs
do are never fair, and bounded by constants whose names begin with `Max` (or by
the bounds of the scenario).

## Proofs

Checked by TLAPS for every value of the constants, under the named assumptions
on them (bounds are naturals, the sync task exists, scenarios are records of the
settings, counts and days of retention are in the ranges of the settings page, a week and a
month have a day at least, waits between backups are positive). Each part of an invariant is a named
conjunct; each action has a lemma or a step that it keeps them.

### ProtonFolderProofs

`IInv` (`Invariance`) carries the types and `UploadIsSpared`: no step takes
the tar of a save that is on its way to its sidecar, but a command that outlives its
cancelled task, for any number of backups, failures, cancels, restarts and folders. Only
commands take files away (`WhoTrashes`); those of deletions and clean-ups belong to the
holder of the soft lock, which is the upload itself (`HolderTrashes`); the
sweeps of a `get`, of the sync or of the precache, remain. The property cannot be
read off one state: when a sweep runs, the latch that protected the tar was read some
commands ago. The argument is about the FIFO queue. `get` decides to sweep a tar
only in a step in which no upload is in flight, and queues its trash command in the same
step, so any save that starts later queues behind it; the sweep is over before the
tar is written. Hence the parts of `IInv`: types; the queue holds exactly the tasks that
await a command, each once; `FlagOK`: `uploading` is set exactly while a save is in
flight; `SweepsAhead`: a task that waits to sweep a tar stands before the sync in the
queue, if the sync is uploading.

`FoldersAreSpared`: nothing trashes a folder. `FoldersOK` adds to `IInv` that a name
which is going to be trashed was cleared by a listing (`Cleared`) and that a listing's
answer, until it is used, names every folder there is; the commands of cancelled tasks
are in it too. It rests on the one restriction of the model, that no folder appears
between that listing and its trash command.

`StoredIsWhole` and `FolderIsStore` are the two about what is stored: both files of a
backup stay from the return of `save`, and every step of the folder is a step of
BackupStore or none. They assume that the precache is not among the tasks and that no
sync is cancelled (`Alone`), because otherwise the code does not keep its word (see
below), as a run with them shows. Then only the sync trashes, and `AInv` follows its local
variables: `Fit` says at each command what the locals rely on (the tar is there when the
sidecar is written; what a sweep is about to take belongs to no stored backup; what `get`
has found was whole in its first listing), and `AnswerOK` what a listing's answer still
says when the task resumes. The refinement's steps are then those at which `files`,
`stored` or `known` change.

The last part is about DriveNames. `NoSecondFolder`: any tasks, paths and failures, never a
second folder of a name by the add-on. The invariant: who is past the lock is its only
holder, and who is about to create a folder has seen none there, nor can another have
made one since. `NothingElseLost`: what is deleted for ever was moved to the trash by
the add-on and is no folder, unless the trash was changed between probe and deletion.

### BackupSyncProofs

`KeepsMax`: a purge takes a copy only when the folder held more than the settings keep,
since this sync has read it, whatever fails, is lost or is deleted by others. The
property compares with the real folder and what others have removed from it meanwhile
(`Had`), so `IInv` carries what the Model's view may be wrong about: `ViewOK` (without a
precache the Model believes of no copy in the folder that is not there and has not
been since this sync has read), `PinsOK` (it knows the pins of those it knows), `TargetOK` (what is being deleted
was chosen for a reason that still holds), `ConfirmOK` (a purge without permission
has one candidate, and none left when that is gone). The lemmas on `OlderThan` say when
a set of candidates has an oldest to give away. `KeepsLocal`, `OneWithoutPermission`
and `PinsAreKept` (no pinned copy is chosen, without a precache and pins set meanwhile)
follow from the same invariant.

`UploadsStay`: no sync deletes what it has uploaded itself. A sync uploads the newest first
and asks of each only whether it would be next to go, so the argument is about the order:
`SentOK`, what was uploaded is newer than what is still to be uploaded; `RoomOK`, from the
first purge on there are no more copies than may be kept, and fewer than that are newer
than the one that is next; so a purge that makes room for it takes something older than
all that was sent.

`SyncEndsWithinLimit` is what safety can say of `RetentionConverges`, and no run has it as a
property: a sync that comes to its end knows of no more copies in Proton Drive than are
kept, unless a session was lost. `LeftOK`: when nothing is left to upload the limit
holds, by `RoomOK`, and what still comes then, a purge of Home Assistant, does not touch it.

### EditsProofs

`PinsAreAsked`: no sidecar carries a pin nobody asked for. A pin travels through the
cache, the view, a request in flight, the option of a manual upload; `IInv` says of each
of them that its pin was asked for, or that it is the option of the upload that runs,
which takes it back when it fails.

`DataSurvives`: for any contents, after a save that returned, one interrupted write or
damaged file leaves what was saved, or what was being saved, readable. `FileOK` says
which of the two files is whole in each phase, by the number of failures since.
`PinsSurvive` carries that over to the list of pins in Home Assistant (`PinListOK`:
while a write is under way it writes what memory has): a restart finds the pin as memory
had it, after at most one failure of the disk and a last write that succeeded.

`EditsStick` and `ViewIsTrue`: the sidecar says what the user was told, and at rest the view says
what the sidecar does, while nothing puts it in doubt. The invariant (`TellOK`) cannot
speak only of times without doubt, because a deletion or an upload ends the doubt
and starts from what was there: `PlaceOK` holds at all times (no copy without a view or a
cache entry to find it by, ...), `LoneOK` follows the one rewrite that began when nothing
else ran, `SameOK`, `ReadOK` and `SentOK` say who agrees with `told` when all is
well, and `SingleOK` that there is one sidecar at most.

### HaBackupProofs

`RequestsAreAlone` (at most one request is unanswered, and it is that of the pending
backup) and `GivenToOne` (mark and note of a request go to one backup each, whatever
other programs call theirs), over crashes, time-outs and cancelled syncs. The invariant ties
each request's task to the state of the pending backup; for the second, a name that is
still looked for has been given to nobody (`MarksOK`, of the cache and of its file), none has
that of a request that waits for its answer (`Waiting`), and a note that is still to be given
can only be on the backup of its request already (`NotedPending`). `TypeCorrect` is more
than types: that there are never more backups than numbers for them needs that a request
is made once (`RequestsOK`), and a count of the backups that no request asked for.

`StoppedAreNoted` is the safety half of `StoppedComesBack`: an add-on that does not run is
noted as one to start, once any may be started, and a watchdog that is off as one to turn
on, except those that a failed or cancelled call turned off without a note, or did not
turn on (`gaveUp`). A crash may come before the notes are on
disk, so the statement speaks of the watchdogs in the file, and of all of them while
nothing has failed; that every fault is counted (`FaultsAreCounted`) connects the two.

### SignInProofs

`LinksStayGood` (the sign-in whose link the user has is the one that is polled, and no
second one waits beside it) and `NeverBoth` (two notifications never stand beside each
other, unless one was forgotten in a restart), with the types. Session and updater share no
variable, so each has an invariant and each action is sorted by the one it moves.
`LockOK`: the login lock lets one request in, which has ended the login before it;
`OwnProcess`: a process that waits for the user is the one of the fields; `Watched`: a polling
task waits for a process that has shown its link. `FlagsOK`: what shows has its flag
unless forgotten, at most one flag is set, none while a notification is being sent.

### CoordinatorProofs

Of SyncTrigger, `SyncsAreLocked`: a sync runs only while its own holder has the soft
lock; types. `TriggersAreKept`, the safety half of `TriggersServed`: while nothing fails and
the web page asks for nothing, a trigger no sync has served is raised still, or read by
the worker, or a sync is about to begin; `AloneOK` says that the lock is then free
whenever the worker looks. Of PrecacheTiming, `ListingIsRecent`: no sync works with a listing that
was, when the sync started, older than the warmup time and a minute, for any interval, backoff and `Inflation`; the
invariant bounds the age of what is read by the sync it is read for (`FetchOK`,
`CacheOK`). `RetriesAreSpaced`: a sync that failed is tried again at once one time only, and
then after at least the base of the backoff and at most its maximum; `BackoffOK` relates the
count of `Backoff` to the errors in a row.

### SettingsProofs

`SavesStick`: what the settings page saved stays in memory and in the Supervisor until
somebody changes a setting, unless a page or a backup by hand had read the options before
the save was done. `SavedOK`: since then nothing is on its way, and whoever has
read the options has read those that hold the form; the lemmas say what `validate` and
`update` make of each class of keys. `RequestsKeepRest`: a partial update changes nothing else
(`BaseOK`). Both have the conditions that the properties state, and TLC reaches states
in which these hold.

### RetentionProofs

`NoSlotIsLost` and `NewestIsNotPurged`, `SlotsKept` and `NewestStays` for every calendar,
settings and number of backups. The inductive invariant `KInv` is the two together, with what
is there having been made (`StoreOK`): that the purge spares the slots of the *last*
backup says something of the slots of all that were made only because that backup is there
and is the newest, and what it spares today can only leave the slots, never come back into them
(`SpansGrow`). The steps of the argument:

- `BisectionIsSearch` (`LookupFinds`): the two bisections find the backups between two moments
  and no others. That the recursive functions have values, and which, is shown for a least
  counterexample by the width of its range (`LeastNumber`), since an induction theorem that
  takes an operator cannot be instantiated.
- `DaysBeforeType`, `MonthHolds`, `MonthIsUnique`, by the same device: every day lies in one month of its
  year. `WeekIs`, `MonthIs`, `YearIs`: the days of a slot that is counted back from the last backup
  are those of one partition, over the turn of the year too.
- `Selected`, `SlotKeeps`: each partition with a backup keeps one of them, hence each slot does,
  and the day of the last backup keeps the last (`NewestIsKept`).
- `KeepersFit`: there are no more keepers than slots, so with room for all slots a purge
  takes no keeper (`PurgeTakes`).

`BackupsAreMade`: `BackupsKeepComing` for every calendar, wait, time of day, cooldown and
number of restarts, lost sessions and sign-ins. `PlannedInTime` is the arithmetic of `_nextBackup`: a time of day does
not make the wait longer, because a backup made before it is followed by one on the same
day. `NoneDueAtOnce`: `OneIsEnough`, by `PlannedLater`; its proof needs the days between
backups to be one at least where a time of day is set, which the settings do not
ensure.

### Only model-checked

Every invariant and every action property of a passing run is proved. Liveness
(`OrphansReaped`, `NewestReachesProton`, `DueIsMade`, `RetentionConverges`, `DueServed`,
`TriggersServed`, `StoppedComesBack`, `PendingEnds`, `FlagFollowsSession`, `PauseIsTold`,
`NotesAreWithdrawn`, `MemoryFollows`) is left to TLC: the prover handles neither fairness nor
ENABLED. Of three of these the safety half is proved, see `SyncEndsWithinLimit`, `TriggersAreKept`
and `StoppedAreNoted` above.

## Where the code does not keep its word

Two runs end in a violation, and "findings" in `PROJECT.json` quotes the words
of the code they contradict.

1. `sync_loss`: the precache stores its answer after a sync has cleared it
   (`destinationprecache.py` 54). With `delete_after_upload` the next sync
   can delete the last copy of a backup.
2. `settings_nonui`: `config.py` 183 asks for the method `setting.key` instead
   of its result, so that settings of `NON_UI_SETTING` in memory override what
   is submitted.

Seen while modelling; each is excepted by a property at the place named here.

- *Folder.* The sweep of sidecars without a tar lacks the guard that the sweep of tars
  has (`protonsource.py` 370): the precache can sweep the sidecar a save has just
  written (no precache in `folder_sync`). A cancelled CLI command is not killed and
  goes on beside the next one (`protoncli.py` 192; `zombies`): a sweep or a clean-up that
  does takes the tar of the next upload of that backup, which then stands without it
  (`LeftOver`); when it was creating a folder, the next walk, which has the lock by then, may make a second one
  (`mixed` in DriveNames).
- *Sync.* A pin set while a sync reads the folder is lost to the older listing, and
  the copy may be purged in the same sync (`coordinator.py` 358; the scenarios with
  `pinning`). A copy that another client removes after the sync has read the folder still
  counts: a purge then takes the folder below the limit, and with `delete_after_upload` the
  last copy of a backup (`model.py` 393-402; `Had`). A session that comes back in the middle of a sync lets it upload
  without a view of the folder (`model.py` 240).
- *Worker.* A request that holds the soft lock makes the worker drop triggers it
  has already reset (`syncer.py` 34; `Disturbed`).
- *Precache.* Seconds are given to `timedelta` as days (`destinationprecache.py`
  69): after one error it stays off for two hundred years (`Inflation`).
- *Files.* When the very first save of a JSON file is interrupted, the file exists
  and cannot be read (`jsonfilesaver.py` 52; `SurvivesOneFailure` speaks of a file
  that was saved).
- *Edits.* Overlapping rewrites lose one of them (`protonsource.py` 704); a manual
  upload that succeeds leaves its pin in the options; a note on a copy in Home
  Assistant is in memory only until a sync reaches `model.py` 267; after a write of
  the list of pins has failed, the same request again is not written (`config.py`
  270).
- *Home Assistant.* Any backup that is new in a listing is taken for the pending one,
  so add-ons may be started while Home Assistant still writes (`hasource.py` 313),
  and the note and options of a request go to that backup; after a restart, when no listing is known
  yet, the note of a backup by hand goes to the newest old one. A backup of another program
  with the name of the request and a date within a day is marked as the add-on's own, and
  the real one is not (`hasource.py` 338; `OtherNames`);
  the add-on's own backup may be left unmarked when it dies; an old request's end may
  start add-ons during a newer backup; a watchdog turned off just before a crash is
  not noted in the file (`StoppedComesBack` speaks of those that are); a call that times
  out or is cancelled and takes effect all the same leaves an add-on stopped, or its
  watchdog off, that nothing starts again (`addon_stopper.py` 71-79; `gaveUp`);
  `disable_watchdog_when_stopping` is never read.
- *Session.* A `logout` that fails reads as success, and the next probe signs in
  again (`protoncli.py` 467); the flags of notifications are lost with a restart
  (`orphans`); `_ensured_path` outlives a change of the account that does not go
  through `signOut`.
- *Settings.* `firstVersion` is compared with a version of the program this add-on was
  forked from, so that fresh installations count as upgraded (`data_cache.py` 77); a
  page opened, or a backup by hand begun, while a save goes on puts the old options back into
  memory until the next refresh, because a save cancels the sync only (`coordinator.py`
  108), and options edited in the Supervisor's tab since the last
  refresh are reverted (`SavedSticks` and `PartialKeepsRest` except them). Right after a
  restart memory is keyed by names (`config.py` 147), so that hiding the server then does
  not end its SSL (`Replaced`).
- *Schedule.* With a time of day, the day of the next backup is the day of the last plus the
  days between backups, cut to an integer (`model.py` 171). The settings page takes
  fractions (`static/app/app.js` 961): with half a day, that is the last one's own day,
  and every sync after that time of the day makes a backup, until retention has deleted all
  older ones. `OneIsEnough` excepts it; without the exception TLC shows it in a few steps.
- *Retention.* `GENERATIONAL_BACKUP.md` line 11 differs for a day behind the end of its
  month; with a first day of the week after today's, the current week does not count.

## Not modelled

- Wording, formatting, HTTP and file streams, the parsing of durations and sizes,
  logging, start-up wiring, the simulation: no state the properties are about.
- Web pages, status and metrics; the requests that change state are in SyncTrigger,
  BackupSync, Edits, Settings and CliSession.
- Ignored backups, the watcher's ten seconds of quiet (a
  nondeterministic choice), the expiry of the data cache, sensors.
- A backup that is complete in Home Assistant but deleted before any listing.
- `TokenBucket` is used by nothing.
- What the CLI, the Supervisor and Proton's servers do is modelled from how the
  code uses them, and marked external in `PROJECT.json`.

## Plan

What is left, by what it would add:

1. Ignored backups in BackupSync, with the notification they cause.
2. Deletion from both stores as a request of BackupSync, with `Deleted` in two steps.
3. The watcher's quiet time in SyncTrigger.
