------------------------------ MODULE DriveNames ------------------------------
(***************************************************************************)
(* Two places where ProtonSource (proton/protonsource.py) has only a name  *)
(* for an item of Proton Drive, although names there need not be unique:   *)
(* the walk to the backup folder, which must not make a second folder of a *)
(* name, and the permanent deletion of what delete() has moved to the      *)
(* trash, which must not take another item of that name.                   *)
(*                                                                         *)
(* The walk may be run by several tasks at once (a sync, the precache, an  *)
(* upload); delete() runs under the soft lock, one at a time.  Other       *)
(* clients change Proton Drive at any moment.                              *)
(***************************************************************************)
EXTENDS Naturals, Sequences

CONSTANTS
  Tasks,     \* those that call _ensureFolder
  Paths,     \* the folders that settings may name, and the folders above them
  Walks,     \* per value of PROTON_FOLDER_NAME the paths from the root to it
  Items,     \* what may be deleted
  ItemNames, \* the names of items
  Folders,   \* the items that are folders
  NameOf     \* the name of each item

Unknown == "unknown"

VARIABLES
  count,     \* per path the folders there are
  filesAt,   \* the paths where a file is
  setting,   \* PROTON_FOLDER_NAME, as a walk
  ensured,   \* _ensured_path, as a walk; <<>> for None
  holder,    \* who has _folder_lock, at most one
  at,        \* per task where it is in _ensureFolder
  walk,      \* per task the walk it takes
  todo,      \* per task what is left of it
  loose,     \* per path the creations whose task was cancelled, but not the CLI
  mixed,     \* history: paths that something else than a walk has created
  live, trash,   \* the items in the backup folder and in the trash
  first,     \* per name the item of the trash that it denotes
  doing,     \* where delete() is
  tar, meta, \* the item that its command has moved to the trash, or Unknown
  ours,      \* history: what it has moved there
  raced,     \* history: somebody changed the trash since the probe
  lost       \* history: items permanently deleted, and whether in such a race

walking  == <<count, filesAt, setting, ensured, holder, at, walk, todo, loose, mixed>>
deleting == <<live, trash, first, doing, tar, meta, ours, raced, lost>>
namesVars == <<walking, deleting>>

-----------------------------------------------------------------------------
(* _ensureFolder                                                           *)

Stages == {"list", "create", "relist"}
Here(t) == Head(todo[t])

\* Without the lock, and again with it, the latch saves the walk.
WalkCalled(t) ==
  /\ at[t] = "idle" /\ ensured # setting
  /\ at' = [at EXCEPT ![t] = "waiting"]
  /\ UNCHANGED <<count, filesAt, setting, ensured, holder, walk, todo, loose, mixed>>

\* The setting is read again under the lock: it may have changed.
Enter(t) ==
  /\ at[t] = "waiting" /\ holder = {}
  /\ IF ensured = setting
     THEN at' = [at EXCEPT ![t] = "idle"] /\ UNCHANGED <<holder, walk, todo>>
     ELSE /\ holder' = {t} /\ at' = [at EXCEPT ![t] = "list"]
          /\ walk' = [walk EXCEPT ![t] = setting] /\ todo' = [todo EXCEPT ![t] = setting]
  /\ UNCHANGED <<count, filesAt, setting, ensured, loose, mixed>>

\* The folder is there; after the last one the path is latched.
Advance(t) ==
  /\ todo' = [todo EXCEPT ![t] = Tail(@)] /\ walk' = walk
  /\ IF Tail(todo[t]) = <<>>
     THEN ensured' = walk[t] /\ holder' = {} /\ at' = [at EXCEPT ![t] = "idle"]
     ELSE UNCHANGED <<ensured, holder>> /\ at' = [at EXCEPT ![t] = "list"]

\* An error leaves the walk, and the lock.
Leave(t) ==
  /\ at' = [at EXCEPT ![t] = "idle"] /\ holder' = {}
  /\ UNCHANGED <<ensured, walk, todo>>

\* Nothing is created where a file is.  Of several entries of one name the one
\* most like a folder counts (_folderEntries).
WalkListed(t) ==
  /\ at[t] = "list"
  /\ IF count[Here(t)] > 0 THEN Advance(t)
     ELSE IF Here(t) \in filesAt THEN Leave(t)
     ELSE at' = [at EXCEPT ![t] = "create"] /\ UNCHANGED <<ensured, holder, walk, todo>>
  /\ UNCHANGED <<count, filesAt, setting, loose, mixed>>

Add(p) == count' = [count EXCEPT ![p] = @ + 1]

Created(t) ==
  /\ at[t] = "create"
  /\ Add(Here(t)) /\ Advance(t)
  /\ UNCHANGED <<filesAt, setting, loose, mixed>>

\* ProtonError, whatever the server did: look again.
CreateFails(t) ==
  /\ at[t] = "create"
  /\ (Add(Here(t)) \/ count' = count)
  /\ at' = [at EXCEPT ![t] = "relist"]
  /\ UNCHANGED <<filesAt, setting, ensured, holder, walk, todo, loose, mixed>>

WalkRelisted(t) ==
  /\ at[t] = "relist"
  /\ IF count[Here(t)] > 0 THEN Advance(t) ELSE Leave(t)
  /\ UNCHANGED <<count, filesAt, setting, loose, mixed>>

\* A listing fails, or a creation times out and its process is killed.
WalkFails(t) ==
  /\ at[t] \in Stages
  /\ \/ count' = count
     \/ at[t] = "create" /\ Add(Here(t))
  /\ Leave(t)
  /\ UNCHANGED <<filesAt, setting, loose, mixed>>

\* A cancelled task leaves the process of its command running.
Cancelled(t) ==
  /\ at[t] \in Stages /\ Leave(t)
  /\ IF at[t] = "create"
     THEN /\ loose' = [loose EXCEPT ![Here(t)] = @ + 1]
          /\ mixed' = mixed \union {Here(t)}
     ELSE UNCHANGED <<loose, mixed>>
  /\ UNCHANGED <<count, filesAt, setting>>

GivesUp(t) ==
  /\ at[t] = "waiting" /\ at' = [at EXCEPT ![t] = "idle"]
  /\ UNCHANGED <<count, filesAt, setting, ensured, holder, walk, todo, loose, mixed>>

LooseEnds(p) ==
  /\ loose[p] > 0 /\ loose' = [loose EXCEPT ![p] = @ - 1]
  /\ (Add(p) \/ count' = count)
  /\ UNCHANGED <<filesAt, setting, ensured, holder, at, walk, todo, mixed>>

\* get() could not list the folder; or the user signs out (signOut).
Unlatch ==
  /\ ensured' = <<>>
  /\ UNCHANGED <<count, filesAt, setting, holder, at, walk, todo, loose, mixed>>

SettingChanges ==
  /\ setting' \in Walks
  /\ UNCHANGED <<count, filesAt, ensured, holder, at, walk, todo, loose, mixed>>

\* Other clients of Proton Drive.
Others ==
  /\ \/ \E gone \in SUBSET Paths :
          /\ count' = [p \in Paths |-> IF p \in gone THEN 0 ELSE count[p]]
          /\ filesAt' = filesAt \ gone /\ mixed' = mixed
     \/ \E p \in Paths : Add(p) /\ mixed' = mixed \union {p} /\ filesAt' = filesAt
     \/ \E p \in Paths : filesAt' = filesAt \union {p} /\ UNCHANGED <<count, mixed>>
  /\ UNCHANGED <<setting, ensured, holder, at, walk, todo, loose>>

WalkNext ==
  \/ \E t \in Tasks : \/ WalkCalled(t) \/ Enter(t) \/ WalkListed(t) \/ Created(t) \/ CreateFails(t)
                      \/ WalkRelisted(t) \/ WalkFails(t) \/ Cancelled(t) \/ GivesUp(t)
  \/ \E p \in Paths : LooseEnds(p)
  \/ Unlatch \/ SettingChanges \/ Others

-----------------------------------------------------------------------------
(* delete() with PERMANENTLY_DELETE, and _purgeFromTrash                   *)

\* A name denotes the item that a scan of the trash finds first.
Denotes(f, tr) ==
  \A n \in ItemNames : LET matches == {i \in tr : NameOf[i] = n} IN
    IF matches = {} THEN f[n] = Unknown ELSE f[n] \in matches

Trash(new) == trash' = new /\ first' \in [ItemNames -> Items \union {Unknown}] /\ Denotes(first', new)

\* The tar is moved to the trash, then the sidecar.  What was moved is known
\* only if the command's results say so.
TrashTar(i) ==
  /\ doing = "idle" /\ i \in live
  /\ live' = live \ {i} /\ Trash(trash \union {i}) /\ ours' = ours \union {i}
  /\ tar' \in {i, Unknown} /\ doing' = "meta"
  /\ UNCHANGED <<meta, raced, lost>>

TrashMeta(i) ==
  /\ doing = "meta" /\ i \in live
  /\ live' = live \ {i} /\ Trash(trash \union {i}) /\ ours' = ours \union {i}
  /\ meta' \in {i, Unknown} /\ doing' = "probeTar"
  /\ UNCHANGED <<tar, raced, lost>>

TrashMetaFails ==
  /\ doing = "meta"
  /\ meta' = Unknown /\ doing' = "probeTar"
  /\ UNCHANGED <<live, trash, first, tar, ours, raced, lost>>

Item == IF doing \in {"probeTar", "deleteTar"} THEN tar ELSE meta
Following == IF doing \in {"probeTar", "deleteTar"} THEN "probeMeta" ELSE "idle"

\* `info` tells what the name denotes now: it must be the very item, and a file.
Probed ==
  /\ doing \in {"probeTar", "probeMeta"}
  /\ Item # Unknown /\ first[NameOf[Item]] = Item /\ Item \notin Folders
  /\ doing' = (IF doing = "probeTar" THEN "deleteTar" ELSE "deleteMeta")
  /\ raced' = FALSE
  /\ UNCHANGED <<live, trash, first, tar, meta, ours, lost>>

\* It is not, or nothing is known, or `info` fails: the item stays in the trash.
Skipped ==
  /\ doing \in {"probeTar", "probeMeta"}
  /\ doing' = Following
  /\ UNCHANGED <<live, trash, first, tar, meta, ours, raced, lost>>

\* `delete` resolves the name once more.
DeletedForever ==
  /\ doing \in {"deleteTar", "deleteMeta"}
  /\ LET i == first[NameOf[Item]] IN
     /\ i # Unknown
     /\ Trash(trash \ {i}) /\ lost' = lost \union {<<i, raced>>}
  /\ doing' = Following
  /\ UNCHANGED <<live, tar, meta, ours, raced>>

DeleteFails ==
  /\ doing \in {"deleteTar", "deleteMeta"}
  /\ doing' = Following
  /\ UNCHANGED <<live, trash, first, tar, meta, ours, raced, lost>>

\* Others fill, empty and restore the trash; uploads make new files.
OthersTrash ==
  /\ \E new \in SUBSET Items : Trash(new) /\ live' = live \ new
  /\ raced' = TRUE
  /\ UNCHANGED <<doing, tar, meta, ours, lost>>

NewFile(i) ==
  /\ i \notin live \union trash \union ours /\ \A r \in BOOLEAN : <<i, r>> \notin lost
  /\ live' = live \union {i}
  /\ UNCHANGED <<trash, first, doing, tar, meta, ours, raced, lost>>

DeleteNext ==
  \/ \E i \in Items : TrashTar(i) \/ TrashMeta(i) \/ NewFile(i)
  \/ TrashMetaFails \/ Probed \/ Skipped \/ DeletedForever \/ DeleteFails \/ OthersTrash

-----------------------------------------------------------------------------
NamesInit ==
  /\ count \in [Paths -> {0, 1}] /\ filesAt \in SUBSET Paths
  /\ setting \in Walks /\ ensured = <<>> /\ holder = {}
  /\ at = [t \in Tasks |-> "idle"]
  /\ walk = [t \in Tasks |-> <<>>] /\ todo = walk
  /\ loose = [p \in Paths |-> 0] /\ mixed = {}
  /\ live = {} /\ trash \in SUBSET Items /\ ours = {} /\ lost = {}
  /\ first \in [ItemNames -> Items \union {Unknown}] /\ Denotes(first, trash)
  /\ doing = "idle" /\ tar = Unknown /\ meta = Unknown /\ raced = FALSE

NamesNext == \/ WalkNext /\ UNCHANGED deleting
             \/ DeleteNext /\ UNCHANGED walking

NamesSpec == NamesInit /\ [][NamesNext]_namesVars

-----------------------------------------------------------------------------
(* Properties                                                              *)

\* The add-on never makes a second folder of a name: "Proton allows duplicate
\* names, which would split backups across two folders" (_ensureFolder), unless
\* another client makes one or a task is cancelled while its CLI creates it.
OneFolder == \A p \in Paths : p \notin mixed => count[p] <= 1

\* Only what this add-on itself has moved to the trash is deleted for ever, and
\* never a folder, unless another client changed the trash between the probe
\* and the deletion ("this window can't be closed further").
OnlyOursLost == \A x \in lost : ~x[2] => x[1] \in ours \ Folders

=============================================================================
