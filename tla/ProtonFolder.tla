---------------------------- MODULE ProtonFolder ----------------------------
(***************************************************************************)
(* The remote backup folder and the three tasks of the add-on that work on *)
(* it (proton/protonsource.py), over the one-command-at-a-time CLI wrapper *)
(* (proton/protoncli.py).                                                  *)
(*                                                                         *)
(* A backup is two files, <slug>.tar and <slug>.metadata.json, written by  *)
(* two CLI commands.  get() lists the folder, downloads the sidecars it    *)
(* has not cached and moves files without their partner to the trash.      *)
(*                                                                         *)
(* The code is single threaded asyncio, so a task is interrupted only at   *)
(* an await.  Every await that matters here is a CLI command, which waits  *)
(* for ProtonCli._cli_lock (first in, first out) and then runs: one        *)
(* command is an enqueue, an Effect on the server and a return, and the    *)
(* code between two awaits is one action.                                  *)
(***************************************************************************)
EXTENDS Naturals, Sequences, FiniteSets, SequencesExt

CONSTANTS
  Slugs,        \* backup slugs
  Actors,       \* which tasks run, a subset of AllActors
  MaxSaves,     \* bound: uploads started between two restarts
  MaxFaults,    \* bound: CLI commands that fail
  MaxCancels,   \* bound: syncs cancelled by the user
  MaxCrashes,   \* bound: restarts of the add-on
  MaxFolders    \* bound: folders the user creates under a backup's name

\* "sync": whoever holds the coordinator's soft lock, one operation at a time.
\* "precache": DestinationPrecache, which calls get() without that lock.
\* "editor": the retain and note requests of the web UI, also without it.
AllActors == {"sync", "precache", "editor"}

ASSUME ActorsAssumption == Actors \subseteq AllActors /\ "sync" \in Actors
ASSUME BoundsAssumption ==
  /\ MaxSaves \in Nat /\ MaxFaults \in Nat /\ MaxCancels \in Nat
  /\ MaxCrashes \in Nat /\ MaxFolders \in Nat

Getters == Actors \cap {"sync", "precache"}

Names == {"tar", "meta"} \X Slugs
Tar(s) == <<"tar", s>>
Meta(s) == <<"meta", s>>
IsTar(n) == n[1] = "tar"
Partner(n) == IF IsTar(n) THEN Meta(n[2]) ELSE Tar(n[2])
Pair(s) == {Tar(s), Meta(s)}
NoName == <<"none", "none">>
NoSlug == "none"

Unpaired(names) == {n \in names : Partner(n) \notin names}

-----------------------------------------------------------------------------
VARIABLES
  files,      \* names of plain files in the remote folder
  folders,    \* names of folders in it: Proton allows duplicate names
  known,      \* Model.backups: slugs the add-on believes are in Proton Drive
  cache,      \* ProtonSource._meta_cache: slugs whose sidecar is cached
  uploading,  \* ProtonSource._uploading
  starts,     \* ProtonSource._upload_starts
  pc,         \* per task: the command it awaits, "stage" or "idle"
  loc,        \* per task: the local variables of the running handler
  queue,      \* ProtonCli._cli_lock: its holder, then its waiters in order
  reply,      \* what the holder's command answered, NoReply while it runs
  zombies,    \* commands whose task was cancelled, still running
  stored,     \* history: slugs whose last save() returned and was not undone
  budget      \* what is left of the bounds on faults, cancels and crashes

server == <<files, folders>>
source == <<known, cache, uploading, starts>>
task   == <<pc, loc>>
vars   == <<server, source, task, queue, reply, zombies, stored, budget>>

\* The command each pc awaits.
Listing   == {"list", "listAgain", "relist", "cleanList", "delList"}
Uploading == {"upTar", "upMeta", "rewrite"}
Trashing  == {"sweep", "cleanTrash", "delTar", "delMeta"}
Saving    == {"stage", "upTar", "upMeta"}
Awaiting  == Listing \union Uploading \union Trashing \union {"load"}

Locals == [cur : Names \union {NoName},       \* the name the command is about
           slug : Slugs \union {NoSlug},      \* the backup saved or deleted
           seen : SUBSET Names,               \* files of the first listing
           todo : SUBSET Names,               \* names left to load or sweep
           bad : SUBSET Names,                \* unsweepable
           found : SUBSET Slugs,              \* backups
           latched : BOOLEAN,                 \* uploading_at_listing
           mark : Nat]                        \* upload_starts_at_listing

Fresh == [cur |-> NoName, slug |-> NoSlug, seen |-> {}, todo |-> {},
          bad |-> {}, found |-> {}, latched |-> FALSE, mark |-> 0]

NoReply == [done |-> FALSE, ok |-> FALSE, files |-> {}, folders |-> {}]
Replies == [done : BOOLEAN, ok : BOOLEAN, files : SUBSET Names, folders : SUBSET Names]
Ok      == [NoReply EXCEPT !.done = TRUE, !.ok = TRUE]
Failed  == [NoReply EXCEPT !.done = TRUE]

TypeOK ==
  /\ files \subseteq Names /\ folders \subseteq Names
  /\ known \subseteq Slugs /\ cache \subseteq Slugs /\ stored \subseteq Slugs
  /\ uploading \in BOOLEAN /\ starts \in Nat
  /\ pc \in [Actors -> Awaiting \union {"idle", "stage"}]
  /\ loc \in [Actors -> Locals]
  /\ queue \in Seq(Actors)
  /\ reply \in Replies
  /\ zombies \subseteq (Trashing \union Uploading) \X Names
  /\ budget \in [faults : Nat, cancels : Nat, crashes : Nat]

\* The folder may hold the leftovers of earlier versions and crashes.
Init ==
  /\ files \in SUBSET Names
  /\ folders = {} /\ known = {} /\ cache = {} /\ stored = {}
  /\ uploading = FALSE /\ starts = 0
  /\ pc = [a \in Actors |-> "idle"] /\ loc = [a \in Actors |-> Fresh]
  /\ queue = <<>> /\ reply = NoReply /\ zombies = {}
  /\ budget = [faults |-> MaxFaults, cancels |-> MaxCancels, crashes |-> MaxCrashes]

-----------------------------------------------------------------------------
(* The CLI: the head of the queue holds the lock and runs its command.     *)

\* What the command awaited at p about name n does to the folder.  trash
\* resolves a name by itself and may pick the folder of two duplicates.
Effect(p, n) ==
  \/ p \in Uploading /\ files' = files \union {n} /\ folders' = folders
  \/ p \in Trashing /\ n \in files /\ files' = files \ {n} /\ folders' = folders
  \/ p \in Trashing /\ n \in folders /\ folders' = folders \ {n} /\ files' = files
  \/ p \in Trashing /\ n \notin files \union folders /\ UNCHANGED server
  \/ p \notin Uploading \union Trashing /\ UNCHANGED server

\* Whether that command succeeds when nothing goes wrong.
Finds(p, n) ==
  CASE p = "load" -> n \in files
    [] p \in Trashing -> n \in files \union folders
    [] OTHER -> TRUE

CommandSucceeds ==
  /\ queue # <<>> /\ ~reply.done
  /\ LET a == Head(queue) IN
     /\ Effect(pc[a], loc[a].cur)
     /\ reply' = IF pc[a] \in Listing
                 THEN [Ok EXCEPT !.files = files, !.folders = folders]
                 ELSE IF Finds(pc[a], loc[a].cur) THEN Ok ELSE Failed
  /\ UNCHANGED <<source, task, queue, zombies, stored, budget>>

\* A nonzero exit or a timeout: the server may have done the work or not.
CommandFails ==
  /\ queue # <<>> /\ ~reply.done
  /\ budget.faults > 0
  /\ budget' = [budget EXCEPT !.faults = @ - 1]
  /\ LET a == Head(queue) IN Effect(pc[a], loc[a].cur) \/ UNCHANGED server
  /\ reply' = Failed
  /\ UNCHANGED <<source, task, queue, zombies, stored>>

\* Task a, idle until now, calls the command of p.
Call(a, p, l) ==
  /\ pc[a] \notin Awaiting
  /\ pc' = [pc EXCEPT ![a] = p] /\ loc' = [loc EXCEPT ![a] = l]
  /\ queue' = Append(queue, a)
  /\ UNCHANGED <<server, reply, zombies, budget>>

\* Task a has the answer of the command of p ...
Returned(a, p) == pc[a] = p /\ queue # <<>> /\ Head(queue) = a /\ reply.done

Release == reply' = NoReply /\ UNCHANGED <<server, zombies, budget>>

\* ... and goes on to call that of q, behind the tasks already waiting,
Then(a, q, l) ==
  /\ pc' = [pc EXCEPT ![a] = q] /\ loc' = [loc EXCEPT ![a] = l]
  /\ queue' = Append(Tail(queue), a)
  /\ Release

\* ... or ends.
Done(a) ==
  /\ pc' = [pc EXCEPT ![a] = "idle"] /\ loc' = [loc EXCEPT ![a] = Fresh]
  /\ queue' = Tail(queue)
  /\ Release

-----------------------------------------------------------------------------
(* ProtonSource.get                                                        *)

StartGet(a) ==
  /\ a \in Getters /\ pc[a] = "idle"
  /\ Call(a, "list", [Fresh EXCEPT !.latched = uploading, !.mark = starts])
  /\ UNCHANGED <<source, stored>>

\* Mutation of Return: what the Model knew already is kept.
ReturnMerged(a, found) ==
  /\ Done(a)
  /\ known' = IF a = "sync" THEN known \union found ELSE known

\* get() returns: a sync replaces the Model's view of the destination.
Return(a, found) ==
  /\ Done(a)
  /\ known' = IF a = "sync" THEN found ELSE known

UploadSince(l) == uploading \/ starts # l.mark

\* Mutation of SweepOn: a tar is swept whatever began since the listing.
SweepUnguarded(a, l) ==
  LET left == l.todo \ l.bad
  IN  \/ \E n \in left : Then(a, "sweep", [l EXCEPT !.cur = n, !.todo = @ \ {n}]) /\ known' = known
      \/ left = {} /\ Return(a, l.found)

\* Metadata sidecars are swept first, unguarded; every tar is guarded again.
SweepOn(a, l) ==
  LET metas == {n \in l.todo \ l.bad : ~IsTar(n)}
      tars  == {n \in l.todo \ l.bad : IsTar(n)}
  IN  \/ \E n \in metas : Then(a, "sweep", [l EXCEPT !.cur = n, !.todo = @ \ {n}]) /\ known' = known
      \/ /\ metas = {} /\ ~UploadSince(l)
         /\ \E n \in tars : Then(a, "sweep", [l EXCEPT !.cur = n, !.todo = @ \ {n}]) /\ known' = known
      \/ /\ metas = {} /\ (tars = {} \/ UploadSince(l))
         /\ Return(a, l.found)

\* Everything is loaded: forget the sidecars of backups that are gone from
\* the cache c, and list again if there is something to sweep.
Classify(a, l, c) ==
  LET orphans == {n \in Unpaired(l.seen) :
                    IsTar(n) => ~l.latched /\ starts = l.mark}
  IN  /\ cache' = c \cap l.found
      /\ IF orphans = {} THEN Return(a, l.found)
         ELSE /\ Then(a, "relist", [l EXCEPT !.cur = NoName, !.todo = orphans])
              /\ known' = known

\* Load the next sidecar that is not in the cache c, until there is none.
LoadOn(a, l, c) ==
  LET missing == {n \in l.todo : n[2] \notin c}
      hits == l.found \union {n[2] : n \in l.todo \ missing}
  IN  IF missing = {} THEN Classify(a, [l EXCEPT !.found = hits], c)
      ELSE \E n \in missing :
             /\ Then(a, "load", [l EXCEPT !.found = hits, !.cur = n, !.todo = missing \ {n}])
             /\ cache' = c /\ known' = known

Listed(a) ==
  /\ Returned(a, "list") \/ Returned(a, "listAgain")
  /\ IF reply.ok
     THEN LoadOn(a, [loc[a] EXCEPT !.seen = reply.files,
                     !.todo = {n \in reply.files : ~IsTar(n) /\ Partner(n) \in reply.files}],
                 cache)
     ELSE /\ \/ pc[a] = "list" /\ Then(a, "listAgain", loc[a])   \* retried once
             \/ Done(a)                                          \* get() raises
          /\ UNCHANGED <<known, cache>>
  /\ UNCHANGED <<uploading, starts, stored>>

\* A sidecar that cannot be read hides its backup; a lost session ends get().
Loaded(a) ==
  /\ Returned(a, "load")
  /\ LET s == loc[a].cur[2] IN
     \/ reply.ok /\ LoadOn(a, [loc[a] EXCEPT !.found = @ \union {s}], cache \union {s})
     \/ ~reply.ok /\ LoadOn(a, loc[a], cache)
     \/ ~reply.ok /\ Done(a) /\ UNCHANGED <<known, cache>>
  /\ UNCHANGED <<uploading, starts, stored>>

\* Mutation of Relisted: names that a folder shares are swept like the others.
RelistedBlind(a) ==
  /\ Returned(a, "relist")
  /\ LET names == reply.files \union reply.folders IN
     IF reply.ok
     THEN SweepOn(a, [loc[a] EXCEPT !.todo = {n \in @ : n \in names /\ Partner(n) \notin names}])
     ELSE Return(a, loc[a].found)
  /\ UNCHANGED <<cache, uploading, starts, stored>>

\* Sweep only what is present and unpaired in both listings.
Relisted(a) ==
  /\ Returned(a, "relist")
  /\ LET names == reply.files \union reply.folders IN
     IF reply.ok
     THEN SweepOn(a, [loc[a] EXCEPT !.bad = reply.folders,
                      !.todo = {n \in @ : n \in names /\ Partner(n) \notin names}])
     ELSE Return(a, loc[a].found)
  /\ UNCHANGED <<cache, uploading, starts, stored>>

\* A failed trash is left for the next get(); not every failure is noticed.
Swept(a) ==
  /\ Returned(a, "sweep")
  /\ \/ cache' = IF IsTar(loc[a].cur) THEN cache ELSE cache \ {loc[a].cur[2]}
     \/ ~reply.ok /\ cache' = cache
  /\ SweepOn(a, loc[a])
  /\ UNCHANGED <<uploading, starts, stored>>

-----------------------------------------------------------------------------
(* ProtonSource.save, by the holder of the soft lock                       *)

Holder == "sync"

\* The sync uploads what its view of the destination does not have.
StartSave(s) ==
  /\ pc[Holder] = "idle" /\ s \notin known /\ starts < MaxSaves
  /\ pc' = [pc EXCEPT ![Holder] = "stage"]
  /\ loc' = [loc EXCEPT ![Holder] = [Fresh EXCEPT !.slug = s]]
  /\ uploading' = TRUE /\ starts' = starts + 1
  /\ stored' = stored \ {s}
  /\ UNCHANGED <<server, known, cache, queue, reply, zombies, budget>>

Staged ==
  /\ pc[Holder] = "stage"
  /\ Call(Holder, "upTar", [loc[Holder] EXCEPT !.cur = Tar(loc[Holder].slug)])
  /\ UNCHANGED <<source, stored>>

\* Mutation of StageFails: the flag is not cleared when staging fails.
StageFailsUploading ==
  /\ pc[Holder] = "stage"
  /\ pc' = [pc EXCEPT ![Holder] = "idle"] /\ loc' = [loc EXCEPT ![Holder] = Fresh]
  /\ UNCHANGED <<server, source, queue, reply, zombies, stored, budget>>

\* No room on the disk, or the download from Home Assistant fails.
StageFails ==
  /\ pc[Holder] = "stage"
  /\ pc' = [pc EXCEPT ![Holder] = "idle"] /\ loc' = [loc EXCEPT ![Holder] = Fresh]
  /\ uploading' = FALSE
  /\ UNCHANGED <<server, known, cache, starts, queue, reply, zombies, stored, budget>>

TarUploaded ==
  /\ Returned(Holder, "upTar")
  /\ IF reply.ok
     THEN /\ Then(Holder, "upMeta", [loc[Holder] EXCEPT !.cur = Meta(loc[Holder].slug)])
          /\ uploading' = uploading
     ELSE Done(Holder) /\ uploading' = FALSE
  /\ UNCHANGED <<known, cache, starts, stored>>

\* Mutation of MetaUploaded: a failed upload of the sidecar is taken for a success.
MetaUploadedAnyway ==
  /\ Returned(Holder, "upMeta") /\ Done(Holder)
  /\ LET s == loc[Holder].slug IN
     cache' = cache \union {s} /\ known' = known \union {s} /\ stored' = stored \union {s}
  /\ uploading' = FALSE
  /\ UNCHANGED starts

MetaUploaded ==
  /\ Returned(Holder, "upMeta")
  /\ LET s == loc[Holder].slug IN
     IF reply.ok
     THEN /\ Done(Holder)
          /\ cache' = cache \union {s} /\ known' = known \union {s}
          /\ stored' = stored \union {s}
     ELSE /\ Then(Holder, "cleanList", [loc[Holder] EXCEPT !.cur = NoName])
          /\ UNCHANGED <<known, cache, stored>>
  /\ uploading' = FALSE
  /\ UNCHANGED starts

\* _cleanupOrphanTar: only a name that is a plain file and nothing else.
CleanListed ==
  /\ Returned(Holder, "cleanList")
  /\ LET t == Tar(loc[Holder].slug) IN
     IF reply.ok /\ t \in reply.files \ reply.folders
     THEN Then(Holder, "cleanTrash", [loc[Holder] EXCEPT !.cur = t])
     ELSE Done(Holder)
  /\ UNCHANGED <<source, stored>>

CleanTrashed ==
  /\ Returned(Holder, "cleanTrash")
  /\ Done(Holder)
  /\ UNCHANGED <<source, stored>>

-----------------------------------------------------------------------------
(* ProtonSource.delete, by the holder of the soft lock                     *)

StartDelete(s) ==
  /\ pc[Holder] = "idle" /\ s \in known
  /\ Call(Holder, "delList", [Fresh EXCEPT !.slug = s])
  /\ UNCHANGED <<source, stored>>

DelListed ==
  /\ Returned(Holder, "delList")
  /\ LET s == loc[Holder].slug IN
     IF reply.ok /\ reply.folders \cap Pair(s) = {}
     THEN /\ Then(Holder, "delTar", [loc[Holder] EXCEPT !.cur = Tar(s)])
          /\ stored' = stored \ {s}
     ELSE Done(Holder) /\ UNCHANGED stored
  /\ UNCHANGED source

\* Strict: the backup stays known unless its tar is gone.
DelTarTrashed ==
  /\ Returned(Holder, "delTar")
  /\ IF reply.ok
     THEN Then(Holder, "delMeta", [loc[Holder] EXCEPT !.cur = Meta(loc[Holder].slug)])
     ELSE Done(Holder)
  /\ UNCHANGED <<source, stored>>

\* Best effort: a sidecar left behind is swept by a later get().
DelMetaTrashed ==
  /\ Returned(Holder, "delMeta")
  /\ Done(Holder)
  /\ cache' = cache \ {loc[Holder].slug} /\ known' = known \ {loc[Holder].slug}
  /\ UNCHANGED <<uploading, starts, stored>>

-----------------------------------------------------------------------------
(* ProtonSource.retain and note: rewrite a sidecar, without the soft lock  *)

StartRewrite(s) ==
  /\ "editor" \in Actors /\ pc["editor"] = "idle" /\ s \in known
  /\ Call("editor", "rewrite", [Fresh EXCEPT !.slug = s, !.cur = Meta(s)])
  /\ UNCHANGED <<source, stored>>

Rewritten ==
  /\ "editor" \in Actors /\ Returned("editor", "rewrite")
  /\ Done("editor")
  /\ cache' = IF reply.ok THEN cache \union {loc["editor"].slug} ELSE cache
  /\ UNCHANGED <<known, uploading, starts, stored>>

-----------------------------------------------------------------------------
(* Cancellation, restarts and the user                                     *)

\* The user cancels the sync.  Its command is not killed: the lock is released
\* around a process that goes on.  A cancelled save() still cleans up its tar.
Cancel ==
  /\ pc[Holder] # "idle" /\ budget.cancels > 0
  /\ budget' = [budget EXCEPT !.cancels = @ - 1]
  /\ LET running == queue # <<>> /\ Head(queue) = Holder
         cmd == <<pc[Holder], loc[Holder].cur>>
         place == {i \in DOMAIN queue : queue[i] = Holder}
         left == IF place = {} THEN queue ELSE RemoveAt(queue, CHOOSE i \in place : TRUE)
         cleans == pc[Holder] = "upMeta"
     IN  /\ zombies' = IF running /\ ~reply.done /\ pc[Holder] \in Trashing \union Uploading
                       THEN zombies \union {cmd} ELSE zombies
         /\ reply' = IF running THEN NoReply ELSE reply
         /\ queue' = IF cleans THEN Append(left, Holder) ELSE left
         /\ pc' = [pc EXCEPT ![Holder] = IF cleans THEN "cleanList" ELSE "idle"]
         /\ loc' = [loc EXCEPT ![Holder] = IF cleans THEN [@ EXCEPT !.cur = NoName] ELSE Fresh]
         /\ uploading' = (uploading /\ pc[Holder] \notin Saving)
  /\ UNCHANGED <<server, known, cache, starts, stored>>

ZombieEnds ==
  /\ \E z \in zombies :
       /\ Effect(z[1], z[2]) \/ UNCHANGED server
       /\ zombies' = zombies \ {z}
  /\ UNCHANGED <<source, task, queue, reply, stored, budget>>

\* Everything in memory is lost, the folder stays as it is.
Crash ==
  /\ budget.crashes > 0
  /\ budget' = [budget EXCEPT !.crashes = @ - 1]
  /\ known' = {} /\ cache' = {} /\ uploading' = FALSE /\ starts' = 0
  /\ pc' = [a \in Actors |-> "idle"] /\ loc' = [a \in Actors |-> Fresh]
  /\ queue' = <<>> /\ reply' = NoReply /\ zombies' = {}
  /\ UNCHANGED <<server, stored>>

\* The user makes a folder with the name of a backup's file.  Between the
\* listing that clears a name and the trash command that follows, the CLI
\* offers no protection: the user is taken not to hit that window.
UserAddsFolder(n) ==
  /\ n \notin folders /\ Cardinality(folders) < MaxFolders
  /\ \A a \in Actors : pc[a] \notin Trashing /\
        ~(reply.done /\ Head(queue) = a /\ pc[a] \in {"relist", "cleanList", "delList"})
  /\ \A z \in zombies : z[1] \notin Trashing
  /\ folders' = folders \union {n}
  /\ UNCHANGED <<files, source, task, queue, reply, zombies, stored, budget>>

-----------------------------------------------------------------------------
Command == CommandSucceeds \/ CommandFails

Get(a) == StartGet(a) \/ Listed(a) \/ Loaded(a) \/ Relisted(a) \/ Swept(a)

Save == \/ \E s \in Slugs : StartSave(s)
        \/ Staged \/ StageFails \/ TarUploaded \/ MetaUploaded
        \/ CleanListed \/ CleanTrashed

Delete == \/ \E s \in Slugs : StartDelete(s)
          \/ DelListed \/ DelTarTrashed \/ DelMetaTrashed

Edit == (\E s \in Slugs : StartRewrite(s)) \/ Rewritten

Environment == Cancel \/ ZombieEnds \/ Crash \/ \E n \in Names : UserAddsFolder(n)

Next == \/ Command \/ (\E a \in Getters : Get(a)) \/ Save \/ Delete \/ Edit
        \/ Environment

Spec == Init /\ [][Next]_vars

\* What the event loop and the CLI's timeout guarantee: a command ends, its
\* task resumes, and the sync worker starts get() again and again.
Resumes == \/ \E a \in Getters : Listed(a) \/ Loaded(a) \/ Relisted(a) \/ Swept(a)
           \/ TarUploaded \/ MetaUploaded \/ CleanListed \/ CleanTrashed
           \/ DelListed \/ DelTarTrashed \/ DelMetaTrashed \/ Rewritten

Fairness == /\ WF_vars(Command) /\ WF_vars(Resumes) /\ WF_vars(ZombieEnds)
            /\ WF_vars(Staged \/ StageFails)
            /\ SF_vars(StartGet(Holder))

FairSpec == Spec /\ Fairness

-----------------------------------------------------------------------------
(* The folder as a store of backups                                        *)

Whole(names) == {s \in Slugs : Pair(s) \subseteq names}

\* What the sync's get() goes by: its first listing.
SeenBySync ==
  IF pc[Holder] \in {"list", "listAgain"} /\ queue # <<>> /\ Head(queue) = Holder
  THEN Whole(reply.files) ELSE Whole(loc[Holder].seen)

Store == INSTANCE BackupStore
           WITH whole <- Whole(files), promised <- stored, seen <- SeenBySync, view <- known

-----------------------------------------------------------------------------
(* Properties                                                              *)

\* The folder behaves as the store of BackupStore: what was saved stays whole,
\* and a sync takes no backup for stored that its listing did not show whole,
\* whatever fails, restarts or is edited (get, save and delete lines 242-565).
ImplementsStore == Store!Spec

\* The command of a cancelled task, which nothing has killed, takes n away.
LeftOver(n) == \E p \in Trashing : <<p, n>> \in zombies \ zombies'

\* A backup whose save() succeeded keeps both its files until it is deleted or
\* saved again (save lines 491-565, get 333-401, delete 436-489).
StoredStaysPaired == \A s \in stored : Pair(s) \subseteq files

\* Nothing takes the tar of the save() that is on its way to write the sidecar,
\* whoever lists and sweeps meanwhile, but a trash command that outlives the task
\* that was cancelled (the latch of lines 248-255, the guard of 387; protoncli.py 192).
UploadInFlightSpared ==
  [][\A s \in Slugs :
       pc[Holder] = "upMeta" /\ loc[Holder].slug = s /\ Tar(s) \in files \ files'
         => LeftOver(Tar(s))]_vars

\* No step of the add-on moves a folder to the trash, whatever names the user
\* gives to folders (lines 342, 359, 443-464, 579-588).
FolderNeverTrashed == [][folders \subseteq folders']_vars

\* A file left without its partner is eventually paired or removed, unless a
\* folder of the same name makes it untouchable (lines 367-401).
OrphansReaped ==
  \A n \in Names :
    (n \in Unpaired(files)) ~> (n \notin Unpaired(files) \/ {n, Partner(n)} \cap folders # {})
=============================================================================
