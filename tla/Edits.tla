-------------------------------- MODULE Edits --------------------------------
(***************************************************************************)
(* What the user may do to one backup from its card in the web UI, while   *)
(* syncs run: keep it, annotate it, delete it, upload or download it       *)
(* (model/coordinator.py, with ha/hasource.py and proton/protonsource.py). *)
(*                                                                         *)
(* uploadToProton, uploadBackups, delete and sync exclude each other       *)
(* (Coordinator._withSoftLock): op says which runs.  retain and note do    *)
(* not take that lock.  In Proton Drive both rewrite the whole sidecar,    *)
(* from the metadata they hold when they start.  A CLI command excludes    *)
(* every other one and the code behind it runs before the next command, so *)
(* a command and what follows it, up to the next await, are one action.    *)
(*                                                                         *)
(* In Home Assistant "keep" is a line of the file of DurableFile, written  *)
(* without an await: while pc # "idle" nothing else runs.                  *)
(***************************************************************************)
EXTENDS DurableFile, FiniteSets

CONSTANTS
  Editors,      \* requests retain and note that may run at a time
  MaxEdits,     \* bound: such requests
  MaxOps,       \* bound: uploads, downloads and deletions asked by the user
  MaxFaults,    \* bound: commands that fail
  MaxRestarts   \* bound: restarts of the add-on

ASSUME EditsBoundAssumption == {MaxEdits, MaxOps, MaxFaults, MaxRestarts} \subseteq Nat
ASSUME ValuesAssumption == Values = BOOLEAN   \* whether the file names the backup

\* What a sidecar says of a backup: PROP_RETAINED, and whether PROP_NOTE is there.
\* The variables that may hold metadata hold a set of at most one.
Metadata == [pin : BOOLEAN, note : BOOLEAN]

VARIABLES
  tar, sidecar,   \* the two files of the backup in Proton Drive
  cached,         \* its entry in ProtonSource._meta_cache
  item,           \* Backup.sources of Proton Drive: _meta, and _retained
  ha, haItem,     \* the copy in Home Assistant, and Backup.sources of it
  haNote,         \* KEY_NOTE in the data cache
  pinned,         \* whether Config.retained names the backup
  option,         \* Backup.getOptions().retain_sources of Proton Drive
  op,             \* the operation that holds the soft lock, and its next command
  read,           \* what get() has read of the sidecar in a sync
  saving,         \* the metadata that save() is to write
  manual,         \* whether the save() was asked for, with the option before
  edits,          \* the requests retain and note in flight
  left            \* what is left of the bounds

\* History: what is promised of the sidecar, whether no failure or overlap puts
\* it in doubt, whether the user ever asked for the pin in Proton Drive, and
\* whether a write of the list of pins has failed since one that succeeded.
VARIABLES told, sure, pinAsked, unwritten

remote  == <<tar, sidecar>>
view    == <<cached, item, haItem, option>>
local   == <<ha, haNote>>
locked  == <<op, read, saving, manual>>
history == <<told, sure, pinAsked, unwritten>>
all     == <<vars, remote, view, local, pinned, locked, edits, left, history>>

Idle == [at |-> "idle", field |-> "pin", value |-> FALSE, meta |-> {}, own |-> FALSE, alone |-> FALSE]

\* Home Assistant has made the backup; it may have been asked to be kept.
EditsInit ==
  /\ Init /\ data = FALSE
  /\ tar = FALSE /\ sidecar = {} /\ cached = {} /\ item = {}
  /\ ha = TRUE /\ haItem = TRUE /\ haNote = FALSE /\ pinned = FALSE /\ option \in BOOLEAN
  /\ op = "idle" /\ read = {} /\ saving = {} /\ manual = [on |-> FALSE, prior |-> FALSE]
  /\ edits = [e \in Editors |-> Idle]
  /\ left = [edits |-> MaxEdits, ops |-> MaxOps, faults |-> MaxFaults, restarts |-> MaxRestarts]
  /\ told = [pin |-> FALSE, note |-> FALSE] /\ sure = TRUE
  /\ pinAsked = option /\ unwritten = FALSE

\* Code of the event loop runs only while no file is being written.
Running == pc = "idle"
Spend(what) == left[what] > 0 /\ left' = [left EXCEPT ![what] = @ - 1]

Sending == {e \in Editors : edits[e].at = "sending"}
Orphaned(es) == [e \in Editors |-> [es[e] EXCEPT !.own = FALSE]]
Joined(es)   == [e \in Editors |-> [es[e] EXCEPT !.alone = FALSE]]

-----------------------------------------------------------------------------
(* The list of pins: Config.setRetained and _loadRetained                  *)

\* Mutation of SetRetained: only a new pin is written.
SetRetainedAppended(v) ==
  /\ pinned' = v
  /\ IF v => pinned THEN UNCHANGED vars ELSE StartWrite(v)

\* Memory changes first, and a value that memory has already is not written.
SetRetained(v) ==
  /\ pinned' = v
  /\ IF v = pinned THEN UNCHANGED vars ELSE StartWrite(v)

\* What _loadRetained makes of the file: no file, or no JSON, is an empty list.
Loaded == Read \in Values /\ Read

\* The steps of the write.  A failure of the disk fails the request behind it.
WriteGoesOn ==
  /\ CopyWritten \/ OpenMain \/ MainWritten
  /\ unwritten' = IF pc' = "idle" THEN FALSE ELSE unwritten
  /\ UNCHANGED <<remote, view, local, pinned, locked, edits, left, told, sure, pinAsked>>

WriteFails ==
  /\ Interrupted
  /\ op' = (IF op = "loaded" THEN "idle" ELSE op)
  /\ edits' = [e \in Editors |-> IF edits[e].at = "pinning" THEN Idle ELSE edits[e]]
  /\ unwritten' = TRUE
  /\ UNCHANGED <<remote, view, local, pinned, read, saving, manual, left, told, sure, pinAsked>>

DiskFails ==
  /\ Damaged
  /\ UNCHANGED <<remote, view, local, pinned, locked, edits, left, history>>

-----------------------------------------------------------------------------
(* retain and note                                                         *)

\* Coordinator.retain: the copy in Home Assistant first, if there is one.
Retain(e, inHa, inProton) ==
  /\ Running /\ edits[e].at = "idle" /\ (haItem \/ item # {}) /\ Spend("edits")
  /\ IF haItem THEN SetRetained(inHa) ELSE UNCHANGED <<vars, pinned>>
  /\ edits' = [edits EXCEPT ![e] = [Idle EXCEPT !.at = "pinning", !.value = inProton]]
  /\ UNCHANGED <<remote, view, local, locked, history>>

\* The request sends the metadata it holds, with one field changed.
Send(e, f, v, m) ==
  LET alone == Sending = {} /\ op # "read"
      rest  == IF alone THEN edits ELSE Joined(edits)
  IN  edits' = [rest EXCEPT ![e] = [at |-> "sending", field |-> f, value |-> v,
                                    meta |-> {[m EXCEPT ![f] = v]}, own |-> TRUE, alone |-> alone]]

\* ... then the copy in Proton Drive, unless it has the pin asked for.
RetainGoesOn(e) ==
  /\ Running /\ edits[e].at = "pinning"
  /\ \/ /\ \A i \in item : i.pin = edits[e].value
        /\ edits' = [edits EXCEPT ![e] = Idle] /\ pinAsked' = pinAsked
     \/ \E i \in item :
        /\ i.pin # edits[e].value /\ Send(e, "pin", edits[e].value, i.meta)
        /\ pinAsked' = (pinAsked \/ edits[e].value)
  /\ UNCHANGED <<vars, remote, view, local, pinned, locked, left, told, sure, unwritten>>

\* Coordinator.note: likewise.
Note(e, v) ==
  /\ Running /\ edits[e].at = "idle" /\ (haItem \/ item # {}) /\ Spend("edits")
  /\ haNote' = IF haItem THEN v ELSE haNote
  /\ \/ item = {} /\ edits' = edits
     \/ \E i \in item : Send(e, "note", v, i.meta)
  /\ UNCHANGED <<vars, remote, view, ha, pinned, locked, history>>

\* What is promised once the rewrite of e is done: of one that met no other
\* rewrite and no sync that was reading, that only its field changes.
Promise(e) ==
  /\ told' = [told EXCEPT ![edits[e].field] = edits[e].value]
  /\ sure' = (sure /\ edits[e].alone)

\* The object of the view that e holds, if a sync has not replaced it.
Renewed(e, i) == [meta |-> CHOOSE m \in edits[e].meta : TRUE,
                  pin |-> IF edits[e].field = "pin" THEN edits[e].value ELSE i.pin]

\* Mutation of Rewritten: the metadata the view holds stays the old.
RewrittenKeepingMeta(e) ==
  /\ Running /\ edits[e].at = "sending"
  /\ sidecar' = edits[e].meta /\ cached' = edits[e].meta
  /\ item' = IF edits[e].own THEN {[Renewed(e, i) EXCEPT !.meta = i.meta] : i \in item} ELSE item
  /\ edits' = [edits EXCEPT ![e] = Idle]
  /\ Promise(e)
  /\ UNCHANGED <<vars, tar, haItem, option, local, pinned, locked, left, pinAsked, unwritten>>

\* Mutation of Rewritten: the cache keeps the old metadata.
RewrittenUncached(e) ==
  /\ Running /\ edits[e].at = "sending"
  /\ sidecar' = edits[e].meta /\ cached' = cached
  /\ item' = IF edits[e].own THEN {Renewed(e, i) : i \in item} ELSE item
  /\ edits' = [edits EXCEPT ![e] = Idle]
  /\ Promise(e)
  /\ UNCHANGED <<vars, tar, haItem, option, local, pinned, locked, left, pinAsked, unwritten>>

\* _rewriteMetadata is done: create-new-revision makes the sidecar if it is gone.
Rewritten(e) ==
  /\ Running /\ edits[e].at = "sending"
  /\ sidecar' = edits[e].meta /\ cached' = edits[e].meta
  /\ item' = IF edits[e].own THEN {Renewed(e, i) : i \in item} ELSE item
  /\ edits' = [edits EXCEPT ![e] = Idle]
  /\ Promise(e)
  /\ UNCHANGED <<vars, tar, haItem, option, local, pinned, locked, left, pinAsked, unwritten>>

\* The command fails; it may have done its work.
RewriteFails(e) ==
  /\ Running /\ edits[e].at = "sending" /\ Spend("faults")
  /\ sidecar' \in {sidecar, edits[e].meta}
  /\ edits' = [edits EXCEPT ![e] = Idle]
  /\ sure' = (sure /\ sidecar' = sidecar)
  /\ UNCHANGED <<vars, tar, view, local, pinned, locked, told, pinAsked, unwritten>>

-----------------------------------------------------------------------------
(* uploadToProton, and save() of a sync                                    *)

SaveStarts(m, asked) ==
  /\ op' = "tar" /\ saving' = {m} /\ read' = {}
  /\ manual' = [on |-> asked, prior |-> option]

\* Coordinator._uploadToProton: the pin travels in the options of the backup.
Upload ==
  /\ Running /\ op = "idle" /\ haItem /\ item = {} /\ Spend("ops")
  /\ SaveStarts([pin |-> TRUE, note |-> haNote], TRUE)
  /\ option' = TRUE
  /\ UNCHANGED <<vars, remote, cached, item, haItem, local, pinned, edits, history>>

\* The archive is read from Home Assistant.
TarUploaded ==
  /\ Running /\ op = "tar" /\ ha
  /\ tar' = TRUE /\ op' = "side"
  /\ UNCHANGED <<vars, sidecar, view, local, pinned, read, saving, manual, edits, left, history>>

SidecarUploaded ==
  /\ Running /\ op = "side"
  /\ sidecar' = saving /\ cached' = saving
  /\ item' = {[meta |-> m, pin |-> m.pin] : m \in saving}
  /\ op' = "idle" /\ saving' = {}
  /\ told' \in saving /\ sure' = (Sending = {})
  /\ pinAsked' = (pinAsked \/ manual.on)
  /\ edits' = Joined(edits)
  /\ UNCHANGED <<vars, tar, haItem, option, local, pinned, read, manual, left, unwritten>>

\* Mutation of RolledBack: a failed upload leaves its option behind.
RolledBackNever == UNCHANGED option

\* The except of _uploadToProton: the option is what it was before.
RolledBack == option' = IF manual.on THEN manual.prior ELSE option

\* A command of save() fails, or the user cancels; it may have done its work.
TarFails ==
  /\ Running /\ op = "tar"
  /\ IF ha THEN Spend("faults") /\ tar' \in {tar, TRUE} ELSE UNCHANGED <<left, tar>>
  /\ op' = "idle" /\ saving' = {}
  /\ RolledBack
  /\ UNCHANGED <<vars, sidecar, cached, item, haItem, local, pinned, read, manual, edits, history>>

SidecarFails ==
  /\ Running /\ op = "side" /\ Spend("faults")
  /\ sidecar' \in {sidecar, saving}
  /\ sure' = (sure /\ sidecar' = sidecar)
  /\ pinAsked' = (pinAsked \/ (manual.on /\ sidecar' = saving))
  /\ op' = "clean" /\ saving' = {}
  /\ UNCHANGED <<vars, tar, view, local, pinned, read, manual, edits, told, unwritten>>

\* _cleanupOrphanTar, as best it can.
Cleaned ==
  /\ Running /\ op = "clean"
  /\ \/ tar' = FALSE /\ UNCHANGED left
     \/ tar' = tar /\ Spend("faults")
  /\ op' = "idle"
  /\ RolledBack
  /\ UNCHANGED <<vars, sidecar, cached, item, haItem, local, pinned, read, saving, manual, edits, history>>

-----------------------------------------------------------------------------
(* delete: from Home Assistant, from Proton Drive, or from both in turn    *)

\* The options go with the last of the two copies.
OptionOf(inHa, inProton) == option' = (option /\ (inHa \/ inProton))

Delete(which) ==
  /\ Running /\ op = "idle" /\ Spend("ops")
  /\ \/ which \in {"delHa", "delBoth"} /\ haItem
     \/ which = "delTar" /\ item # {}
  /\ op' = which
  /\ UNCHANGED <<vars, remote, view, local, pinned, read, saving, manual, edits, history>>

\* The second deletion is refused if that copy is not there.
DeletedInHa ==
  /\ Running /\ op \in {"delHa", "delBoth"} /\ ha
  /\ ha' = FALSE /\ haItem' = FALSE
  /\ OptionOf(FALSE, item # {})
  /\ op' = IF op = "delBoth" /\ item # {} THEN "delTar" ELSE "idle"
  /\ UNCHANGED <<vars, remote, cached, item, haNote, pinned, read, saving, manual, edits, left, history>>

TarTrashed ==
  /\ Running /\ op = "delTar" /\ tar
  /\ op' = "delSide" /\ tar' = FALSE
  /\ UNCHANGED <<vars, sidecar, view, local, pinned, read, saving, manual, edits, left, history>>

\* The sidecar is trashed as best it can be; the copy is gone either way.
SidecarTrashed ==
  /\ Running /\ op = "delSide"
  /\ \/ sidecar' = {} /\ UNCHANGED left
     \/ sidecar' = sidecar /\ Spend("faults")
  /\ op' = "idle" /\ cached' = {} /\ item' = {}
  /\ OptionOf(haItem, FALSE)
  /\ edits' = Orphaned(edits)
  /\ UNCHANGED <<vars, tar, haItem, local, pinned, read, saving, manual, history>>

\* A deletion fails, or finds nothing to delete: the request ends there.
DeleteFails ==
  /\ Running /\ op' = "idle"
  /\ \/ /\ op \in {"delHa", "delBoth"}
        /\ IF ha THEN Spend("faults") ELSE left' = left
        /\ ha' \in {ha, FALSE} /\ tar' = tar
     \/ /\ op = "delTar"
        /\ IF tar THEN Spend("faults") ELSE left' = left
        /\ tar' \in {tar, FALSE} /\ ha' = ha
  /\ sure' = (sure /\ tar' = tar /\ ha' = ha)
  /\ UNCHANGED <<vars, sidecar, view, haNote, pinned, read, saving, manual, edits, told, pinAsked, unwritten>>

-----------------------------------------------------------------------------
(* uploadBackups: from Proton Drive to Home Assistant                      *)

Download ==
  /\ Running /\ op = "idle" /\ ~haItem /\ item # {} /\ Spend("ops")
  /\ op' = "load"
  /\ UNCHANGED <<vars, remote, view, local, pinned, read, saving, manual, edits, history>>

\* HaSource.save keeps what it has uploaded, then asks for its details.
Downloaded ==
  /\ Running /\ op = "load" /\ tar
  /\ ha' = TRUE /\ op' = "loaded"
  /\ SetRetained(TRUE)
  /\ UNCHANGED <<remote, view, haNote, read, saving, manual, edits, left, history>>

DownloadEnds ==
  /\ Running /\ op = "loaded"
  /\ haItem' = TRUE /\ op' = "idle"
  /\ UNCHANGED <<vars, remote, cached, item, option, local, pinned, read, saving, manual, edits, left, history>>

DownloadFails ==
  /\ Running /\ op \in {"load", "loaded"} /\ op' = "idle"
  /\ IF op = "loaded" \/ tar THEN Spend("faults") ELSE left' = left
  /\ ha' \in {ha, TRUE}
  /\ UNCHANGED <<vars, remote, view, haNote, pinned, read, saving, manual, edits, history>>

-----------------------------------------------------------------------------
(* A sync                                                                  *)

\* Both sources are read; get() prefers its cache to the file, forgets what is
\* gone and sweeps a file without its partner (ProtonFolder has the steps).
SyncReads ==
  /\ Running /\ op = "idle"
  /\ LET pair == tar /\ sidecar # {} IN
     /\ read' = IF ~pair THEN {} ELSE IF cached # {} THEN cached ELSE sidecar
     /\ tar' = pair /\ sidecar' = IF pair THEN sidecar ELSE {}
     /\ IF pair /\ cached = {} /\ Sending = {} /\ ~sure
        THEN told' \in sidecar /\ sure' = TRUE
        ELSE UNCHANGED <<told, sure>>
  /\ cached' = read'
  /\ haItem' = ha /\ OptionOf(ha, item # {})
  /\ op' = "read" /\ edits' = Joined(edits)
  /\ UNCHANGED <<vars, item, local, pinned, saving, manual, left, pinAsked, unwritten>>

\* _syncBackups replaces the copy in the view.  What is only in Home Assistant
\* is uploaded; what the settings keep and ignore is the subject of BackupSync.
SyncTakes ==
  /\ Running /\ op = "read"
  /\ item' = {[meta |-> m, pin |-> m.pin] : m \in read}
  /\ edits' = Orphaned(edits)
  /\ OptionOf(haItem, read # {})
  /\ IF haItem /\ read = {} THEN SaveStarts([pin |-> option, note |-> haNote], FALSE)
     ELSE op' = "idle" /\ read' = {} /\ UNCHANGED <<saving, manual>>
  /\ UNCHANGED <<vars, remote, cached, haItem, local, pinned, left, history>>

SyncFails ==
  /\ Running /\ op = "read" /\ Spend("faults")
  /\ op' = "idle" /\ read' = {}
  /\ UNCHANGED <<vars, remote, view, local, pinned, saving, manual, edits, history>>

\* The add-on dies.  A command that runs may end its work, and the data cache
\* may not have been saved since the note.
Restart ==
  /\ Spend("restarts")
  /\ IF Running THEN UNCHANGED vars ELSE Interrupted
  /\ tar' \in {tar, tar \/ op = "tar"}
  /\ sidecar' \in {sidecar} \union {edits[e].meta : e \in Sending}
                  \union (IF op = "side" THEN {saving} ELSE {})
  /\ haNote' \in {haNote, FALSE}
  /\ cached' = {} /\ item' = {} /\ haItem' = FALSE /\ option' = FALSE
  /\ pinned' = Loaded /\ unwritten' = FALSE
  /\ op' = "idle" /\ read' = {} /\ saving' = {} /\ manual' = [on |-> FALSE, prior |-> FALSE]
  /\ edits' = [e \in Editors |-> Idle]
  /\ sure' = (sure /\ Sending = {} /\ op = "idle")
  /\ pinAsked' = (pinAsked \/ (op = "side" /\ manual.on))
  /\ UNCHANGED <<ha, told>>

-----------------------------------------------------------------------------
File == WriteGoesOn \/ WriteFails \/ DiskFails

Edit(e) == \/ \E v, w \in BOOLEAN : Retain(e, v, w)
           \/ \E v \in BOOLEAN : Note(e, v)
           \/ RetainGoesOn(e) \/ Rewritten(e) \/ RewriteFails(e)

Transfer == \/ Upload \/ TarUploaded \/ SidecarUploaded \/ TarFails \/ SidecarFails \/ Cleaned
            \/ Download \/ Downloaded \/ DownloadEnds \/ DownloadFails

Deletion == \/ \E which \in {"delHa", "delBoth", "delTar"} : Delete(which)
            \/ DeletedInHa \/ TarTrashed \/ SidecarTrashed \/ DeleteFails

Sync == SyncReads \/ SyncTakes \/ SyncFails

EditsNext == File \/ (\E e \in Editors : Edit(e)) \/ Transfer \/ Deletion \/ Sync \/ Restart

EditsSpec == EditsInit /\ [][EditsNext]_all

-----------------------------------------------------------------------------
(* Properties                                                              *)

AtRest == Running /\ op = "idle" /\ \A e \in Editors : edits[e].at = "idle"

\* What the user was told of the copy in Proton Drive is in its sidecar, and an
\* edit of one field leaves the other alone, however many edits, syncs, uploads
\* and restarts came between, unless rewrites overlapped, a sync was reading, or
\* a command failed after its work (retain and note lines 699-734).
EditSticks == AtRest /\ sure /\ tar => sidecar \subseteq {told}

\* At rest the view never shows a copy that is gone or metadata that is not in
\* the sidecar: a deletion that fails half-way has dropped exactly the copies
\* that are gone (_delete lines 377-384, delete 436-489, _loadMetadata 405-411).
ViewMatches ==
  AtRest /\ sure =>
    /\ haItem => ha
    /\ \A i \in item : tar /\ sidecar = {i.meta} /\ i.pin = i.meta.pin /\ cached = sidecar

\* A copy in Proton Drive is pinned only if the user asked for it: a manual
\* upload that failed leaves nothing that a later sync would pin (lines 288-327).
PinOnlyIfAsked == tar => \A m \in sidecar : m.pin => pinAsked

\* A restart finds the pin in Home Assistant as memory has it, although the disk
\* has failed once, if the last write succeeded (config.py lines 256-274).
PinSurvives == Running /\ hits <= 1 /\ ~unwritten => Loaded = pinned
=============================================================================
