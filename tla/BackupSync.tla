----------------------------- MODULE BackupSync -----------------------------
(***************************************************************************)
(* One sync of the add-on, Model.sync (model/model.py), run under the soft *)
(* lock of the Coordinator (model/coordinator.py): read both sources,      *)
(* purge, create the backup that is due, upload, purge again.  Around it,  *)
(* what may happen at its awaits: the user's requests, the precache        *)
(* (model/destinationprecache.py), failures and cancellation.              *)
(*                                                                         *)
(* A backup is the number of its creation, so a larger one is newer.  The  *)
(* two stores are sets; how a copy is written and removed in Proton Drive  *)
(* is the subject of ProtonFolder.  The deletion scheme is OldestScheme or *)
(* DeleteAfterUploadScheme (model/backupscheme.py).                        *)
(***************************************************************************)
EXTENDS Integers, FiniteSets, FiniteSetsExt

CONSTANTS
  MaxBackups,    \* bound: backups ever made
  Scenarios      \* the settings and bounds to explore

\* existing, maxBackups: backups made before the first sync, and ever.
\* maxHa, maxProton: settings max_backups_in_ha and max_backups_in_proton_drive.
\* before, after, confirm: settings delete_before_new_backup,
\*   delete_after_upload and confirm_multiple_deletes.
\* precaching, pinning: whether the precache runs, and whether the user pins
\*   copies in Proton Drive.
\* others: whether other clients remove copies from Proton Drive.
\* faults, signOuts, requests: bounds on syncs that fail, sessions that are
\*   lost, and what the user and other clients delete, upload and pin.
Scenario == [existing : Nat, maxBackups : Nat, maxHa : Nat, maxProton : Nat,
             before : BOOLEAN, after : BOOLEAN, confirm : BOOLEAN,
             precaching : BOOLEAN, pinning : BOOLEAN, others : BOOLEAN,
             faults : Nat, signOuts : Nat, requests : Nat]

ASSUME ScenariosAssumption ==
  /\ MaxBackups \in Nat /\ Scenarios \subseteq Scenario
  /\ \A s \in Scenarios : s.existing <= s.maxBackups /\ s.maxBackups <= MaxBackups

Backups == 1..MaxBackups

\* What get() of the destination returns.
Listings == [have : SUBSET Backups, pins : SUBSET Backups]
None == [have |-> {}, pins |-> {}]

-----------------------------------------------------------------------------
VARIABLES
  ha, proton,   \* the copies in Home Assistant and in Proton Drive
  pins,         \* the copies in Proton Drive marked "keep forever"
  made, due,    \* backups made so far, and whether the next one is due
  gone,         \* history: what others removed from Proton Drive since the last get()
  mHa, mProton, mPins,   \* Model.backups: what the add-on believes of these
  held,         \* of which the retain request in flight holds a copy
  pc,           \* the phase of the running sync, or request, or "idle"
  target,       \* the backup being deleted or uploaded, 0 when none
  listing,      \* what get() has read so far
  uploads,      \* the backups left to upload in this sync
  sent, taken,  \* history: uploads of this sync, deletions of this purge
  permit,       \* GlobalInfo.permitMultipleDeletes
  signedIn,     \* ProtonCli.isAuthenticated, what enabled() returns
  cache, fetch, \* DestinationPrecache: its value, and get() in flight
  fetching,     \* how far the precache's get() is
  pinning,      \* the backup of the retain request in flight, 0 when none
  faults, signOuts, requests, \* what is left of the bounds
  set           \* the scenario

stores == <<ha, proton, pins, made, gone>>
model  == <<mHa, mProton, mPins, held>>
run    == <<pc, target, listing, uploads, sent, taken>>
warm   == <<cache, fetch, fetching>>
user   == <<permit, signedIn, signOuts, pinning, requests>>
vars   == <<stores, due, model, run, warm, user, faults, set>>

\* The phases that run a _purge, of which source, and what comes next.
PurgesHa     == {"purgeHa", "preCreate", "postCreate", "postUpload"}
PurgesProton == {"purgeProton", "preSave", "postSave"}
PrePurges    == {"preCreate", "preSave"}
Purges       == PurgesHa \union PurgesProton
After == [purgeHa |-> "purgeProton", purgeProton |-> "decide",
          preCreate |-> "create", postCreate |-> "collect",
          preSave |-> "save", postSave |-> "next", postUpload |-> "finish"]
SyncPhases == Purges \union
  {"getHa", "getProton", "gotProton", "decide", "create", "collect", "next", "save", "finish"}
RequestPhases == {"reqHa", "reqProton", "reqUpload"}

TypeOK ==
  /\ {ha, proton, pins, mHa, mProton, mPins, held, uploads, sent} \subseteq SUBSET Backups
  /\ made \in 0..MaxBackups /\ {due, permit, signedIn} \subseteq BOOLEAN
  /\ set \in Scenarios
  /\ pc \in SyncPhases \union RequestPhases \union {"idle"}
  /\ {target, pinning} \subseteq {0} \union Backups
  /\ {listing, cache, fetch, gone} \subseteq Listings
  /\ fetching \in {"no", "called", "read"}
  /\ {taken, faults, signOuts, requests} \subseteq Nat

\* The add-on starts with whatever copies earlier runs have left.
Init ==
  /\ set \in Scenarios
  /\ made = set.existing /\ due = FALSE
  /\ ha \in SUBSET (1..set.existing) /\ proton \in SUBSET (1..set.existing) /\ pins = {}
  /\ gone = None /\ mHa = {} /\ mProton = {} /\ mPins = {} /\ held = {}
  /\ pc = "idle" /\ target = 0 /\ listing = None /\ uploads = {}
  /\ sent = {} /\ taken = 0 /\ permit = FALSE /\ signedIn \in BOOLEAN
  /\ cache = None /\ fetch = None /\ fetching = "no" /\ pinning = 0
  /\ faults = set.faults /\ signOuts = set.signOuts /\ requests = set.requests

\* A step of the running sync that changes no more of it than its phase.
Goto(p) == pc' = p /\ UNCHANGED <<target, listing, uploads, sent, taken>>

-----------------------------------------------------------------------------
(* Reading both sources                                                    *)

\* Coordinator._withSoftLock: pc # "idle" is _busy.
StartSync ==
  /\ pc = "idle" /\ Goto("getHa")
  /\ UNCHANGED <<stores, due, model, warm, user, faults, set>>

\* _syncBackups, first source.  A destination that is not enabled has no
\* backups; a precached listing is used if there is one, and not empty.
\* A backup the add-on learns of postpones the next one.
GetHa ==
  /\ pc = "getHa"
  /\ mHa' = ha
  /\ due' = (due /\ \A b \in ha : \E c \in mHa \union mProton : b <= c)
  /\ \/ ~signedIn /\ Goto("gotProton")
     \/ /\ signedIn /\ cache.have # {}
        /\ pc' = "gotProton" /\ listing' = cache
        /\ UNCHANGED <<target, uploads, sent, taken>>
     \/ signedIn /\ cache.have = {} /\ Goto("getProton")
  /\ UNCHANGED <<stores, mProton, mPins, held, warm, user, faults, set>>

Truth == [have |-> proton, pins |-> pins]

\* Without a session get() raises.
GetProton ==
  /\ pc = "getProton" /\ signedIn
  /\ pc' = "gotProton" /\ listing' = Truth /\ gone' = None
  /\ UNCHANGED <<ha, proton, pins, made, due, model, target, uploads, sent, taken, warm, user, faults, set>>

\* The listing's copies replace those in Model.backups.  Nothing is purged while
\* the user has to sign in.
GotProton ==
  /\ pc = "gotProton"
  /\ mProton' = listing.have /\ mPins' = listing.pins /\ held' = {}
  /\ pc' = (IF signedIn THEN "purgeHa" ELSE "decide") /\ listing' = None
  /\ UNCHANGED <<stores, due, mHa, target, uploads, sent, taken, warm, user, faults, set>>

-----------------------------------------------------------------------------
(* Purging                                                                 *)

\* Mutation of OlderThan: one too many.
OlderThanOffByOne(n, C) == {b \in C : Cardinality({c \in C : c > b}) + 1 >= n}

\* Those with at least n newer ones: what OldestScheme(count=n) deletes.
OlderThan(n, C) == {b \in C : Cardinality({c \in C : c > b}) >= n}

\* The most copies a _purge at phase p lets its source keep.
Limit(p) ==
  LET most == IF p \in PurgesHa THEN set.maxHa ELSE set.maxProton
  IN  IF p \in PrePurges THEN most - 1 ELSE most

\* Mutation of PurgeList: pinned copies are deleted like the others.
PurgeListOfPinned(p) ==
  CASE p \in PurgesHa /\ set.after -> mHa \cap mProton
    [] p \in PurgesHa /\ ~set.after /\ set.maxHa # 0 -> OlderThan(Limit(p), mHa)
    [] p \in PurgesProton /\ signedIn /\ set.maxProton # 0 -> OlderThan(Limit(p), mProton)
    [] OTHER -> {}

\* Mutation of PurgeList: delete_after_upload does not wait for the upload.
PurgeListBeforeUpload(p) ==
  CASE p \in PurgesHa /\ set.after -> mHa
    [] p \in PurgesProton /\ signedIn /\ set.maxProton # 0 -> OlderThan(Limit(p), mProton \ mPins)
    [] OTHER -> {}

\* _getPurgeList: what _nextPurge returns until it returns nothing.
PurgeList(p) ==
  CASE p \in PurgesHa /\ set.after -> mHa \cap mProton
    [] p \in PurgesHa /\ ~set.after /\ set.maxHa # 0 -> OlderThan(Limit(p), mHa)
    [] p \in PurgesProton /\ signedIn /\ set.maxProton # 0 -> OlderThan(Limit(p), mProton \ mPins)
    [] OTHER -> {}

\* Mutation of Blocked: the permission is ignored.
BlockedForEver(p) == set.confirm /\ Cardinality(PurgeList(p)) > 1

\* More than one candidate needs the user's permission.
Blocked(p) == set.confirm /\ ~permit /\ Cardinality(PurgeList(p)) > 1

Purge ==
  /\ pc \in Purges /\ target = 0
  /\ PurgeList(pc) # {} /\ ~Blocked(pc)
  /\ target' = Min(PurgeList(pc))
  /\ UNCHANGED <<stores, due, model, pc, listing, uploads, sent, taken, warm, user, faults, set>>

PurgeEnds ==
  /\ pc \in Purges /\ target = 0
  /\ PurgeList(pc) = {}
  /\ pc' = After[pc] /\ taken' = 0
  /\ UNCHANGED <<stores, due, model, target, listing, uploads, sent, warm, user, faults, set>>

RemoveHa(b) == ha' = ha \ {b} /\ UNCHANGED <<proton, pins, gone>>
ForgetHa(b) == mHa' = mHa \ {b} /\ UNCHANGED <<mProton, mPins, held>>
RemoveProton(b) == proton' = proton \ {b} /\ pins' = pins \ {b} /\ UNCHANGED <<ha, gone>>
ForgetProton(b) ==
  mProton' = mProton \ {b} /\ mPins' = mPins \ {b} /\ held' = held \ {b} /\ mHa' = mHa

\* Deleting in Proton Drive is strict: the copy must be there.
CanDelete(p, b) == IF p \in PurgesHa THEN b \in ha ELSE signedIn /\ b \in proton

\* Model.deleteBackup.
Deleted ==
  /\ pc \in Purges /\ target # 0 /\ CanDelete(pc, target)
  /\ IF pc \in PurgesHa THEN RemoveHa(target) /\ ForgetHa(target)
     ELSE RemoveProton(target) /\ ForgetProton(target)
  /\ target' = 0 /\ taken' = taken + 1
  /\ UNCHANGED <<made, due, pc, listing, uploads, sent, warm, user, faults, set>>

-----------------------------------------------------------------------------
(* Creating the backup that is due                                         *)

\* Mutation of Decide: no backup is made while Home Assistant is at its limit.
DecideIfRoom ==
  /\ pc = "decide"
  /\ Goto(IF ~(due /\ signedIn /\ made < set.maxBackups /\ Cardinality(mHa) < set.maxHa) THEN "collect"
          ELSE IF set.before THEN "preCreate" ELSE "create")
  /\ UNCHANGED <<stores, due, model, warm, user, faults, set>>

Decide ==
  /\ pc = "decide"
  /\ Goto(IF ~(due /\ signedIn /\ made < set.maxBackups) THEN "collect"
          ELSE IF set.before THEN "preCreate" ELSE "create")
  /\ UNCHANGED <<stores, due, model, warm, user, faults, set>>

\* Home Assistant makes the backup; the add-on may learn of it too late.
MakeInHa == made < set.maxBackups /\ made' = made + 1 /\ ha' = ha \union {made'}

Create ==
  /\ pc = "create" /\ MakeInHa
  /\ mHa' = mHa \union {made'} /\ due' = FALSE
  /\ Goto("postCreate")
  /\ UNCHANGED <<proton, pins, gone, mProton, mPins, held, warm, user, faults, set>>

-----------------------------------------------------------------------------
(* Uploading, newest first                                                 *)

Collect ==
  /\ pc = "collect"
  /\ IF signedIn THEN pc' = "next" /\ uploads' = mHa \ mProton
     ELSE pc' = "finish" /\ uploads' = {}
  /\ UNCHANGED <<stores, due, model, target, listing, sent, taken, warm, user, faults, set>>

\* Mutations of PurgedNext: everything is uploaded, and a full store takes no more.
NeverPurgedNext(b) == FALSE
PurgedNextWhenFull(b) ==
  LET C == (mProton \ mPins) \union {b} IN
  signedIn /\ set.maxProton # 0 /\ Cardinality(C) >= set.maxProton /\ b = Min(C)

\* Whether a copy of b would be the next one purged from Proton Drive.
PurgedNext(b) ==
  LET C == (mProton \ mPins) \union {b} IN
  signedIn /\ set.maxProton # 0 /\ Cardinality(C) > set.maxProton /\ b = Min(C)

NextUpload ==
  /\ pc = "next"
  /\ IF uploads # {} /\ ~PurgedNext(Max(uploads))
     THEN Goto(IF set.before THEN "preSave" ELSE "save")
     ELSE /\ pc' = (IF set.after THEN "postUpload" ELSE "finish")
          /\ uploads' = {} /\ UNCHANGED <<target, listing, sent, taken>>
  /\ UNCHANGED <<stores, due, model, warm, user, faults, set>>

CanSave(b) == b \in ha /\ signedIn

Save ==
  /\ pc = "save"
  /\ LET b == Max(uploads) IN
     /\ CanSave(b)
     /\ proton' = proton \union {b} /\ pins' = pins \ {b}
     /\ mProton' = mProton \union {b} /\ mPins' = mPins \ {b} /\ held' = held \ {b}
     /\ gone' = [have |-> gone.have \ {b}, pins |-> gone.pins \ {b}]
     /\ uploads' = uploads \ {b} /\ sent' = sent \union {b}
  /\ pc' = "postSave"
  /\ UNCHANGED <<ha, made, due, mHa, target, listing, taken, warm, user, faults, set>>

-----------------------------------------------------------------------------
(* The end of a sync                                                       *)

\* The finally of Coordinator._sync clears the precache, whatever happened.
EndSync ==
  /\ pc' = "idle" /\ target' = 0 /\ listing' = None /\ uploads' = {}
  /\ sent' = {} /\ taken' = 0
  /\ cache' = None
  /\ UNCHANGED <<fetch, fetching, signedIn, signOuts, pinning, requests>>

\* GlobalInfo.success withdraws the permission to delete several backups.
Finish ==
  /\ pc = "finish"
  /\ permit' = FALSE /\ EndSync
  /\ UNCHANGED <<stores, due, model, faults, set>>

\* DeleteMutlipleBackupsError.
Refuse ==
  /\ pc \in Purges /\ target = 0 /\ Blocked(pc)
  /\ EndSync
  /\ UNCHANGED <<stores, due, model, permit, faults, set>>

\* The copy to delete or to upload is gone, or so is the session.
Impossible ==
  /\ \/ pc = "getProton" /\ ~signedIn
     \/ pc \in Purges /\ target # 0 /\ ~CanDelete(pc, target)
     \/ pc = "save" /\ ~CanSave(Max(uploads))
  /\ EndSync
  /\ UNCHANGED <<stores, due, model, permit, faults, set>>

\* A failed save() may have stored the backup all the same, or trashed the tar of a
\* copy that the add-on did not know of.
SaveInDoubt(b) ==
  /\ CanSave(b)
  /\ \/ proton' = proton \union {b} /\ pins' = pins \ {b} /\ UNCHANGED <<ha, gone>>
     \/ RemoveProton(b)

\* A source raises, or the user cancels.  Home Assistant and Proton Drive
\* may have done their part.
SyncFails ==
  /\ pc \in SyncPhases /\ faults > 0
  /\ faults' = faults - 1
  /\ \/ UNCHANGED stores
     \/ target # 0 /\ pc \in PurgesHa /\ RemoveHa(target) /\ made' = made
     \/ target # 0 /\ pc \in PurgesProton /\ RemoveProton(target) /\ made' = made
     \/ pc = "create" /\ MakeInHa /\ made + 1 < set.maxBackups /\ UNCHANGED <<proton, pins, gone>>
     \/ pc = "save" /\ SaveInDoubt(Max(uploads)) /\ made' = made
  /\ EndSync
  /\ UNCHANGED <<due, model, permit, set>>

-----------------------------------------------------------------------------
(* Requests of the user: delete and uploadToProton take the soft lock.     *)

Request(p, b) ==
  /\ pc = "idle" /\ requests > 0
  /\ requests' = requests - 1 /\ cache' = None
  /\ pc' = p /\ target' = b
  /\ UNCHANGED <<stores, due, model, listing, uploads, sent, taken, fetch, fetching,
                 permit, signedIn, signOuts, pinning, faults, set>>

RequestDeleteHa(b) == b \in mHa /\ Request("reqHa", b)
RequestDeleteProton(b) == b \in mProton /\ signedIn /\ Request("reqProton", b)
RequestUpload(b) == b \in mHa \ mProton /\ signedIn /\ Request("reqUpload", b)

\* A copy that is not there any more fails the request and changes nothing.
RequestedDelete ==
  /\ \/ pc = "reqHa" /\ target \in ha /\ RemoveHa(target) /\ ForgetHa(target)
     \/ pc = "reqProton" /\ target \in proton /\ RemoveProton(target) /\ ForgetProton(target)
     \/ pc = "reqHa" /\ target \notin ha /\ UNCHANGED <<stores, model>>
     \/ pc = "reqProton" /\ target \notin proton /\ UNCHANGED <<stores, model>>
  /\ pc' = "idle" /\ target' = 0
  /\ UNCHANGED <<made, due, listing, uploads, sent, taken, warm, user, faults, set>>

\* A manual upload pins the copy with the same save.
RequestedUpload ==
  /\ pc = "reqUpload"
  /\ LET done == IF CanSave(target) THEN {target} ELSE {} IN
     /\ proton' = proton \union done /\ pins' = pins \union done
     /\ mProton' = mProton \union done /\ mPins' = mPins \union done
  /\ pc' = "idle" /\ target' = 0
  /\ UNCHANGED <<ha, made, gone, due, mHa, held, listing, uploads, sent, taken, warm, user, faults, set>>

\* retain does not take the soft lock: it may run in the middle of a sync.
RequestPin(b) ==
  /\ set.pinning /\ pinning = 0 /\ requests > 0 /\ signedIn /\ b \in mProton \ mPins
  /\ requests' = requests - 1 /\ pinning' = b /\ held' = {b} /\ cache' = None
  /\ UNCHANGED <<stores, due, mHa, mProton, mPins, run, fetch, fetching,
                 permit, signedIn, signOuts, faults, set>>

\* The sidecar is rewritten, then the copy that the request has looked up: a listing
\* or an upload may have put another in its place.
Pinned ==
  /\ pinning # 0
  /\ LET done == IF signedIn THEN {pinning} ELSE {} IN
     /\ pins' = pins \union (done \cap proton)
     /\ mPins' = mPins \union (done \cap held)
  /\ pinning' = 0 /\ held' = {}
  /\ UNCHANGED <<ha, proton, made, gone, due, mHa, mProton, run, warm,
                 permit, signedIn, signOuts, requests, faults, set>>

Permit ==
  /\ ~permit /\ permit' = TRUE
  /\ UNCHANGED <<stores, due, model, run, warm, signedIn, signOuts, pinning, requests, faults, set>>

-----------------------------------------------------------------------------
(* The precache, and the outside world                                     *)

\* checkForSmoothing calls get() when nothing is cached and no sync is due.
Warm ==
  /\ set.precaching /\ fetching = "no" /\ cache.have = {} /\ ~due /\ signedIn
  /\ fetching' = "called"
  /\ UNCHANGED <<stores, due, model, run, cache, fetch, user, faults, set>>

WarmRead ==
  /\ fetching = "called"
  /\ fetching' = "read" /\ fetch' = Truth
  /\ UNCHANGED <<stores, due, model, run, cache, user, faults, set>>

WarmStore ==
  /\ fetching = "read"
  /\ fetching' = "no" /\ cache' = fetch /\ fetch' = None
  /\ UNCHANGED <<stores, due, model, run, user, faults, set>>

\* valid_until passes.
WarmExpires ==
  /\ cache # None /\ cache' = None
  /\ UNCHANGED <<stores, due, model, run, fetch, fetching, user, faults, set>>

ComesDue ==
  /\ ~due /\ made < set.maxBackups /\ due' = TRUE
  /\ UNCHANGED <<stores, model, run, warm, user, faults, set>>

\* Home Assistant, not the add-on, makes a backup or deletes one.  MaxBackups
\* leaves room for the one that the add-on makes when it is due.
MadeElsewhere ==
  /\ MakeInHa /\ made + 1 < set.maxBackups
  /\ UNCHANGED <<proton, pins, gone, due, model, run, warm, user, faults, set>>

LostInHa(b) ==
  /\ requests > 0 /\ b \in ha
  /\ requests' = requests - 1 /\ RemoveHa(b)
  /\ UNCHANGED <<made, due, model, run, warm, permit, signedIn, signOuts, pinning, faults, set>>

\* Another client of Proton Drive removes a copy.
LostInProton(b) ==
  /\ set.others /\ requests > 0 /\ b \in proton
  /\ requests' = requests - 1
  /\ proton' = proton \ {b} /\ pins' = pins \ {b}
  /\ gone' = [have |-> gone.have \union {b}, pins |-> gone.pins \union ({b} \cap pins)]
  /\ UNCHANGED <<ha, made, due, model, run, warm, permit, signedIn, signOuts, pinning, faults, set>>

\* A command is told that the session is over; the sign-in page, or the probe
\* at the start of a sync, finds that there is one.
SignOut ==
  /\ signedIn /\ signOuts > 0
  /\ signedIn' = FALSE /\ signOuts' = signOuts - 1
  /\ UNCHANGED <<stores, due, model, run, warm, permit, pinning, requests, faults, set>>

SignIn ==
  /\ ~signedIn /\ signedIn' = TRUE /\ signOuts' = signOuts
  /\ UNCHANGED <<stores, due, model, run, warm, permit, pinning, requests, faults, set>>

-----------------------------------------------------------------------------
SyncStep == \/ GetHa \/ GetProton \/ GotProton \/ Purge \/ PurgeEnds \/ Deleted
            \/ Decide \/ Create \/ Collect \/ NextUpload \/ Save
            \/ Finish \/ Refuse \/ Impossible

RequestStep == RequestedDelete \/ RequestedUpload

User == \/ \E b \in Backups : \/ RequestDeleteHa(b) \/ RequestDeleteProton(b)
                              \/ RequestUpload(b) \/ RequestPin(b)
        \/ Permit

Precache == Warm \/ WarmRead \/ WarmStore \/ WarmExpires

World == \/ ComesDue \/ MadeElsewhere \/ SignOut \/ SignIn
         \/ \E b \in Backups : LostInHa(b) \/ LostInProton(b)

Next == \/ StartSync \/ SyncStep \/ SyncFails \/ RequestStep \/ Pinned
        \/ User \/ Precache \/ World

Spec == Init /\ [][Next]_vars

\* The sync worker runs a sync again and again, every request returns, a
\* precached value expires, and the user who is asked to sign in or to permit
\* several deletions does so.
Fairness == /\ SF_vars(StartSync) /\ WF_vars(SyncStep) /\ WF_vars(RequestStep)
            /\ WF_vars(Pinned) /\ SF_vars(WarmExpires) /\ WF_vars(Permit) /\ WF_vars(SignIn)

FairSpec == Spec /\ Fairness

-----------------------------------------------------------------------------
(* Properties                                                              *)

\* What Proton Drive holds, or has held since the last get(): no sync can know what
\* other clients have removed since then.
Had == proton \union gone.have
HadPins == pins \union gone.pins

\* A sync deletes a copy in Proton Drive only when the folder held more of them,
\* since the sync has read it, than the settings keep, or as many when it makes room
\* for an upload, whatever fails or is changed by requests; unless a precached listing
\* is older or a pin is set while the sync reads (_purge lines 393-402,
\* _buildDeleteScheme 352-362).
PurgeKeepsMax ==
  [][~set.precaching /\ ~set.pinning /\ Deleted /\ pc \in PurgesProton =>
       Cardinality(Had \ HadPins) > set.maxProton - (IF pc = "preSave" THEN 1 ELSE 0)]_vars

\* With delete_after_upload and no precache, a sync deletes a copy in Home
\* Assistant only when Proton Drive has one, or had one when the sync read the folder
\* and another client has removed it since (DeleteAfterUploadScheme).
LocalKept ==
  [][set.after /\ ~set.precaching /\ pc \in PurgesHa /\ Deleted => target \in Had]_vars

\* The same whatever runs: DOCS.md line 34, "delete a backup from Home Assistant
\* once it reaches Proton Drive".
LocalAlwaysKept ==
  [][set.after /\ pc \in PurgesHa /\ Deleted => target \in proton]_vars

\* A sync never chooses to delete a copy whose pin is already written in Proton
\* Drive, when no pin is set while it runs and it reads no precached listing,
\* which may be older than the pin (_nextPurge lines 384-389; the web UI: "This
\* backup will be kept").
PinnedNotPurged ==
  [][~set.precaching /\ ~set.pinning /\ Purge /\ pc \in PurgesProton => target' \notin pins]_vars

\* A sync never deletes from Proton Drive what it has itself uploaded, unless the
\* session is lost on the way, when nothing seems to be purged next: "only upload
\* if doing so won't result in it being deleted next" (line 243).
NoUploadChurn ==
  [][set.signOuts = 0 /\ Deleted /\ pc \in PurgesProton => target \notin sent]_vars

\* Without the user's permission one purge deletes one copy at most, however
\* its list changes while it runs (_purge lines 396-402).
PurgeRespectsConfirm ==
  [][set.confirm /\ Deleted => permit \/ taken = 0]_vars

\* A sync that comes to its end knows of no more copies in Proton Drive than the
\* settings keep, besides those that are pinned, unless a session was lost: no
\* purge is left out after an upload, and none is needed after the last (sync
\* lines 233-259).
EndsWithinLimit ==
  [][set.signOuts = 0 /\ set.maxProton # 0 /\ Finish =>
       Cardinality(mProton \ mPins) <= set.maxProton]_vars

\* The newest backup reaches Proton Drive, whatever failed before (sync lines
\* 230-259), unless it is deleted.
NewestReachesProton ==
  \A b \in Backups : (b \in ha /\ b = made) ~> (b \in proton \/ b \notin ha \/ b # made)

\* A backup that is due is made or found (sync lines 224-231).
DueIsMade == due ~> ~due

\* Both stores come back to the number of copies that the settings keep.
Over == \/ set.maxProton # 0 /\ Cardinality(proton \ pins) > set.maxProton
        \/ ~set.after /\ set.maxHa # 0 /\ Cardinality(ha) > set.maxHa
RetentionConverges == []<>~Over
=============================================================================
