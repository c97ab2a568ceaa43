--------------------------- MODULE BackupSyncProofs ---------------------------
(***************************************************************************)
(* What a sync never deletes, for all settings, numbers of backups, and    *)
(* requests, failures and lost sessions beside it.                         *)
(***************************************************************************)
EXTENDS BackupSync, FiniteSetTheorems, WellFoundedInduction, TLAPS

-----------------------------------------------------------------------------
(* The smallest and the largest element of a finite set                    *)

\* No other set of F is a part of A.
Smallest(A, F) == \A B \in F : B \subseteq A => B = A

LEMMA SmallestExists ==
  ASSUME NEW T, IsFiniteSet(T), NEW F, F \subseteq SUBSET T, F # {}
  PROVE  \E A \in F : Smallest(A, F)
<1>1. IsWellFoundedOn(StrictSubsetOrdering(T), SUBSET T)
  BY FS_StrictSubsetOrderingWellFounded, FS_FiniteSubsetsOfFinite
<1>2. \E A \in F : \A B \in F : ~ (<<B, A>> \in StrictSubsetOrdering(T))
  BY <1>1, WFMin
<1> QED BY <1>2 DEF StrictSubsetOrdering, Smallest

UpTo(T, x) == {y \in T : y <= x}

\* Min is defined: the elements up to the least one are the smallest such set.
LEMMA MinIsLeast ==
  ASSUME NEW T, IsFiniteSet(T), T \subseteq Int, T # {}
  PROVE  Min(T) \in T /\ \A x \in T : Min(T) <= x
<1>1. \E A \in {UpTo(T, x) : x \in T} : Smallest(A, {UpTo(T, x) : x \in T})
  <2>1. {UpTo(T, x) : x \in T} \subseteq SUBSET T
    BY DEF UpTo
  <2>2. {UpTo(T, x) : x \in T} # {}
    OBVIOUS
  <2> QED BY <2>1, <2>2, SmallestExists
<1>2. PICK x \in T : Smallest(UpTo(T, x), {UpTo(T, y) : y \in T})
  BY <1>1
<1>3. ASSUME NEW y \in T, y < x PROVE FALSE
  <2>1. y < x /\ x \in Int /\ y \in Int /\ \A z \in T : z \in Int
    BY <1>3
  <2>2. x \in UpTo(T, x) /\ x \notin UpTo(T, y)
    BY <2>1 DEF UpTo
  <2>3. ASSUME NEW z \in UpTo(T, y) PROVE z \in UpTo(T, x)
    <3>1. z \in T /\ z <= y /\ z \in Int
      BY <2>1 DEF UpTo
    <3>2. z <= x
      BY <3>1, <2>1
    <3> QED BY <3>1, <3>2 DEF UpTo
  <2>4. UpTo(T, y) = UpTo(T, x)
    BY <1>2, <2>3 DEF Smallest
  <2> QED BY <2>2, <2>4
<1>4. \A y \in T : x <= y
  BY <1>3
<1> QED BY <1>4 DEF Min

-----------------------------------------------------------------------------
(* What a purge may delete                                                 *)

LEMMA BackupsFinite == IsFiniteSet(Backups) /\ Backups \subseteq Nat /\ 0 \notin Backups
<1>1. MaxBackups \in Nat
  BY ScenariosAssumption
<1>2. IsFiniteSet(1..MaxBackups)
  BY <1>1, FS_Interval
<1> QED BY <1>1, <1>2 DEF Backups

LEMMA PartsFinite ==
  ASSUME NEW C \in SUBSET Backups
  PROVE  IsFiniteSet(C) /\ Cardinality(C) \in Nat
BY BackupsFinite, FS_Subset, FS_CardinalityType

\* Fewer copies, fewer candidates.
LEMMA OlderThanMonotone ==
  ASSUME NEW n \in Int, NEW C \in SUBSET Backups, NEW D \in SUBSET C
  PROVE  OlderThan(n, D) \subseteq OlderThan(n, C)
<1> SUFFICES ASSUME NEW b \in OlderThan(n, D) PROVE b \in OlderThan(n, C)
  OBVIOUS
<1> DEFINE newer(S) == {c \in S : c > b}
<1>1. b \in D /\ Cardinality(newer(D)) >= n
  BY DEF OlderThan
<1>2. newer(D) \in SUBSET newer(C) /\ newer(C) \in SUBSET Backups /\ newer(D) \in SUBSET Backups
  OBVIOUS
<1> HIDE DEF newer
<1>3. IsFiniteSet(newer(C)) /\ Cardinality(newer(C)) \in Nat /\ Cardinality(newer(D)) \in Nat
  BY <1>2, PartsFinite
<1>4. Cardinality(newer(D)) <= Cardinality(newer(C))
  BY <1>2, <1>3, FS_Subset
<1>5. Cardinality(newer(C)) >= n
  BY <1>1, <1>3, <1>4
<1> QED BY <1>1, <1>5 DEF OlderThan, newer

\* There are more copies than a purge keeps, if it has a candidate.
LEMMA OlderThanMany ==
  ASSUME NEW n \in Int, NEW C \in SUBSET Backups, NEW b \in OlderThan(n, C)
  PROVE  b \in C /\ Cardinality(C) > n
<1> DEFINE newer == {c \in C : c > b}
<1>1. b \in C /\ Cardinality(newer) >= n
  BY DEF OlderThan
<1>2. b \notin newer /\ newer \in SUBSET Backups /\ newer \cup {b} \in SUBSET C
  <2>1. b \in Nat /\ ~(b > b)
    BY <1>1, BackupsFinite
  <2> QED BY <1>1, <2>1
<1> HIDE DEF newer
<1>3. IsFiniteSet(C) /\ IsFiniteSet(newer) /\ Cardinality(newer) \in Nat /\ Cardinality(C) \in Nat
  BY <1>2, PartsFinite
<1>4. Cardinality(newer \cup {b}) = Cardinality(newer) + 1
  BY <1>2, <1>3, FS_AddElement
<1>5. Cardinality(newer \cup {b}) <= Cardinality(C)
  BY <1>2, <1>3, FS_Subset
<1> QED BY <1>1, <1>3, <1>4, <1>5

\* The list of a purge, whether or not there is a session.
Candidates(p) ==
  CASE p \in PurgesHa /\ set.after -> mHa \cap mProton
    [] p \in PurgesHa /\ ~set.after /\ set.maxHa # 0 -> OlderThan(Limit(p), mHa)
    [] p \in PurgesProton /\ set.maxProton # 0 -> OlderThan(Limit(p), mProton \ mPins)
    [] OTHER -> {}

-----------------------------------------------------------------------------
(* The inductive invariant                                                 *)

\* What the add-on knows of Proton Drive after it has read it in this sync.
Later == SyncPhases \ {"getHa", "getProton", "gotProton"}

\* Nothing is read between syncs; without the precache nothing is cached, and
\* without pins none is set.
Calm == /\ pc # "gotProton" => listing = None
        /\ ~set.precaching => cache = None /\ fetch = None /\ fetching = "no"
        /\ ~set.pinning => pinning = 0

\* The listing, and then the Model, knows of no copy that was not there when the
\* sync has read the folder, or since.
ViewOK == ~set.precaching =>
  /\ pc = "gotProton" => listing.have \subseteq Had
  /\ pc \in Later => mProton \subseteq Had

\* It knows the pins of all the copies it knows.
PinsOK == ~set.precaching /\ ~set.pinning =>
  /\ pc = "gotProton" => HadPins \cap listing.have \subseteq listing.pins
  /\ pc \in Later => HadPins \cap mProton \subseteq mPins

\* What is being deleted was chosen for a reason that still holds.
TargetOK ==
  /\ target # 0 => pc \in Purges \union RequestPhases
  /\ target # 0 /\ pc \in PurgesHa /\ set.after /\ ~set.precaching => target \in Had
  /\ target # 0 /\ pc \in PurgesProton /\ ~set.precaching /\ ~set.pinning =>
       Cardinality(Had \ HadPins) > set.maxProton - (IF pc = "preSave" THEN 1 ELSE 0)

\* A purge without permission has at most one candidate, which it deletes.
ConfirmOK ==
  /\ pc \notin Purges => taken = 0
  /\ set.confirm /\ ~permit /\ pc \in Purges =>
       /\ target # 0 => taken = 0 /\ Candidates(pc) \subseteq {target}
       /\ target = 0 /\ taken > 0 => Candidates(pc) = {}

IInv == TypeOK /\ Calm /\ ViewOK /\ PinsOK /\ TargetOK /\ ConfirmOK
Rest == Calm /\ ViewOK /\ PinsOK /\ TargetOK /\ ConfirmOK

LEMMA InitOK == Init => IInv
<1> SUFFICES ASSUME Init PROVE IInv
  OBVIOUS
<1>1. set \in Scenarios /\ set \in Scenario /\ set.existing <= MaxBackups /\ MaxBackups \in Nat
      /\ set.existing \in Nat
  BY ScenariosAssumption DEF Init, Scenario
<1>2. 1..set.existing \subseteq Backups
  BY <1>1 DEF Backups
<1>3. {ha, proton, pins, mHa, mProton, mPins, held, uploads, sent} \subseteq SUBSET Backups
  BY <1>2 DEF Init
<1>4. made \in 0..MaxBackups /\ {due, permit, signedIn} \subseteq BOOLEAN
  <2>1. made \in 0..MaxBackups
    BY <1>1 DEF Init
  <2>2. due \in BOOLEAN /\ permit \in BOOLEAN /\ signedIn \in BOOLEAN
    BY DEF Init
  <2> QED BY <2>1, <2>2
<1>5. /\ pc = "idle" /\ {target, pinning} \subseteq {0} \union Backups
      /\ {listing, cache, fetch, gone} \subseteq Listings /\ fetching = "no"
  BY DEF Init, None, Listings
<1>6. {taken, faults, signOuts, requests} \subseteq Nat
  BY <1>1 DEF Init, Scenario
<1>7. TypeOK
  BY <1>1, <1>3, <1>4, <1>5, <1>6 DEF TypeOK
<1> QED BY <1>7 DEF Init, IInv, Calm, ViewOK, PinsOK, TargetOK, ConfirmOK, Later, Purges,
           PurgesHa, PurgesProton, SyncPhases

-----------------------------------------------------------------------------
(* Types                                                                   *)

LEMMA SetType == ASSUME TypeOK PROVE set \in Scenario /\ set.maxHa \in Nat /\ set.maxProton \in Nat
BY ScenariosAssumption DEF TypeOK, Scenario

LEMMA LimitType == ASSUME TypeOK, NEW p PROVE Limit(p) \in Int
BY SetType DEF Limit

\* A purge deletes a copy from its list, which names copies that the Model knows.
LEMMA Chosen ==
  ASSUME TypeOK, Purge
  PROVE  /\ target' \in Backups /\ target' \in PurgeList(pc)
         /\ PurgeList(pc) = Candidates(pc) /\ PurgeList(pc) \in SUBSET Backups
<1>1. PurgeList(pc) = Candidates(pc)
  BY DEF Purge, PurgeList, Candidates, PurgesHa, PurgesProton
<1>2. Candidates(pc) \in SUBSET Backups
  <2>1. \A n \in Int : \A C \in SUBSET Backups : OlderThan(n, C) \in SUBSET Backups
    BY DEF OlderThan
  <2> QED BY <2>1, LimitType DEF Candidates, TypeOK
<1>3. target' = Min(PurgeList(pc)) /\ PurgeList(pc) # {}
  BY DEF Purge
<1>4. IsFiniteSet(PurgeList(pc)) /\ PurgeList(pc) \subseteq Int
  <2>1. PurgeList(pc) \in SUBSET Backups
    BY <1>1, <1>2
  <2>2. IsFiniteSet(PurgeList(pc))
    BY <2>1, PartsFinite
  <2>3. PurgeList(pc) \subseteq Nat
    BY <2>1, BackupsFinite
  <2> QED BY <2>2, <2>3
<1>5. target' \in PurgeList(pc)
  BY <1>3, <1>4, MinIsLeast
<1> QED BY <1>1, <1>2, <1>5

LEMMA EndTypes ==
  ASSUME TypeOK, EndSync
  PROVE  /\ uploads' \subseteq Backups /\ sent' \subseteq Backups
         /\ signedIn' \in BOOLEAN /\ pc' = "idle" /\ target' = 0 /\ pinning' \in {0} \union Backups
         /\ listing' \in Listings /\ cache' \in Listings /\ fetch' \in Listings
         /\ fetching' \in {"no", "called", "read"}
         /\ taken' \in Nat /\ signOuts' \in Nat /\ requests' \in Nat
BY DEF TypeOK, EndSync, None, Listings

LEMMA MadeType ==
  ASSUME TypeOK, MakeInHa
  PROVE  made' \in 0..MaxBackups /\ made' \in Backups /\ ha' \subseteq Backups
<1>1. set.maxBackups \in Nat /\ set.maxBackups <= MaxBackups /\ MaxBackups \in Nat
  BY ScenariosAssumption DEF TypeOK, Scenario
<1>2. made \in 0..MaxBackups /\ made' = made + 1 /\ made < set.maxBackups
  BY DEF TypeOK, MakeInHa
<1>3. made' \in 1..MaxBackups
  BY <1>1, <1>2
<1> QED BY <1>3 DEF Backups, MakeInHa, TypeOK

LEMMA SyncTypes == ASSUME TypeOK, StartSync \/ SyncStep \/ SyncFails PROVE TypeOK'
<1>1. CASE StartSync
  BY <1>1 DEF TypeOK, StartSync, Goto, stores, model, warm, user, SyncPhases
<1>2. CASE GetHa
  BY <1>2 DEF TypeOK, GetHa, Goto, stores, warm, user, SyncPhases
<1>3. CASE GetProton
  BY <1>3 DEF TypeOK, GetProton, model, warm, user, SyncPhases, Truth, None, Listings
<1>4. CASE GotProton
  BY <1>4 DEF TypeOK, GotProton, stores, warm, user, SyncPhases, Purges, PurgesHa, Listings, None
<1>5. CASE Purge
  BY <1>5, Chosen DEF TypeOK, Purge, stores, model, warm, user
<1>6. CASE PurgeEnds
  <2>1. After[pc] \in SyncPhases
    BY <1>6 DEF PurgeEnds, After, Purges, PurgesHa, PurgesProton, SyncPhases
  <2> QED BY <1>6, <2>1 DEF TypeOK, PurgeEnds, stores, model, warm, user
<1>7. CASE Deleted
  <2>1. /\ {ha', proton', pins', mHa', mProton', mPins', held'} \subseteq SUBSET Backups
        /\ target' = 0 /\ taken' \in Nat /\ gone' = gone
    BY <1>7 DEF TypeOK, Deleted, RemoveHa, ForgetHa, RemoveProton, ForgetProton
  <2> QED BY <1>7, <2>1 DEF TypeOK, Deleted, warm, user
<1>8. CASE Decide
  BY <1>8 DEF TypeOK, Decide, Goto, stores, model, warm, user, SyncPhases, Purges, PurgesHa
<1>9. CASE Create
  BY <1>9, MadeType DEF TypeOK, Create, Goto, warm, user, SyncPhases, Purges, PurgesHa
<1>10. CASE Collect
  BY <1>10 DEF TypeOK, Collect, stores, model, warm, user, SyncPhases
<1>11. CASE NextUpload
  BY <1>11 DEF TypeOK, NextUpload, Goto, stores, model, warm, user, SyncPhases, Purges, PurgesHa,
     PurgesProton
<1>12. CASE Save
  <2>1. Max(uploads) \in Backups
    BY <1>12 DEF Save, CanSave, TypeOK
  <2>2. gone' \in Listings
    BY <1>12 DEF Save, TypeOK, Listings
  <2> QED BY <1>12, <2>1, <2>2 DEF TypeOK, Save, warm, user, SyncPhases, Purges, PurgesProton
<1>13. CASE Finish
  BY <1>13, EndTypes DEF TypeOK, Finish, stores, model
<1>14. CASE Refuse
  BY <1>14, EndTypes DEF TypeOK, Refuse, stores, model
<1>15. CASE Impossible
  BY <1>15, EndTypes DEF TypeOK, Impossible, stores, model
<1>16. CASE SyncFails
  <2>1. {ha', proton', pins'} \subseteq SUBSET Backups /\ made' \in 0..MaxBackups /\ gone' = gone
    <3>1. CASE pc = "save" /\ SaveInDoubt(Max(uploads)) /\ made' = made
      <4>1. Max(uploads) \in Backups
        BY <3>1 DEF SaveInDoubt, CanSave, TypeOK
      <4> QED BY <3>1, <4>1 DEF TypeOK, SaveInDoubt, RemoveProton
    <3>2. CASE pc = "create" /\ MakeInHa /\ UNCHANGED <<proton, pins, gone>>
      BY <3>2, MadeType DEF TypeOK
    <3>3. CASE UNCHANGED stores \/ (target # 0 /\ RemoveHa(target) /\ made' = made)
      BY <3>3 DEF TypeOK, stores, RemoveHa
    <3>4. CASE target # 0 /\ RemoveProton(target) /\ made' = made
      BY <3>4 DEF TypeOK, RemoveProton
    <3> QED BY <1>16, <3>1, <3>2, <3>3, <3>4 DEF SyncFails
  <2>2. faults' \in Nat
    BY <1>16 DEF TypeOK, SyncFails
  <2> QED BY <1>16, <2>1, <2>2, EndTypes DEF TypeOK, SyncFails, model
<1> QED BY <1>1, <1>2, <1>3, <1>4, <1>5, <1>6, <1>7, <1>8, <1>9, <1>10, <1>11, <1>12, <1>13,
           <1>14, <1>15, <1>16 DEF SyncStep

LEMMA OtherTypes == ASSUME TypeOK, RequestStep \/ Pinned \/ User \/ Precache \/ World PROVE TypeOK'
<1>1. ASSUME NEW b \in Backups, NEW p \in RequestPhases, Request(p, b) PROVE TypeOK'
  BY <1>1 DEF TypeOK, Request, stores, model, None, Listings
<1>2. ASSUME NEW b \in Backups, RequestDeleteHa(b) \/ RequestDeleteProton(b) \/ RequestUpload(b)
      PROVE  TypeOK'
  BY <1>1, <1>2 DEF RequestDeleteHa, RequestDeleteProton, RequestUpload, RequestPhases
<1>3. CASE RequestedDelete
  <2>1. /\ {ha', proton', pins', mHa', mProton', mPins', held'} \subseteq SUBSET Backups
        /\ UNCHANGED gone
    BY <1>3 DEF TypeOK, RequestedDelete, RemoveHa, ForgetHa, RemoveProton, ForgetProton, stores, model
  <2> QED BY <1>3, <2>1 DEF TypeOK, RequestedDelete, warm, user
<1>4. CASE RequestedUpload
  BY <1>4 DEF TypeOK, RequestedUpload, CanSave, warm, user
<1>5. ASSUME NEW b \in Backups, RequestPin(b) PROVE TypeOK'
  BY <1>5 DEF TypeOK, RequestPin, stores, model, run, None, Listings
<1>6. CASE Pinned
  BY <1>6 DEF TypeOK, Pinned, run, warm
<1>7. CASE Permit
  BY <1>7 DEF TypeOK, Permit, stores, model, run, warm
<1>8. CASE Precache
  BY <1>8 DEF TypeOK, Precache, Warm, WarmRead, WarmStore, WarmExpires, stores, model, run, user,
     Truth, None, Listings
<1>9. CASE ComesDue
  BY <1>9 DEF TypeOK, ComesDue, stores, model, run, warm, user
<1>10. CASE MadeElsewhere
  BY <1>10, MadeType DEF TypeOK, MadeElsewhere, model, run, warm, user
<1>11. CASE SignOut \/ SignIn
  <2>1. signedIn' \in BOOLEAN
    BY <1>11 DEF SignOut, SignIn
  <2>2. signOuts' \in Nat
    BY <1>11 DEF TypeOK, SignOut, SignIn
  <2>3. due \in BOOLEAN /\ permit \in BOOLEAN
    BY DEF TypeOK
  <2>4. {due, permit, signedIn'} \subseteq BOOLEAN
    BY <2>1, <2>3
  <2>5. UNCHANGED <<stores, due, model, run, warm, permit, pinning, requests, faults, set>>
    BY <1>11 DEF SignOut, SignIn
  <2> QED BY <2>2, <2>4, <2>5 DEF TypeOK, stores, model, run, warm
<1>12. ASSUME NEW b \in Backups, LostInHa(b) PROVE TypeOK'
  BY <1>12 DEF TypeOK, LostInHa, RemoveHa, model, run, warm
<1>13. ASSUME NEW b \in Backups, LostInProton(b) PROVE TypeOK'
  <2>1. {proton', pins'} \subseteq SUBSET Backups /\ gone' \in Listings /\ requests' \in Nat
    BY <1>13 DEF TypeOK, LostInProton, Listings
  <2> QED BY <1>13, <2>1 DEF TypeOK, LostInProton, model, run, warm
<1> QED BY <1>2, <1>3, <1>4, <1>5, <1>6, <1>7, <1>8, <1>9, <1>10, <1>11, <1>12,
           <1>13 DEF RequestStep, User, World

-----------------------------------------------------------------------------
(* The other conjuncts, by kinds of steps                                  *)

LEMMA CandidatesStay ==
  ASSUME UNCHANGED <<set, pc, mHa, mProton, mPins>>
  PROVE  Candidates(pc)' = Candidates(pc)
BY DEF Candidates, OlderThan, Limit

\* A step that leaves the sync and both views of Proton Drive alone.
LEMMA Beside ==
  ASSUME IInv, Calm', permit' \in {permit, TRUE},
         UNCHANGED <<set, run, mHa, mProton, mPins, Had, HadPins>>
  PROVE  Rest'
<1>1. /\ UNCHANGED <<set, pc, target, taken, listing, mHa, mProton, mPins, Had, HadPins>>
      /\ Candidates(pc)' = Candidates(pc)
  BY CandidatesStay DEF run
<1>2. ViewOK' /\ PinsOK'
  BY <1>1 DEF IInv, ViewOK, PinsOK, Later
<1>3. TargetOK'
  BY <1>1 DEF IInv, TargetOK
<1>4. ConfirmOK'
  BY <1>1 DEF IInv, ConfirmOK, TypeOK
<1> QED BY <1>2, <1>3, <1>4 DEF Rest

\* A sync or a request that is over, or a request that begins.
LEMMA Outside ==
  ASSUME IInv, Calm', pc' \notin SyncPhases, taken' = 0, target' = 0 \/ pc' \in RequestPhases
  PROVE  Rest'
<1>1. ViewOK' /\ PinsOK'
  BY DEF ViewOK, PinsOK, Later, SyncPhases
<1>2. pc' \notin Purges
  BY DEF SyncPhases
<1>3. TargetOK' /\ ConfirmOK'
  BY <1>2 DEF TargetOK, ConfirmOK, Purges
<1> QED BY <1>1, <1>3 DEF Rest

\* A step of the sync from one phase to another that begins no deletion.
LEMMA Onward ==
  ASSUME IInv, Calm', target' = 0, taken' = 0, ViewOK', PinsOK'
  PROVE  Rest'
BY DEF Rest, TargetOK, ConfirmOK

LEMMA ReadingKeeps == ASSUME IInv, StartSync \/ GetHa \/ GetProton \/ GotProton PROVE Rest'
<1> USE DEF IInv
<1>1. Calm' /\ pc \in {"idle", "getHa", "getProton", "gotProton"} /\ target = 0 /\ taken = 0
  BY DEF StartSync, GetHa, GetProton, GotProton, Goto, Calm, warm, user, TargetOK, ConfirmOK,
     Purges, PurgesHa, PurgesProton, RequestPhases
<1>2. target' = 0 /\ taken' = 0
  BY <1>1 DEF StartSync, GetHa, GetProton, GotProton, Goto
<1>3. CASE StartSync
  BY <1>1, <1>2, <1>3, Onward DEF StartSync, Goto, ViewOK, PinsOK, Later
<1>4. CASE GetHa
  <2>1. ~set.precaching => listing' = None
    BY <1>4 DEF GetHa, Goto, Calm
  <2>2. pc' \notin Later
    BY <1>4 DEF GetHa, Goto, Later
  <2> QED
    BY <1>1, <1>2, <1>4, <2>1, <2>2, Onward DEF GetHa, ViewOK, PinsOK, Later, None
<1>5. CASE GetProton
  BY <1>1, <1>2, <1>5, Onward DEF GetProton, ViewOK, PinsOK, Later, Truth, Had, HadPins, None
<1>6. CASE GotProton
  <2>1. /\ mProton' = listing.have /\ mPins' = listing.pins /\ UNCHANGED <<Had, HadPins, set>>
        /\ pc' # "gotProton"
    BY <1>6 DEF GotProton, stores, Had, HadPins
  <2>2. ViewOK' /\ PinsOK'
    BY <1>6, <2>1 DEF GotProton, ViewOK, PinsOK
  <2> QED BY <1>1, <1>2, <2>2, Onward
<1> QED BY <1>3, <1>4, <1>5, <1>6

LEMMA CandidatesShrink ==
  ASSUME TypeOK, Deleted
  PROVE  Candidates(pc)' \subseteq Candidates(pc) \ {target}
<1>1. /\ UNCHANGED <<set, pc>> /\ Limit(pc)' = Limit(pc) /\ Limit(pc) \in Int
      /\ \A n, C : OlderThan(n, C)' = OlderThan(n, C)
  BY LimitType DEF Deleted, Limit, OlderThan
<1>2. mHa \in SUBSET Backups /\ mProton \in SUBSET Backups
  BY DEF TypeOK
<1>3. \A n \in Int : \A C \in SUBSET Backups : \A D \in SUBSET C :
        OlderThan(n, D) \subseteq OlderThan(n, C) /\ OlderThan(n, D) \subseteq D
  BY OlderThanMonotone DEF OlderThan
<1>4. CASE pc \in PurgesHa
  <2>1. mHa' = mHa \ {target} /\ UNCHANGED <<mProton, mPins>> /\ pc \notin PurgesProton
    BY <1>4 DEF Deleted, ForgetHa, PurgesHa, PurgesProton
  <2>2. OlderThan(Limit(pc), mHa \ {target}) \subseteq OlderThan(Limit(pc), mHa) \ {target}
    BY <1>1, <1>2, <1>3
  <2> QED BY <1>1, <1>4, <2>1, <2>2 DEF Candidates
<1>5. CASE pc \in PurgesProton
  <2>1. /\ mProton' = mProton \ {target} /\ mPins' = mPins \ {target} /\ pc \notin PurgesHa
    BY <1>5 DEF Deleted, ForgetProton, PurgesHa, PurgesProton
  <2>2. mProton' \ mPins' = (mProton \ mPins) \ {target}
    BY <2>1
  <2>3. OlderThan(Limit(pc), (mProton \ mPins) \ {target})
          \subseteq OlderThan(Limit(pc), mProton \ mPins) \ {target}
    BY <1>1, <1>2, <1>3
  <2> QED BY <1>1, <1>5, <2>1, <2>2, <2>3 DEF Candidates
<1> QED BY <1>4, <1>5 DEF Deleted, Purges

\* While a copy of Proton Drive is chosen, there are too many of them.
LEMMA TooMany ==
  ASSUME IInv, Purge, pc \in PurgesProton, ~set.precaching, ~set.pinning
  PROVE  Cardinality(Had \ HadPins) > set.maxProton - (IF pc = "preSave" THEN 1 ELSE 0)
<1>1. TypeOK
  BY DEF IInv
<1>2. target' \in Candidates(pc) /\ pc \notin PurgesHa
  BY <1>1, Chosen DEF PurgesProton, PurgesHa
<1>3. target' \in OlderThan(Limit(pc), mProton \ mPins)
  BY <1>2 DEF Candidates
<1>4. mProton \ mPins \in SUBSET Backups /\ Limit(pc) \in Int
  BY <1>1, LimitType DEF TypeOK
<1>5. Cardinality(mProton \ mPins) > Limit(pc)
  BY <1>3, <1>4, OlderThanMany
<1>6. mProton \ mPins \in SUBSET (Had \ HadPins) /\ Had \ HadPins \in SUBSET Backups
  <2>1. pc \in Later
    BY DEF Later, SyncPhases, Purges, PurgesProton
  <2>2. Had \in SUBSET Backups
    BY <1>1 DEF Had, TypeOK, Listings
  <2> QED BY <2>1, <2>2 DEF IInv, ViewOK, PinsOK
<1>7. Cardinality(mProton \ mPins) <= Cardinality(Had \ HadPins)
  BY <1>6, PartsFinite, FS_Subset
<1>8. Cardinality(mProton \ mPins) \in Nat /\ Cardinality(Had \ HadPins) \in Nat
  BY <1>4, <1>6, PartsFinite
<1>9. set.maxProton \in Nat
  BY <1>1, SetType
<1>10. Limit(pc) = set.maxProton - (IF pc = "preSave" THEN 1 ELSE 0)
  BY <1>2, <1>9 DEF Limit, PrePurges, PurgesProton
<1> QED BY <1>4, <1>5, <1>7, <1>8, <1>10

LEMMA PurgeKeeps == ASSUME IInv, Purge \/ PurgeEnds \/ Deleted PROVE Rest'
<1>1. pc \in Later /\ pc \in Purges /\ TypeOK /\ pc # "gotProton"
  BY DEF IInv, Purge, PurgeEnds, Deleted, Later, SyncPhases, Purges, PurgesHa, PurgesProton
<1>2. Calm'
  <2>1. pc' # "gotProton"
    BY <1>1 DEF Purge, PurgeEnds, Deleted, After, Purges, PurgesHa, PurgesProton
  <2> QED BY <1>1, <2>1 DEF Purge, PurgeEnds, Deleted, IInv, Calm, warm, user
<1>3. CASE Purge
  <2>1. /\ UNCHANGED <<set, pc, taken, mHa, mProton, mPins, Had, HadPins, permit>>
        /\ target = 0 /\ ~Blocked(pc)
    BY <1>3 DEF Purge, model, stores, user, Had, HadPins
  <2>2. target' \in Candidates(pc) /\ PurgeList(pc) = Candidates(pc)
        /\ Candidates(pc)' = Candidates(pc) /\ Candidates(pc) \in SUBSET Backups
    BY <1>1, <1>3, <2>1, Chosen, CandidatesStay
  <2>3. ViewOK' /\ PinsOK'
    BY <1>1, <2>1 DEF IInv, ViewOK, PinsOK
  <2>4. TargetOK'
    <3>1. target' # 0 => pc' \in Purges
      BY <1>1, <2>1
    <3>2. ASSUME pc \in PurgesHa, set.after, ~set.precaching PROVE target' \in Had
      <4>1. pc \notin PurgesProton
        BY <3>2 DEF PurgesHa, PurgesProton
      <4>2. Candidates(pc) = mHa \cap mProton
        BY <3>2, <4>1 DEF Candidates
      <4>3. mProton \subseteq Had
        BY <1>1, <3>2 DEF IInv, ViewOK
      <4> QED BY <2>2, <4>2, <4>3
    <3>3. ASSUME pc \in PurgesProton, ~set.precaching, ~set.pinning
          PROVE  Cardinality(Had \ HadPins) > set.maxProton - (IF pc = "preSave" THEN 1 ELSE 0)
      BY <1>3, <3>3, TooMany
    <3> QED BY <2>1, <3>1, <3>2, <3>3 DEF TargetOK
  <2>5. ASSUME set.confirm, ~permit PROVE taken = 0 /\ Candidates(pc) \subseteq {target'}
    <3>1. taken = 0
      BY <1>1, <2>1, <2>2, <2>5 DEF IInv, ConfirmOK, TypeOK
    <3>2. Cardinality(Candidates(pc)) <= 1
      BY <2>1, <2>2, <2>5, PartsFinite DEF Blocked
    <3>3. ASSUME NEW c \in Candidates(pc), c # target' PROVE FALSE
      <4>1. {c, target'} \in SUBSET Candidates(pc) /\ IsFiniteSet(Candidates(pc))
        BY <2>2, <3>3, PartsFinite
      <4>2. IsFiniteSet({c}) /\ Cardinality({c}) = 1
        BY FS_Singleton
      <4>3. Cardinality({c} \cup {target'}) = 2
        BY <3>3, <4>2, FS_AddElement
      <4>4. Cardinality({c, target'}) <= Cardinality(Candidates(pc))
        BY <4>1, FS_Subset
      <4>5. {c} \cup {target'} = {c, target'}
        OBVIOUS
      <4> QED BY <2>2, <3>2, <4>3, <4>4, <4>5, PartsFinite
    <3> QED BY <3>1, <3>3
  <2>6. ConfirmOK'
    <3>1. target' # 0
      BY <2>2, BackupsFinite
    <3> QED BY <1>1, <2>1, <2>2, <2>5, <3>1 DEF ConfirmOK
  <2> QED BY <1>2, <2>3, <2>4, <2>6 DEF Rest
<1>4. CASE PurgeEnds
  <2>1. UNCHANGED <<set, mProton, mPins, Had, HadPins>> /\ target' = 0 /\ taken' = 0
    BY <1>4 DEF PurgeEnds, model, stores, Had, HadPins
  <2>2. pc' # "gotProton"
    BY <1>4 DEF PurgeEnds, After, Purges, PurgesHa, PurgesProton
  <2> QED BY <1>1, <1>2, <2>1, <2>2, Onward DEF IInv, ViewOK, PinsOK
<1>5. CASE Deleted
  <2>1. UNCHANGED <<set, pc, permit>> /\ target' = 0 /\ taken' = taken + 1 /\ target # 0
    BY <1>5 DEF Deleted, user
  <2>2. ViewOK' /\ PinsOK'
    <3>1. CASE pc \in PurgesHa
      <4>1. UNCHANGED <<mProton, mPins, Had, HadPins>>
        BY <1>5, <3>1 DEF Deleted, RemoveHa, ForgetHa, Had, HadPins
      <4> QED BY <1>1, <2>1, <4>1 DEF IInv, ViewOK, PinsOK
    <3>2. CASE pc \notin PurgesHa
      <4>1. /\ mProton' = mProton \ {target} /\ mPins' = mPins \ {target}
            /\ Had \ {target} \subseteq Had' /\ HadPins' \subseteq HadPins
        BY <1>5, <3>2 DEF Deleted, RemoveProton, ForgetProton, Had, HadPins
      <4> QED BY <1>1, <2>1, <4>1 DEF IInv, ViewOK, PinsOK
    <3> QED BY <3>1, <3>2
  <2>3. ConfirmOK'
    BY <1>1, <1>5, <2>1, CandidatesShrink DEF IInv, ConfirmOK
  <2> QED BY <1>2, <2>1, <2>2, <2>3 DEF Rest, TargetOK
<1> QED BY <1>3, <1>4, <1>5

LEMMA MakingKeeps == ASSUME IInv, Decide \/ Create \/ Collect \/ NextUpload \/ Save PROVE Rest'
<1>1. /\ pc \in {"decide", "create", "collect", "next", "save"}
      /\ pc' \in {"collect", "preCreate", "create", "postCreate", "next", "finish", "preSave",
                  "save", "postUpload", "postSave"}
  BY DEF Decide, Create, Collect, NextUpload, Save, Goto
<1>2. /\ pc \in Later /\ pc \notin Purges \union RequestPhases
      /\ pc # "gotProton" /\ pc' # "gotProton"
  BY <1>1 DEF Later, SyncPhases, Purges, PurgesHa, PurgesProton, RequestPhases
<1>3. target = 0 /\ taken = 0
  BY <1>2 DEF IInv, TargetOK, ConfirmOK
<1>4. target' = 0 /\ taken' = 0 /\ listing' = listing /\ UNCHANGED <<warm, user, set>>
  BY <1>3 DEF Decide, Create, Collect, NextUpload, Save, Goto
<1>5. Calm'
  BY <1>2, <1>4 DEF IInv, Calm, warm, user
<1>6. ViewOK' /\ PinsOK'
  <2>1. CASE Save
    <3>1. PICK b : /\ mProton' = mProton \union {b} /\ mPins' = mPins \ {b}
                   /\ Had' = Had \union {b} /\ HadPins' = HadPins \ {b}
      BY <2>1 DEF Save, Had, HadPins
    <3> QED BY <1>2, <1>4, <3>1 DEF IInv, ViewOK, PinsOK
  <2>2. CASE Decide \/ Create \/ Collect \/ NextUpload
    <3>1. UNCHANGED <<Had, HadPins, mProton, mPins>>
      BY <2>2 DEF Decide, Create, Collect, NextUpload, stores, model, Had, HadPins
    <3> QED BY <1>2, <1>4, <3>1 DEF IInv, ViewOK, PinsOK
  <2> QED BY <2>1, <2>2
<1> QED BY <1>3, <1>4, <1>5, <1>6, Onward

LEMMA EndKeeps == ASSUME IInv, Finish \/ Refuse \/ Impossible \/ SyncFails PROVE Rest'
<1>1. EndSync /\ set' = set
  BY DEF Finish, Refuse, Impossible, SyncFails
<1>2. pc' = "idle" /\ target' = 0 /\ taken' = 0 /\ Calm'
  BY <1>1 DEF EndSync, IInv, Calm
<1>3. pc' \notin SyncPhases
  BY <1>2 DEF SyncPhases, Purges, PurgesHa, PurgesProton
<1> QED BY <1>2, <1>3, Outside

LEMMA RequestKeeps ==
  ASSUME IInv, \/ \E b \in Backups : RequestDeleteHa(b) \/ RequestDeleteProton(b) \/ RequestUpload(b)
               \/ RequestStep
  PROVE  Rest'
<1>1. ASSUME NEW b \in Backups, NEW p \in RequestPhases, Request(p, b) PROVE Rest'
  <2>1. pc = "idle" /\ pc' = p /\ taken' = taken /\ Calm'
    BY <1>1 DEF Request, IInv, Calm, RequestPhases
  <2>2. pc' \notin SyncPhases /\ pc \notin Purges
    BY <2>1 DEF RequestPhases, SyncPhases, Purges, PurgesHa, PurgesProton
  <2>3. taken' = 0
    BY <2>1, <2>2 DEF IInv, ConfirmOK
  <2> QED BY <2>1, <2>2, <2>3, Outside
<1>2. ASSUME NEW b \in Backups, RequestDeleteHa(b) \/ RequestDeleteProton(b) \/ RequestUpload(b)
      PROVE  Rest'
  BY <1>1, <1>2 DEF RequestDeleteHa, RequestDeleteProton, RequestUpload, RequestPhases
<1>3. CASE RequestStep
  <2>1. /\ pc \in RequestPhases /\ pc' = "idle" /\ target' = 0 /\ taken' = taken
        /\ listing' = listing /\ UNCHANGED <<set, warm, user>>
    BY <1>3 DEF RequestStep, RequestedDelete, RequestedUpload, RequestPhases
  <2>2. pc' \notin SyncPhases /\ pc \notin Purges /\ pc # "gotProton"
    BY <2>1 DEF RequestPhases, SyncPhases, Purges, PurgesHa, PurgesProton
  <2>3. taken' = 0 /\ Calm'
    BY <2>1, <2>2 DEF IInv, ConfirmOK, Calm, warm, user
  <2> QED BY <2>1, <2>2, <2>3, Outside
<1> QED BY <1>2, <1>3

\* A pin changes both what is in Proton Drive and what the Model knows of it.
LEMMA PinKeeps == ASSUME IInv, Pinned PROVE Rest'
<1>1. /\ pinning # 0 /\ pinning' = 0 /\ mPins \subseteq mPins'
      /\ UNCHANGED <<Had, mHa, mProton, run, warm, permit, set>>
  BY DEF Pinned, Had
<1>2. Calm' /\ set.pinning
  BY <1>1 DEF IInv, Calm, run, warm
<1>3. ViewOK' /\ PinsOK'
  BY <1>1, <1>2 DEF IInv, ViewOK, PinsOK, run
<1>4. TargetOK'
  BY <1>1, <1>2 DEF IInv, TargetOK, run
<1>5. Candidates(pc)' \subseteq Candidates(pc)
  <2>1. UNCHANGED <<pc, set>> /\ Limit(pc)' = Limit(pc) /\ Limit(pc) \in Int
        /\ \A n, C : OlderThan(n, C)' = OlderThan(n, C)
    BY <1>1, LimitType DEF run, Limit, OlderThan, IInv
  <2>2. mProton \ mPins \in SUBSET Backups /\ mProton' \ mPins' \in SUBSET (mProton \ mPins)
    BY <1>1 DEF IInv, TypeOK
  <2>3. OlderThan(Limit(pc), mProton' \ mPins') \subseteq OlderThan(Limit(pc), mProton \ mPins)
    BY <2>1, <2>2, OlderThanMonotone
  <2>4. ~(pc \in PurgesHa /\ pc \in PurgesProton)
    BY DEF PurgesHa, PurgesProton
  <2> QED BY <1>1, <2>1, <2>3, <2>4 DEF Candidates
<1>6. ConfirmOK'
  BY <1>1, <1>5 DEF IInv, ConfirmOK, run
<1> QED BY <1>2, <1>3, <1>4, <1>6 DEF Rest

LEMMA BesideKeeps ==
  ASSUME IInv, \/ \E b \in Backups : RequestPin(b) \/ LostInHa(b) \/ LostInProton(b)
               \/ Permit \/ Precache \/ ComesDue \/ MadeElsewhere \/ SignOut \/ SignIn
  PROVE  Rest'
<1>1. UNCHANGED <<set, run, mHa, mProton, mPins, Had, HadPins>> /\ permit' \in {permit, TRUE}
  <2>1. CASE \E b \in Backups : LostInProton(b)
    <3>1. PICK b \in Backups : LostInProton(b)
      BY <2>1
    <3>2. UNCHANGED <<Had, HadPins>>
      BY <3>1 DEF LostInProton, Had, HadPins
    <3> QED BY <3>1, <3>2 DEF LostInProton, model
  <2>2. CASE \/ \E b \in Backups : RequestPin(b) \/ LostInHa(b)
             \/ Permit \/ Precache \/ ComesDue \/ MadeElsewhere \/ SignOut \/ SignIn
    <3>1. UNCHANGED <<set, run, mHa, mProton, mPins, proton, pins, gone>> /\ permit' \in {permit, TRUE}
      BY <2>2 DEF RequestPin, LostInHa, RemoveHa, Permit, Precache, Warm, WarmRead, WarmStore,
         WarmExpires, ComesDue, MadeElsewhere, SignOut, SignIn, stores, model, user
    <3> QED BY <3>1 DEF Had, HadPins
  <2> QED BY <2>1, <2>2
<1>2. Calm'
  <2>1. listing' = listing /\ pc' = pc /\ set' = set
    BY <1>1 DEF run
  <2>2. CASE \E b \in Backups : RequestPin(b)
    BY <2>1, <2>2 DEF RequestPin, IInv, Calm
  <2>3. CASE Precache
    BY <2>1, <2>3 DEF Precache, Warm, WarmRead, WarmStore, WarmExpires, user, IInv, Calm
  <2>4. CASE \/ \E b \in Backups : LostInHa(b) \/ LostInProton(b)
             \/ Permit \/ ComesDue \/ MadeElsewhere \/ SignOut \/ SignIn
    BY <2>1, <2>4 DEF LostInHa, LostInProton, Permit, ComesDue, MadeElsewhere, SignOut, SignIn, warm, user, IInv,
       Calm
  <2> QED BY <2>2, <2>3, <2>4
<1> QED BY <1>1, <1>2, Beside

LEMMA IInvStep == IInv /\ [Next]_vars => IInv'
<1> SUFFICES ASSUME IInv, [Next]_vars PROVE IInv'
  OBVIOUS
<1>1. CASE Next
  <2>1. TypeOK'
    BY <1>1, SyncTypes, OtherTypes DEF Next, IInv
  <2>2. Rest'
    BY <1>1, ReadingKeeps, PurgeKeeps, MakingKeeps, EndKeeps, RequestKeeps, PinKeeps, BesideKeeps
       DEF Next, SyncStep, User, World
  <2> QED BY <2>1, <2>2 DEF Rest, IInv
<1>2. CASE UNCHANGED vars
  <2>1. /\ UNCHANGED <<set, run, mHa, mProton, mPins, Had, HadPins>>
        /\ UNCHANGED <<permit, cache, fetch, fetching, pinning>>
    BY <1>2 DEF vars, stores, model, warm, user, Had, HadPins
  <2>2. TypeOK'
    BY <1>2 DEF vars, stores, model, run, warm, user, IInv, TypeOK
  <2>3. Calm'
    BY <2>1 DEF IInv, Calm, run
  <2> QED BY <2>1, <2>2, <2>3, Beside DEF Rest, IInv
<1> QED BY <1>1, <1>2

-----------------------------------------------------------------------------
(* The theorems                                                            *)

\* The inductive invariant of BackupSync.
THEOREM Invariance == Spec => []IInv
BY InitOK, IInvStep, PTL DEF Spec

\* The types of the variables, for any scenarios.
THEOREM TypeCorrect == Spec => []TypeOK
<1>1. IInv => TypeOK
  BY DEF IInv
<1> QED BY Invariance, <1>1, PTL

\* A sync deletes a copy in Proton Drive only while the folder holds more than the
\* settings keep, with those that other clients have removed since the sync has read
\* it, of which it cannot know (Model._purge and its OldestScheme).
THEOREM KeepsMax == Spec => PurgeKeepsMax
<1>1. IInv /\ [Next]_vars =>
        [~set.precaching /\ ~set.pinning /\ Deleted /\ pc \in PurgesProton =>
           Cardinality(Had \ HadPins) > set.maxProton - (IF pc = "preSave" THEN 1 ELSE 0)]_vars
  BY DEF IInv, TargetOK, Deleted
<1> QED BY Invariance, <1>1, PTL DEF Spec, PurgeKeepsMax

\* With delete_after_upload a sync deletes in Home Assistant only what Proton Drive
\* has, or had when the sync read it (DeleteAfterUploadScheme), unless the precache runs.
THEOREM KeepsLocal == Spec => LocalKept
<1>1. IInv /\ [Next]_vars =>
        [set.after /\ ~set.precaching /\ pc \in PurgesHa /\ Deleted => target \in Had]_vars
  BY DEF IInv, TargetOK, Deleted
<1> QED BY Invariance, <1>1, PTL DEF Spec, LocalKept

\* Without permission a purge deletes one copy at most, although it looks at
\* its list again after each deletion (Model._purge lines 396-402).
THEOREM OneWithoutPermission == Spec => PurgeRespectsConfirm
<1>1. IInv /\ [Next]_vars => [set.confirm /\ Deleted => permit \/ taken = 0]_vars
  BY DEF IInv, ConfirmOK, Deleted
<1> QED BY Invariance, <1>1, PTL DEF Spec, PurgeRespectsConfirm

\* A sync chooses no copy that is pinned in Proton Drive: what it knows of the
\* pins is what Proton Drive has (Model._nextPurge, BackupScheme).
THEOREM PinsAreKept == Spec => PinnedNotPurged
<1>1. ASSUME IInv, ~set.precaching, ~set.pinning, Purge, pc \in PurgesProton
      PROVE  target' \notin pins
  <2>1. TypeOK /\ pc \in Later /\ pc \notin PurgesHa
    BY <1>1 DEF IInv, Later, SyncPhases, Purges, PurgesProton, PurgesHa
  <2>2. target' \in Candidates(pc)
    BY <1>1, <2>1, Chosen
  <2>3. target' \in mProton \ mPins
    BY <2>1, <2>2 DEF Candidates, OlderThan
  <2>4. pins \cap mProton \subseteq mPins
    BY <1>1, <2>1 DEF IInv, PinsOK, HadPins
  <2> QED BY <2>3, <2>4
<1>2. IInv /\ [Next]_vars =>
        [~set.precaching /\ ~set.pinning /\ Purge /\ pc \in PurgesProton => target' \notin pins]_vars
  BY <1>1
<1> QED BY Invariance, <1>2, PTL DEF Spec, PinnedNotPurged

-----------------------------------------------------------------------------
(* A sync deletes nothing that it has itself uploaded                      *)

\* Max is defined, too.
LEMMA MaxIsGreatest ==
  ASSUME NEW T, IsFiniteSet(T), T \subseteq Int, T # {}
  PROVE  Max(T) \in T /\ \A x \in T : x <= Max(T)
<1> DEFINE N == {0 - x : x \in T}
<1>1. IsFiniteSet(N)
  <2> DEFINE f == [x \in T |-> 0 - x]
  <2>1. f \in Surjection(T, N)
    BY DEF Surjection
  <2> HIDE DEF f, N
  <2> QED BY <2>1, FS_Surjection
<1>2. N \subseteq Int /\ N # {}
  <2>1. \A x \in T : 0 - x \in Int
    OBVIOUS
  <2>2. N \subseteq Int
    BY <2>1
  <2>3. PICK x : x \in T
    OBVIOUS
  <2>4. 0 - x \in N
    BY <2>3
  <2> QED BY <2>2, <2>4
<1>3. Min(N) \in N /\ \A y \in N : Min(N) <= y
  <2> HIDE DEF N
  <2> QED BY <1>1, <1>2, MinIsLeast
<1>4. PICK m \in T : Min(N) = 0 - m
  BY <1>3
<1>5. \A x \in T : x <= m
  <2> SUFFICES ASSUME NEW x \in T PROVE x <= m
    OBVIOUS
  <2>1. 0 - x \in N
    OBVIOUS
  <2>2. 0 - m <= 0 - x
    BY <1>3, <1>4, <2>1
  <2>3. m \in Int /\ x \in Int
    OBVIOUS
  <2> QED BY <2>2, <2>3
<1>6. \A x \in T : m >= x
  BY <1>5
<1> QED BY <1>5, <1>6 DEF Max

\* The copies that a purge of Proton Drive chooses from, and the newer ones.
Free == mProton \ mPins
Newer(b, C) == {c \in C : c > b}

LEMMA NewerParts ==
  ASSUME NEW b, NEW C \in SUBSET Backups
  PROVE  /\ Newer(b, C) \in SUBSET C /\ Cardinality(Newer(b, C)) \in Nat
         /\ Cardinality(Newer(b, C)) <= Cardinality(C)
<1>1. Newer(b, C) \in SUBSET C /\ Newer(b, C) \in SUBSET Backups
  BY DEF Newer
<1> QED BY <1>1, PartsFinite, FS_Subset

\* What has fewer than n newer ones is not among the older than n.
LEMMA NotOlder ==
  ASSUME NEW n \in Int, NEW C \in SUBSET Backups, NEW b
  PROVE  b \in OlderThan(n, C) <=> b \in C /\ Cardinality(Newer(b, C)) >= n
BY DEF OlderThan, Newer

\* A set of which none is too old is small.
LEMMA NoneOlder ==
  ASSUME NEW n \in Nat, NEW C \in SUBSET Backups, OlderThan(n, C) = {}
  PROVE  Cardinality(C) <= n
<1>0. IsFiniteSet(C) /\ Cardinality(C) \in Nat
  BY PartsFinite
<1>1. CASE C = {}
  <2>1. Cardinality(C) = 0
    BY <1>1, FS_EmptySet
  <2> QED BY <2>1
<1>2. CASE C # {}
  <2> DEFINE m == Min(C)
  <2>1. C \subseteq Int
    BY BackupsFinite
  <2>2. m \in C /\ \A c \in C : m <= c
    BY <1>0, <1>2, <2>1, MinIsLeast
  <2> HIDE DEF m
  <2>3. Newer(m, C) = C \ {m}
    <3>1. \A c \in C : c > m <=> c # m
      BY <2>1, <2>2
    <3> QED BY <3>1 DEF Newer
  <2>4. Cardinality(C \ {m}) = Cardinality(C) - 1
    BY <1>0, <2>2, FS_RemoveElement
  <2>5. ~(Cardinality(Newer(m, C)) >= n)
    BY <2>2, NotOlder
  <2> QED BY <1>0, <2>3, <2>4, <2>5
<1> QED BY <1>1, <1>2

\* One that has itself and k others that are not newer has few newer ones.
LEMMA FewNewer ==
  ASSUME NEW C \in SUBSET Backups, NEW D \in SUBSET C, NEW b, Newer(b, C) \cap D = {}
  PROVE  Cardinality(Newer(b, C)) + Cardinality(D) <= Cardinality(C)
<1>1. /\ Newer(b, C) \in SUBSET Backups /\ D \in SUBSET Backups
      /\ Newer(b, C) \cup D \in SUBSET C
  BY DEF Newer
<1>2. /\ IsFiniteSet(Newer(b, C)) /\ IsFiniteSet(D) /\ IsFiniteSet(C)
      /\ Cardinality(Newer(b, C)) \in Nat /\ Cardinality(D) \in Nat
      /\ Cardinality(Newer(b, C) \cup D) \in Nat
  BY <1>1, PartsFinite
<1>3. Cardinality(Newer(b, C) \cup D) <= Cardinality(C)
  BY <1>1, <1>2, FS_Subset
<1>4. Cardinality(Newer(b, C) \cap D) = 0
  BY FS_EmptySet
<1>5. Cardinality(Newer(b, C) \cup D) =
        Cardinality(Newer(b, C)) + Cardinality(D) - Cardinality(Newer(b, C) \cap D)
  BY <1>2, FS_Union
<1> QED BY <1>2, <1>3, <1>4, <1>5

Uploading == {"next", "preSave", "save", "postSave"}

\* While no session is lost: a sync that uploads began with one; what it has
\* uploaded is newer than what it has still to upload, and nothing of that is
\* being deleted.
SentOK ==
  /\ signOuts = 0
  /\ pc \notin Uploading \union {"postUpload", "finish"} => sent = {}
  /\ pc \in Uploading \union {"getProton", "purgeHa", "purgeProton"} => signedIn
  /\ pc # "gotProton" \/ ~signedIn => listing = None
  /\ pc \in Uploading => uploads \cap mProton = {} /\ \A s \in sent, u \in uploads : u < s
  /\ pc \in {"preSave", "save"} => uploads # {}
  /\ pc \in PurgesProton => target \notin sent

\* From the first purge on, Proton Drive has no more copies than it may keep.
\* The one to upload is not the first to go then, so that those that were
\* uploaded before stay when it makes room, and it stays itself.
RoomOK == set.maxProton # 0 =>
  /\ pc \in {"decide", "preCreate", "create", "postCreate", "collect", "next", "preSave", "save"} =>
       Cardinality(Free) <= set.maxProton
  /\ pc \in {"preSave", "save"} =>
       /\ Cardinality(Newer(Max(uploads), Free)) < set.maxProton
       /\ sent \cap OlderThan(set.maxProton - 1, Free) = {}
  /\ pc = "postSave" => sent \cap OlderThan(set.maxProton, Free) = {}

ChurnInv == set.signOuts = 0 => SentOK /\ RoomOK

LEMMA FreeType == ASSUME TypeOK PROVE Free \in SUBSET Backups /\ uploads \in SUBSET Backups /\ sent \in SUBSET Backups
BY DEF TypeOK, Free

\* A step that only takes copies away from those that may be purged.
LEMMA Shrinks ==
  ASSUME TypeOK, SentOK, RoomOK,
         UNCHANGED <<set, pc, listing, uploads, sent, signOuts>>, signedIn => signedIn',
         mProton' \subseteq mProton, Free' \subseteq Free, pc \in PurgesProton => target' \notin sent
  PROVE  SentOK' /\ RoomOK'
<1>1. SentOK'
  BY DEF SentOK
<1>2. Free \in SUBSET Backups /\ Free' \in SUBSET Backups /\ Free' \in SUBSET Free
  BY FreeType
<1>3. Cardinality(Free') <= Cardinality(Free) /\ Cardinality(Free) \in Nat /\ Cardinality(Free') \in Nat
  BY <1>2, PartsFinite, FS_Subset
<1>4. set.maxProton \in Nat
  BY SetType
<1>5. \A n \in Int : OlderThan(n, Free') \subseteq OlderThan(n, Free)
  BY <1>2, OlderThanMonotone
<1>6. ASSUME NEW b PROVE /\ Cardinality(Newer(b, Free')) <= Cardinality(Newer(b, Free))
                         /\ Cardinality(Newer(b, Free')) \in Nat /\ Cardinality(Newer(b, Free)) \in Nat
  <2>1. /\ Newer(b, Free') \in SUBSET Newer(b, Free)
        /\ Newer(b, Free) \in SUBSET Backups /\ Newer(b, Free') \in SUBSET Backups
    BY <1>2 DEF Newer
  <2> QED BY <2>1, PartsFinite, FS_Subset
<1>7. RoomOK'
  <2> SUFFICES ASSUME set.maxProton # 0
               PROVE  /\ pc \in {"decide", "preCreate", "create", "postCreate", "collect", "next",
                                 "preSave", "save"} => Cardinality(Free') <= set.maxProton
                      /\ pc \in {"preSave", "save"} =>
                           /\ Cardinality(Newer(Max(uploads), Free')) < set.maxProton
                           /\ sent \cap OlderThan(set.maxProton - 1, Free') = {}
                      /\ pc = "postSave" => sent \cap OlderThan(set.maxProton, Free') = {}
    BY DEF RoomOK
  <2>1. pc \in {"decide", "preCreate", "create", "postCreate", "collect", "next", "preSave", "save"}
          => Cardinality(Free') <= set.maxProton
    BY <1>3, <1>4 DEF RoomOK
  <2>2. pc \in {"preSave", "save"} => Cardinality(Newer(Max(uploads), Free')) < set.maxProton
    BY <1>4, <1>6 DEF RoomOK
  <2>3. pc \in {"preSave", "save"} => sent \cap OlderThan(set.maxProton - 1, Free') = {}
    BY <1>4, <1>5 DEF RoomOK
  <2>4. pc = "postSave" => sent \cap OlderThan(set.maxProton, Free') = {}
    BY <1>4, <1>5 DEF RoomOK
  <2> QED BY <2>1, <2>2, <2>3, <2>4
<1> QED BY <1>1, <1>7

\* A step outside of the uploads.
LEMMA NotUploading ==
  ASSUME SentOK, sent' = {}, signOuts' = signOuts, pc' \notin Uploading,
         listing' = None, pc' \in {"getProton", "purgeHa", "purgeProton"} => signedIn',
         set.maxProton # 0 /\ pc' \in {"decide", "preCreate", "create", "postCreate", "collect"} =>
           Cardinality(Free') <= set.maxProton,
         set' = set
  PROVE  SentOK' /\ RoomOK'
BY DEF SentOK, RoomOK, Uploading

LEMMA ChurnReads ==
  ASSUME TypeOK, SentOK, RoomOK, StartSync \/ GetHa \/ GetProton \/ GotProton
  PROVE  SentOK' /\ RoomOK'
<1>1. /\ sent = {} /\ sent' = {} /\ signOuts' = signOuts /\ signedIn' = signedIn /\ set' = set
  BY DEF StartSync, GetHa, GetProton, GotProton, Goto, user, SentOK, Uploading
<1>2. CASE StartSync
  <2>1. pc' = "getHa" /\ listing' = None
    BY <1>2 DEF StartSync, Goto, SentOK
  <2> QED BY <1>1, <2>1, NotUploading DEF Uploading
<1>3. CASE GetHa
  <2>1. pc = "getHa" /\ listing = None
    BY <1>3 DEF GetHa, SentOK
  <2>2. CASE pc' = "getProton"
    <3>1. signedIn /\ listing' = None
      BY <1>3, <2>1, <2>2 DEF GetHa, Goto
    <3> QED BY <1>1, <2>2, <3>1, NotUploading DEF Uploading
  <2>3. CASE pc' = "gotProton"
    <3>1. ~signedIn => listing' = None
      BY <1>3, <2>1 DEF GetHa, Goto
    <3> QED BY <1>1, <2>3, <3>1 DEF SentOK, RoomOK, Uploading, PurgesProton
  <2> QED BY <1>3, <2>2, <2>3 DEF GetHa, Goto
<1>4. CASE GetProton
  <2>1. pc' = "gotProton" /\ signedIn
    BY <1>4 DEF GetProton, SentOK
  <2> QED BY <1>1, <2>1 DEF SentOK, RoomOK, Uploading, PurgesProton
<1>5. CASE GotProton
  <2>1. listing' = None /\ pc = "gotProton"
    BY <1>5 DEF GotProton
  <2>2. CASE signedIn
    <3>1. pc' = "purgeHa"
      BY <1>5, <2>2 DEF GotProton
    <3> QED BY <1>1, <2>1, <2>2, <3>1, NotUploading DEF Uploading
  <2>3. CASE ~signedIn
    <3>1. pc' = "decide" /\ mProton' = {}
      BY <1>5, <2>3 DEF GotProton, SentOK, None
    <3>2. Cardinality(Free') = 0
      BY <3>1, FS_EmptySet DEF Free
    <3>3. Cardinality(Free') <= set.maxProton
      BY <3>2, SetType
    <3> QED BY <1>1, <2>1, <3>1, <3>3, NotUploading DEF Uploading
  <2> QED BY <2>2, <2>3
<1> QED BY <1>2, <1>3, <1>4, <1>5

\* A purge of Proton Drive chooses among the free copies, up to its limit.
LEMMA ProtonList ==
  ASSUME TypeOK, pc \in PurgesProton
  PROVE  /\ PurgeList(pc) # {} => set.maxProton # 0 /\ PurgeList(pc) = OlderThan(Limit(pc), Free)
         /\ signedIn /\ set.maxProton # 0 => PurgeList(pc) = OlderThan(Limit(pc), Free)
         /\ Limit(pc) = IF pc = "preSave" THEN set.maxProton - 1 ELSE set.maxProton
<1>1. pc \notin PurgesHa /\ (pc \in PrePurges <=> pc = "preSave")
  BY DEF PurgesProton, PurgesHa, PrePurges
<1>2. Limit(pc) = IF pc = "preSave" THEN set.maxProton - 1 ELSE set.maxProton
  BY <1>1 DEF Limit
<1> QED BY <1>1, <1>2 DEF PurgeList, Free

LEMMA ChurnPurges ==
  ASSUME TypeOK, SentOK, RoomOK, Purge \/ PurgeEnds \/ Deleted
  PROVE  SentOK' /\ RoomOK'
<1>1. CASE Purge
  <2>1. /\ UNCHANGED <<set, pc, listing, uploads, sent, signOuts, signedIn, mProton, mPins>>
        /\ target' \in PurgeList(pc) /\ PurgeList(pc) # {}
    BY <1>1, Chosen DEF Purge, model, user
  <2>2. ASSUME pc \in PurgesProton PROVE target' \notin sent
    <3>1. /\ set.maxProton # 0 /\ target' \in OlderThan(Limit(pc), Free)
          /\ Limit(pc) = IF pc = "preSave" THEN set.maxProton - 1 ELSE set.maxProton
      BY <2>1, <2>2, ProtonList
    <3>2. CASE pc = "purgeProton"
      BY <3>2 DEF SentOK, Uploading
    <3>3. CASE pc = "preSave"
      BY <3>1, <3>3 DEF RoomOK
    <3>4. CASE pc = "postSave"
      BY <3>1, <3>4 DEF RoomOK
    <3> QED BY <2>2, <3>2, <3>3, <3>4 DEF PurgesProton
  <2>3. Free' = Free
    BY <2>1 DEF Free
  <2> QED BY <2>1, <2>2, <2>3, Shrinks
<1>2. CASE PurgeEnds
  <2>1. /\ UNCHANGED <<set, listing, uploads, sent, signOuts, signedIn, mProton, mPins, target>>
        /\ pc' = After[pc] /\ PurgeList(pc) = {} /\ target = 0 /\ pc \in Purges
    BY <1>2 DEF PurgeEnds, model, user
  <2>2. /\ Free' = Free /\ listing = None /\ Free \in SUBSET Backups
        /\ Cardinality(Free) \in Nat /\ set.maxProton \in Nat
    BY <2>1, FreeType, PartsFinite, SetType DEF SentOK, Free, Purges, PurgesHa, PurgesProton
  <2>3. CASE pc \in {"purgeHa", "purgeProton", "preCreate", "postCreate"}
    <3>1. sent = {}
      BY <2>3 DEF SentOK, Uploading
    <3>2. pc' \notin Uploading /\ (pc' = "purgeProton" => signedIn)
          /\ pc' \notin {"getProton", "purgeHa"}
      BY <2>1, <2>3 DEF After, Uploading, SentOK
    <3>3. set.maxProton # 0 /\ pc' \in {"decide", "preCreate", "create", "postCreate", "collect"} =>
            Cardinality(Free) <= set.maxProton
      <4>1. CASE pc = "purgeProton"
        <5>1. signedIn /\ pc \in PurgesProton
          BY <4>1 DEF SentOK, PurgesProton
        <5>2. set.maxProton # 0 => OlderThan(set.maxProton, Free) = {}
          BY <2>1, <4>1, <5>1, ProtonList
        <5> QED BY <2>2, <5>2, NoneOlder
      <4>2. CASE pc \in {"preCreate", "postCreate"}
        BY <4>2 DEF RoomOK
      <4>3. CASE pc = "purgeHa"
        BY <2>1, <4>3 DEF After
      <4> QED BY <2>3, <4>1, <4>2, <4>3
    <3> QED BY <2>1, <2>2, <3>1, <3>2, <3>3, NotUploading
  <2>4. CASE pc = "preSave"
    <3>1. pc' = "save"
      BY <2>1, <2>4 DEF After
    <3>2. SentOK'
      BY <2>1, <2>4, <3>1 DEF SentOK, Uploading, PurgesProton
    <3>3. RoomOK'
      BY <2>1, <2>2, <2>4, <3>1 DEF RoomOK
    <3> QED BY <3>2, <3>3
  <2>5. CASE pc = "postSave"
    <3>1. pc' = "next" /\ signedIn
      BY <2>1, <2>5 DEF After, SentOK, Uploading
    <3>2. SentOK'
      BY <2>1, <2>5, <3>1 DEF SentOK, Uploading, PurgesProton
    <3>3. set.maxProton # 0 => OlderThan(set.maxProton, Free) = {}
      BY <2>1, <2>5, <3>1, ProtonList DEF PurgesProton
    <3>4. set.maxProton # 0 => Cardinality(Free) <= set.maxProton
      BY <2>2, <3>3, NoneOlder
    <3>5. RoomOK'
      BY <2>1, <2>2, <3>1, <3>4 DEF RoomOK
    <3> QED BY <3>2, <3>5
  <2>6. CASE pc = "postUpload"
    <3>1. pc' = "finish"
      BY <2>1, <2>6 DEF After
    <3> QED BY <2>1, <2>6, <3>1 DEF SentOK, RoomOK, Uploading, PurgesProton
  <2> QED BY <2>1, <2>3, <2>4, <2>5, <2>6 DEF Purges, PurgesHa, PurgesProton
<1>3. CASE Deleted
  <2>1. /\ UNCHANGED <<set, pc, listing, uploads, sent, signOuts, signedIn>> /\ target' = 0
        /\ mProton' \subseteq mProton /\ Free' \subseteq Free
    BY <1>3 DEF Deleted, ForgetHa, ForgetProton, user, Free
  <2>2. 0 \notin sent
    BY FreeType, BackupsFinite
  <2> QED BY <2>1, <2>2, Shrinks
<1> QED BY <1>1, <1>2, <1>3

\* The next upload is the newest of those that are left.
LEMMA Newest ==
  ASSUME TypeOK, uploads # {}
  PROVE  Max(uploads) \in uploads /\ \A u \in uploads : u <= Max(uploads)
<1>1. uploads \in SUBSET Backups
  BY FreeType
<1>2. IsFiniteSet(uploads)
  BY <1>1, PartsFinite
<1>3. uploads \subseteq Int
  BY <1>1, BackupsFinite
<1> QED BY <1>2, <1>3, MaxIsGreatest

\* The next upload is not the oldest of more than may be kept.
LEMMA NextFits ==
  ASSUME TypeOK, SentOK, RoomOK, set.maxProton # 0, pc = "next",
         uploads # {}, ~PurgedNext(Max(uploads))
  PROVE  /\ Cardinality(Newer(Max(uploads), Free)) < set.maxProton
         /\ sent \cap OlderThan(set.maxProton - 1, Free) = {}
<1> DEFINE b == Max(uploads)
           most == set.maxProton
<1>1. /\ Free \in SUBSET Backups /\ IsFiniteSet(Free) /\ Cardinality(Free) \in Nat
      /\ most \in Nat /\ most # 0 /\ Cardinality(Free) <= most
  BY FreeType, PartsFinite, SetType DEF RoomOK
<1>2. b \in uploads /\ b \in Backups /\ b \notin Free /\ signedIn /\ \A s \in sent : b < s
  <2>1. b \in uploads /\ uploads \in SUBSET Backups
    BY FreeType, Newest
  <2> HIDE DEF b
  <2> QED BY <2>1 DEF SentOK, Uploading, Free
<1>3. sent \in SUBSET Backups /\ Backups \subseteq Int
  BY FreeType, BackupsFinite
<1>4. Cardinality(Free \cup {b}) = Cardinality(Free) + 1 /\ IsFiniteSet(Free \cup {b})
  <2> HIDE DEF b
  <2> QED BY <1>1, <1>2, FS_AddElement
<1>5. Cardinality(Free) + 1 <= most \/ b # Min(Free \cup {b})
  <2>1. ~(signedIn /\ most # 0 /\ Cardinality(Free \cup {b}) > most /\ b = Min(Free \cup {b}))
    BY DEF PurgedNext, Free
  <2> HIDE DEF b, most
  <2> QED BY <1>1, <1>2, <1>4, <2>1
<1> HIDE DEF b, most
<1>6. CASE Cardinality(Free) + 1 <= most
  <2>1. Cardinality(Newer(b, Free)) < most
    BY <1>1, <1>6, NewerParts
  <2>2. ASSUME NEW s \in sent, s \in OlderThan(most - 1, Free) PROVE FALSE
    <3>1. s \in Free /\ Cardinality(Newer(s, Free)) >= most - 1
      BY <1>1, <2>2, NotOlder
    <3>2. Newer(s, Free) \cap {s} = {} /\ {s} \in SUBSET Free
      BY <1>1, <1>3, <3>1 DEF Newer
    <3>3. Cardinality(Newer(s, Free)) + Cardinality({s}) <= Cardinality(Free)
      BY <1>1, <3>2, FewNewer
    <3>4. Cardinality({s}) = 1 /\ Cardinality(Newer(s, Free)) \in Nat
      BY <1>1, FS_Singleton, NewerParts
    <3> QED BY <1>1, <1>6, <3>1, <3>3, <3>4
  <2> QED BY <2>1, <2>2 DEF b, most
<1>7. CASE b # Min(Free \cup {b})
  <2>1. PICK c \in Free : c < b
    <3>1. Free \cup {b} \subseteq Int /\ Free \cup {b} # {}
      BY <1>1, <1>2, <1>3
    <3>2. /\ Min(Free \cup {b}) \in Free \cup {b}
          /\ \A x \in Free \cup {b} : Min(Free \cup {b}) <= x
      BY <1>4, <3>1, MinIsLeast
    <3>3. Min(Free \cup {b}) \in Free /\ Min(Free \cup {b}) < b
      BY <1>7, <3>1, <3>2
    <3> QED BY <3>3
  <2>2. Cardinality(Newer(b, Free)) < most
    <3>1. Newer(b, Free) \cap {c} = {} /\ {c} \in SUBSET Free
      BY <1>1, <1>2, <1>3, <2>1 DEF Newer
    <3>2. Cardinality(Newer(b, Free)) + Cardinality({c}) <= Cardinality(Free)
      BY <1>1, <3>1, FewNewer
    <3>3. Cardinality({c}) = 1 /\ Cardinality(Newer(b, Free)) \in Nat
      BY <1>1, FS_Singleton, NewerParts
    <3> QED BY <1>1, <3>2, <3>3
  <2>3. ASSUME NEW s \in sent, s \in OlderThan(most - 1, Free) PROVE FALSE
    <3>1. s \in Free /\ Cardinality(Newer(s, Free)) >= most - 1
      BY <1>1, <2>3, NotOlder
    <3>2. /\ c < b /\ b < s /\ c \in Int /\ b \in Int /\ s \in Int
      BY <1>1, <1>2, <1>3, <2>1
    <3>3. c < s /\ c # s
      BY <3>2
    <3>4. Newer(s, Free) \cap {c, s} = {} /\ {c, s} \in SUBSET Free
      BY <2>1, <3>1, <3>2, <3>3 DEF Newer
    <3>5. Cardinality(Newer(s, Free)) + Cardinality({c, s}) <= Cardinality(Free)
      BY <1>1, <3>4, FewNewer
    <3>6. Cardinality({c, s}) = 2
      <4>1. Cardinality({c}) = 1 /\ IsFiniteSet({c}) /\ s \notin {c} /\ {c} \cup {s} = {c, s}
        BY <3>3, FS_Singleton
      <4>2. Cardinality({c} \cup {s}) = Cardinality({c}) + 1
        BY <4>1, FS_AddElement
      <4> QED BY <4>1, <4>2
    <3>7. Cardinality(Newer(s, Free)) \in Nat
      BY <1>1, NewerParts
    <3> QED BY <1>1, <3>1, <3>5, <3>6, <3>7
  <2> QED BY <2>2, <2>3 DEF b, most
<1> QED BY <1>5, <1>6, <1>7

LEMMA ChurnUploads ==
  ASSUME TypeOK, TargetOK, SentOK, RoomOK, NextUpload \/ Save
  PROVE  SentOK' /\ RoomOK'
<1>1. 0 \notin sent /\ target = 0 /\ pc \in Uploading /\ listing = None
  BY FreeType, BackupsFinite
     DEF TargetOK, NextUpload, Save, Purges, PurgesHa, PurgesProton, RequestPhases, Uploading, SentOK
<1>2. ASSUME NextUpload, uploads # {}, ~PurgedNext(Max(uploads)) PROVE SentOK' /\ RoomOK'
  <2>1. /\ pc = "next" /\ pc' \in {"preSave", "save"}
        /\ UNCHANGED <<target, listing, uploads, sent, set, signOuts, signedIn, mProton, mPins>>
    BY <1>2 DEF NextUpload, Goto, model, user
  <2>2. SentOK'
    BY <1>1, <1>2, <2>1 DEF SentOK, Uploading
  <2>3. Free' = Free
    BY <2>1 DEF Free
  <2>4. RoomOK'
    BY <1>2, <2>1, <2>3, NextFits DEF RoomOK
  <2> QED BY <2>2, <2>4
<1>3. ASSUME NextUpload, ~(uploads # {} /\ ~PurgedNext(Max(uploads))) PROVE SentOK' /\ RoomOK'
  <2>1. /\ pc = "next" /\ pc' \in {"postUpload", "finish"}
        /\ UNCHANGED <<target, listing, sent, set, signOuts, signedIn>>
    BY <1>3 DEF NextUpload, user
  <2> QED BY <1>1, <2>1 DEF SentOK, RoomOK, Uploading, PurgesProton
<1>4. CASE Save
  <2> DEFINE b == Max(uploads)
  <2>1. /\ pc = "save" /\ pc' = "postSave" /\ signedIn
        /\ UNCHANGED <<target, listing, set, signOuts, signedIn>>
        /\ mProton' = mProton \union {b} /\ mPins' = mPins \ {b}
        /\ uploads' = uploads \ {b} /\ sent' = sent \union {b}
    BY <1>4 DEF Save, CanSave, user
  <2>2. b \in uploads /\ \A u \in uploads : u <= b
    <3>1. uploads # {}
      BY <2>1 DEF SentOK
    <3> QED BY <3>1, Newest
  <2>3. b \in Nat /\ b # 0 /\ uploads \subseteq Nat /\ sent \subseteq Nat /\ Free \subseteq Nat
    BY <2>2, FreeType, BackupsFinite
  <2>4. set.maxProton # 0 => Cardinality(Newer(b, Free)) < set.maxProton
                             /\ sent \cap OlderThan(set.maxProton - 1, Free) = {}
    BY <2>1 DEF RoomOK
  <2> HIDE DEF b
  <2>5. SentOK'
    <3>1. uploads' \cap mProton' = {}
      BY <2>1 DEF SentOK, Uploading
    <3>2. \A s \in sent', u \in uploads' : u < s
      <4> SUFFICES ASSUME NEW s \in sent', NEW u \in uploads' PROVE u < s
        OBVIOUS
      <4>1. CASE s \in sent
        BY <2>1, <4>1 DEF SentOK, Uploading
      <4>2. CASE s = b
        BY <2>1, <2>2, <2>3, <4>2
      <4> QED BY <2>1, <4>1, <4>2
    <3> QED BY <1>1, <2>1, <2>3, <3>1, <3>2 DEF SentOK, Uploading
  <2>6. RoomOK'
    <3> SUFFICES ASSUME set.maxProton # 0
                 PROVE  sent' \cap OlderThan(set.maxProton, Free') = {}
      BY <2>1 DEF RoomOK
    <3>1. Free' = Free \cup {b}
      BY <2>1 DEF Free
    <3>2. Free \in SUBSET Backups /\ Free' \in SUBSET Backups /\ set.maxProton \in Nat
      BY <2>2, <3>1, FreeType, SetType
    <3>3. ASSUME NEW s \in sent', s \in OlderThan(set.maxProton, Free') PROVE FALSE
      <4>1. s \in Free' /\ Cardinality(Newer(s, Free')) >= set.maxProton
        BY <3>2, <3>3, NotOlder
      <4>2. s \in Nat /\ (s = b \/ (s \in sent /\ b < s))
        BY <2>1, <2>2, <2>3 DEF SentOK, Uploading
      <4>3. Newer(s, Free') = Newer(s, Free)
        BY <2>3, <3>1, <4>2 DEF Newer
      <4>4. Cardinality(Newer(s, Free)) \in Nat
        BY <3>2, NewerParts
      <4>5. CASE s = b
        BY <2>4, <3>2, <4>1, <4>3, <4>4, <4>5
      <4>6. CASE s \in sent /\ b < s
        <5>1. s \in Free
          BY <2>3, <3>1, <4>1, <4>6
        <5>2. s \notin OlderThan(set.maxProton - 1, Free)
          BY <2>4, <4>6
        <5>3. ~(Cardinality(Newer(s, Free)) >= set.maxProton - 1)
          BY <3>2, <5>1, <5>2, NotOlder
        <5> QED BY <3>2, <4>1, <4>3, <4>4, <5>3
      <4> QED BY <4>2, <4>5, <4>6
    <3> QED BY <3>3
  <2> QED BY <2>5, <2>6
<1> QED BY <1>2, <1>3, <1>4

LEMMA ChurnMakes ==
  ASSUME TypeOK, TargetOK, SentOK, RoomOK, Decide \/ Create \/ Collect
  PROVE  SentOK' /\ RoomOK'
<1>1. /\ pc \in {"decide", "create", "collect"}
      /\ UNCHANGED <<set, signOuts, signedIn, listing, sent, target, mProton, mPins>>
  BY DEF Decide, Create, Collect, Goto, model, user
<1>2. sent = {} /\ listing = None /\ Free' = Free
  BY <1>1 DEF SentOK, Uploading, Free
<1>3. set.maxProton # 0 => Cardinality(Free) <= set.maxProton
  BY <1>1 DEF RoomOK
<1>4. CASE Decide
  <2>1. pc' \in {"collect", "preCreate", "create"}
    BY <1>4 DEF Decide, Goto
  <2> QED BY <1>1, <1>2, <1>3, <2>1, NotUploading DEF Uploading
<1>5. CASE Create
  <2>1. pc' = "postCreate"
    BY <1>5 DEF Create, Goto
  <2> QED BY <1>1, <1>2, <1>3, <2>1, NotUploading DEF Uploading
<1>6. CASE Collect
  <2>1. CASE signedIn
    <3>1. pc' = "next" /\ uploads' = mHa \ mProton
      BY <1>6, <2>1 DEF Collect
    <3>2. SentOK'
      BY <1>1, <1>2, <2>1, <3>1 DEF SentOK, Uploading, PurgesProton
    <3>3. RoomOK'
      BY <1>1, <1>2, <1>3, <3>1 DEF RoomOK
    <3> QED BY <3>2, <3>3
  <2>2. CASE ~signedIn
    <3>1. pc' = "finish"
      BY <1>6, <2>2 DEF Collect
    <3> QED BY <1>1, <1>2, <3>1, NotUploading DEF Uploading
  <2> QED BY <2>1, <2>2
<1> QED BY <1>4, <1>5, <1>6

\* Between syncs nothing is sent.
LEMMA ChurnOutside ==
  ASSUME SentOK, Finish \/ Refuse \/ Impossible \/ SyncFails
  PROVE  SentOK' /\ RoomOK'
<1>1. EndSync /\ set' = set
  BY DEF Finish, Refuse, Impossible, SyncFails
<1>2. pc' = "idle" /\ listing' = None /\ sent' = {} /\ signOuts' = signOuts
  BY <1>1 DEF EndSync
<1> QED BY <1>1, <1>2, NotUploading DEF Uploading

LEMMA ChurnRequests ==
  ASSUME SentOK,
         RequestStep \/ \E b \in Backups :
           RequestDeleteHa(b) \/ RequestDeleteProton(b) \/ RequestUpload(b)
  PROVE  SentOK' /\ RoomOK'
<1>1. /\ pc \in RequestPhases \union {"idle"} /\ pc' \in RequestPhases \union {"idle"}
      /\ UNCHANGED <<listing, sent, signOuts, set>>
  BY DEF RequestStep, RequestedDelete, RequestedUpload, RequestDeleteHa, RequestDeleteProton,
         RequestUpload, Request, RequestPhases, user
<1>2. sent = {} /\ listing = None
  BY <1>1 DEF SentOK, Uploading, RequestPhases
<1> QED BY <1>1, <1>2, NotUploading DEF Uploading, RequestPhases

\* Nothing that runs beside the sync gives it more copies to purge.
LEMMA ChurnBeside ==
  ASSUME TypeOK, SentOK, RoomOK,
         \/ Pinned \/ Permit \/ Precache \/ World \/ UNCHANGED vars
         \/ \E b \in Backups : RequestPin(b)
  PROVE  SentOK' /\ RoomOK'
<1>1. ~SignOut
  BY DEF SignOut, SentOK
<1>2. /\ UNCHANGED <<set, run, signOuts, mProton>> /\ (signedIn => signedIn') /\ mPins \subseteq mPins'
  <2>1. CASE Pinned
    BY <2>1 DEF Pinned
  <2>2. CASE Permit
    BY <2>2 DEF Permit, model
  <2>3. CASE Precache
    BY <2>3 DEF Precache, Warm, WarmRead, WarmStore, WarmExpires, model, user
  <2>4. CASE World
    BY <1>1, <2>4 DEF World, ComesDue, MadeElsewhere, SignIn, LostInHa, LostInProton, model, user
  <2>5. CASE UNCHANGED vars
    BY <2>5 DEF vars, model, user
  <2>6. ASSUME NEW b \in Backups, RequestPin(b) PROVE <1>2!:
    BY <2>6 DEF RequestPin, model
  <2> QED BY <2>1, <2>2, <2>3, <2>4, <2>5, <2>6
<1>3. UNCHANGED <<pc, listing, uploads, sent, target>> /\ Free' \subseteq Free
  BY <1>2 DEF run, Free
<1>4. pc \in PurgesProton => target' \notin sent
  BY <1>3 DEF SentOK
<1> QED BY <1>2, <1>3, <1>4, Shrinks

LEMMA ChurnInit == Init => ChurnInv
BY DEF Init, ChurnInv, SentOK, RoomOK, Uploading, PurgesProton

LEMMA ChurnStep == IInv /\ ChurnInv /\ [Next]_vars => ChurnInv'
<1> SUFFICES ASSUME IInv, ChurnInv, [Next]_vars, set'.signOuts = 0 PROVE SentOK' /\ RoomOK'
  BY DEF ChurnInv
<1>1. set' = set
  BY DEF Next, SyncStep, RequestStep, User, Precache, World, vars,
     StartSync, GetHa, GetProton, GotProton, Purge, PurgeEnds, Deleted, Decide, Create, Collect,
     NextUpload, Save, Finish, Refuse, Impossible, SyncFails, RequestedDelete, RequestedUpload,
     Pinned, RequestDeleteHa, RequestDeleteProton, RequestUpload, Request, RequestPin, Permit,
     Warm, WarmRead, WarmStore, WarmExpires, ComesDue, MadeElsewhere, SignOut, SignIn, LostInHa,
     LostInProton
<1>2. TypeOK /\ TargetOK /\ SentOK /\ RoomOK
  BY <1>1 DEF IInv, ChurnInv
<1> QED BY <1>2, ChurnReads, ChurnPurges, ChurnMakes, ChurnUploads, ChurnOutside, ChurnRequests,
           ChurnBeside DEF Next, SyncStep, User

\* While no session is lost, a sync deletes nothing that it has uploaded: it
\* uploads a backup only if it would not be the next one deleted, in an order in
\* which this stays true of those before it (Model.sync lines 233-259).
THEOREM UploadsStay == Spec => NoUploadChurn
<1>1. ChurnInv /\ [Next]_vars =>
        [set.signOuts = 0 /\ Deleted /\ pc \in PurgesProton => target \notin sent]_vars
  BY DEF ChurnInv, SentOK
<1>2. Spec => []ChurnInv
  BY Invariance, ChurnInit, ChurnStep, PTL DEF Spec
<1> QED BY <1>1, <1>2, PTL DEF Spec, NoUploadChurn

-----------------------------------------------------------------------------
(* How a sync ends                                                         *)

\* What was within the limit when nothing was left to upload stays so.
LeftOK == set.signOuts = 0 /\ set.maxProton # 0 /\ pc \in {"postUpload", "finish"} =>
            Cardinality(Free) <= set.maxProton

LEMMA LeftStep == IInv /\ ChurnInv /\ LeftOK /\ [Next]_vars => LeftOK'
<1> SUFFICES ASSUME IInv, ChurnInv, LeftOK, [Next]_vars,
                    set'.signOuts = 0, set'.maxProton # 0, pc' \in {"postUpload", "finish"}
             PROVE  Cardinality(Free') <= set'.maxProton
  BY DEF LeftOK
<1>1. set' = set
  BY DEF Next, SyncStep, RequestStep, User, Precache, World, vars,
     StartSync, GetHa, GetProton, GotProton, Purge, PurgeEnds, Deleted, Decide, Create, Collect,
     NextUpload, Save, Finish, Refuse, Impossible, SyncFails, RequestedDelete, RequestedUpload,
     Pinned, RequestDeleteHa, RequestDeleteProton, RequestUpload, Request, RequestPin, Permit,
     Warm, WarmRead, WarmStore, WarmExpires, ComesDue, MadeElsewhere, SignOut, SignIn, LostInHa,
     LostInProton
<1>2. TypeOK /\ RoomOK /\ set.signOuts = 0 /\ set.maxProton # 0 /\ set.maxProton \in Nat
  BY <1>1, SetType DEF IInv, ChurnInv
<1>3. ASSUME Cardinality(Free) <= set.maxProton, Free' \subseteq Free
      PROVE  Cardinality(Free') <= set'.maxProton
  <2>1. Free \in SUBSET Backups /\ Free' \in SUBSET Backups /\ Free' \in SUBSET Free
    BY <1>2, <1>3, FreeType
  <2>2. Cardinality(Free') <= Cardinality(Free) /\ Cardinality(Free) \in Nat /\ Cardinality(Free') \in Nat
    BY <2>1, PartsFinite, FS_Subset
  <2> QED BY <1>1, <1>2, <1>3, <2>2
<1>4. CASE NextUpload \/ Collect
  <2>1. pc \in {"next", "collect"} /\ UNCHANGED model
    BY <1>4 DEF NextUpload, Collect, Goto
  <2>2. Cardinality(Free) <= set.maxProton /\ Free' = Free
    BY <1>2, <2>1 DEF RoomOK, Free, model
  <2> QED BY <1>3, <2>2
<1>5. ASSUME pc \in {"postUpload", "finish"}, Free' \subseteq Free
      PROVE  Cardinality(Free') <= set'.maxProton
  BY <1>2, <1>3, <1>5 DEF LeftOK
<1>6. CASE Purge \/ PurgeEnds \/ Deleted
  <2>1. pc \in Purges /\ (pc' = pc \/ pc' = After[pc])
    BY <1>6 DEF Purge, PurgeEnds, Deleted
  <2>2. pc = "postUpload" /\ pc \in PurgesHa
    BY <2>1 DEF Purges, PurgesHa, PurgesProton, After
  <2>3. Free' = Free
    BY <1>6, <2>2 DEF Purge, PurgeEnds, Deleted, ForgetHa, model, Free
  <2> QED BY <1>5, <2>2, <2>3
<1>7. ~(Finish \/ Refuse \/ Impossible \/ SyncFails \/ RequestStep)
  BY DEF Finish, Refuse, Impossible, SyncFails, EndSync, RequestStep, RequestedDelete, RequestedUpload
<1>8. ~(\E b \in Backups : RequestDeleteHa(b) \/ RequestDeleteProton(b) \/ RequestUpload(b))
  BY DEF RequestDeleteHa, RequestDeleteProton, RequestUpload, Request
<1>9. ~(StartSync \/ GetHa \/ GetProton \/ GotProton \/ Decide \/ Create \/ Save)
  BY DEF StartSync, GetHa, GetProton, GotProton, Decide, Create, Save, Goto
<1>10. ASSUME \/ Pinned \/ Permit \/ Precache \/ World \/ UNCHANGED vars
              \/ \E b \in Backups : RequestPin(b)
       PROVE  Cardinality(Free') <= set'.maxProton
  <2>1. UNCHANGED run /\ mProton' = mProton /\ mPins \subseteq mPins'
    <3>1. CASE Pinned
      BY <3>1 DEF Pinned
    <3>2. CASE Permit \/ UNCHANGED vars \/ \E b \in Backups : RequestPin(b)
      BY <3>2 DEF Permit, RequestPin, vars, model
    <3>3. CASE Precache
      BY <3>3 DEF Precache, Warm, WarmRead, WarmStore, WarmExpires, model
    <3>4. CASE World
      BY <3>4 DEF World, ComesDue, MadeElsewhere, SignIn, SignOut, LostInHa, LostInProton, model
    <3> QED BY <1>10, <3>1, <3>2, <3>3, <3>4
  <2>2. pc \in {"postUpload", "finish"} /\ Free' \subseteq Free
    BY <2>1 DEF run, Free
  <2> QED BY <1>5, <2>2
<1> QED BY <1>4, <1>6, <1>7, <1>8, <1>9, <1>10 DEF Next, SyncStep, User

\* The safety half of RetentionConverges: a sync that comes to its end, whatever it
\* has made and uploaded, leaves the Model with no more copies in Proton Drive than
\* the settings keep (Model.sync lines 212-259).
THEOREM SyncEndsWithinLimit == Spec => EndsWithinLimit
<1>1. Init => LeftOK
  BY DEF Init, LeftOK
<1>2. Spec => []ChurnInv
  BY Invariance, ChurnInit, ChurnStep, PTL DEF Spec
<1>3. LeftOK /\ [Next]_vars =>
        [set.signOuts = 0 /\ set.maxProton # 0 /\ Finish =>
           Cardinality(mProton \ mPins) <= set.maxProton]_vars
  BY DEF LeftOK, Finish, Free
<1> QED BY <1>1, <1>2, <1>3, Invariance, LeftStep, PTL DEF Spec, EndsWithinLimit
=============================================================================
