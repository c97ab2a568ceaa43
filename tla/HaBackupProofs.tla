--------------------------- MODULE HaBackupProofs ---------------------------
(***************************************************************************)
(* That the add-on waits for one backup at a time, gives the mark and the  *)
(* note of a request to one backup, keeps the types of its variables and   *)
(* forgets no add-on that it stopped, for any add-ons and numbers of       *)
(* requests, backups, failures and restarts.                               *)
(***************************************************************************)
EXTENDS HaBackup, TLAPS, SequenceTheorems, FiniteSetTheorems

States == {"none", "requested", "complete", "failed", "subverted"}

\* A task that is in flight belongs to the pending backup, which is requested.
TasksOK ==
  /\ asked \in 0..MaxRequests
  /\ pending \in [id : Nat, state : States]
  /\ pending.state # "none" => pending.id \in Requests
  /\ task \in [Requests -> Tasks]
  /\ \A r \in Requests : InFlight(r) => pending.id = r /\ pending.state = "requested"

\* create has looked at the pending backup before it waits for the add-ons to
\* stop, and nothing makes it a request again meanwhile.
CreateOK ==
  /\ creating = "stopping" <=> lock = "stop"
  /\ creating = "stopping" =>
       asked < MaxRequests /\ pending.state \notin {"requested", "subverted"}
  /\ creating # "no" => sync # "listing"

\* What a data cache says of backups that are there.
RecordOK(c) ==
  /\ c \in [seen : SUBSET Nat, mine : SUBSET Nat, note : [Backups -> Nat], asked : Nat]
  /\ c.seen \subseteq have /\ c.mine \subseteq have

\* Home Assistant takes nothing back but the backup it is making, and the caches
\* know only of those that are done.
WorldOK ==
  /\ by \in Seq(-MaxRequests..MaxRequests) /\ job \in {0, Len(by)}
  /\ have \subseteq (1..Len(by)) \ {job} /\ listing \subseteq have
  /\ RecordOK(cache) /\ RecordOK(disk)

IInv == TasksOK /\ CreateOK /\ WorldOK

LEMMA Constants == MaxRequests \in Nat /\ Requests \subseteq Nat /\ 0 \notin Requests
BY BoundsAssumption DEF Requests

\* Initially nothing is asked for and nothing is known.
LEMMA InitOK == Init => IInv
<1> SUFFICES ASSUME Init PROVE IInv
  OBVIOUS
<1>1. TasksOK
  BY Constants DEF Init, TasksOK, NoPending, States, Tasks, InFlight
<1>2. CreateOK
  BY DEF Init, StopperInit, CreateOK
<1>3. WorldOK
  BY Constants DEF Init, WorldOK, RecordOK, NoCache
<1> QED
  BY <1>1, <1>2, <1>3 DEF IInv

-----------------------------------------------------------------------------
(* The caches                                                              *)

\* What Known makes of a cache: at most one more backup is marked, and then the
\* name it was asked by is forgotten.
LEMMA KnownOK ==
  ASSUME WorldOK, NEW c, RecordOK(c), NEW L, L \subseteq have, NEW k \in Known(c, L)
  PROVE  /\ RecordOK(k) /\ k.seen = c.seen \union L /\ k.note = c.note
         /\ \/ Matching(c, L) = {} /\ k.mine = c.mine /\ k.asked = c.asked
            \/ \E b \in Matching(c, L) : k.mine = c.mine \union {b} /\ k.asked = 0
<1> DEFINE listed == [c EXCEPT !.seen = @ \union L]
<1>1. have \subseteq Nat
  BY DEF WorldOK
<1>2. /\ listed \in [seen : SUBSET Nat, mine : SUBSET Nat, note : [Backups -> Nat], asked : Nat]
      /\ listed.seen = c.seen \union L /\ listed.mine = c.mine /\ listed.note = c.note
      /\ listed.asked = c.asked
  BY <1>1 DEF RecordOK
<1>3. \/ Matching(c, L) = {} /\ k = listed
      \/ \E b \in Matching(c, L) : k = [listed EXCEPT !.mine = @ \union {b}, !.asked = 0]
  BY DEF Known
<1>4. Matching(c, L) \subseteq have
  BY DEF Matching
<1> HIDE DEF listed
<1>5. CASE Matching(c, L) = {} /\ k = listed
  BY <1>2, <1>5 DEF RecordOK
<1>6. ASSUME NEW b \in Matching(c, L), k = [listed EXCEPT !.mine = @ \union {b}, !.asked = 0]
      PROVE  /\ RecordOK(k) /\ k.seen = c.seen \union L /\ k.note = c.note
             /\ k.mine = c.mine \union {b} /\ k.asked = 0
  <2>1. b \in have /\ b \in Nat
    BY <1>1, <1>4
  <2> QED
    BY <1>2, <1>6, <2>1 DEF RecordOK
<1> QED
  BY <1>3, <1>5, <1>6

\* A step that leaves the world alone keeps what a cache says of it.
LEMMA SameWorld ==
  ASSUME WorldOK, UNCHANGED <<by, job, have, cache, disk, listing>>
  PROVE  WorldOK'
BY DEF WorldOK, RecordOK

\* So does a backup that is begun: the others keep their numbers.
LEMMA Begun ==
  ASSUME WorldOK, job = 0, NEW r \in -MaxRequests..MaxRequests,
         by' = Append(by, r), job' = Len(by'), UNCHANGED <<have, cache, disk, listing>>
  PROVE  WorldOK'
<1>1. /\ by' \in Seq(-MaxRequests..MaxRequests) /\ Len(by') = Len(by) + 1
      /\ \A b \in 1..Len(by) : by'[b] = by[b]
  BY DEF WorldOK
<1>2. have \subseteq 1..Len(by) /\ have \subseteq (1..Len(by')) \ {job'}
  BY <1>1 DEF WorldOK
<1> QED
  BY <1>1, <1>2 DEF WorldOK, RecordOK

\* The last backup is taken away.
LEMMA Shortened ==
  ASSUME WorldOK, job # 0, by' = Front(by)
  PROVE  /\ Len(by) \in Nat /\ job = Len(by) /\ Len(by) # 0
         /\ by' \in Seq(-MaxRequests..MaxRequests) /\ Len(by') = Len(by) - 1
         /\ \A b \in 1..Len(by') : by'[b] = by[b]
<1> DEFINE n == Len(by) - 1
<1>1. Len(by) \in Nat /\ job = Len(by) /\ Len(by) # 0
  BY DEF WorldOK
<1>2. by' = SubSeq(by, 1, n)
  BY DEF Front
<1>3. n \in Nat /\ n < Len(by) /\ \A i \in 1..n : by[i] \in -MaxRequests..MaxRequests
  <2>1. n \in Nat /\ n < Len(by) /\ 1..n \subseteq 1..Len(by)
    BY <1>1
  <2>2. \A i \in 1..Len(by) : by[i] \in -MaxRequests..MaxRequests
    BY ElementOfSeq DEF WorldOK
  <2> QED
    BY <2>1, <2>2
<1> HIDE DEF n
<1>4. /\ SubSeq(by, 1, n) \in Seq(-MaxRequests..MaxRequests)
      /\ Len(SubSeq(by, 1, n)) = IF 1 <= n THEN n - 1 + 1 ELSE 0
      /\ \A i \in 1..(n - 1 + 1) : SubSeq(by, 1, n)[i] = by[1 + i - 1]
  BY <1>3, SubSeqProperties
<1>5. Len(by') = n
  BY <1>2, <1>3, <1>4
<1>6. \A i \in 1..n : by'[i] = by[i]
  BY <1>2, <1>3, <1>4
<1> QED
  BY <1>1, <1>2, <1>4, <1>5, <1>6 DEF n

\* ... and so does one that is given up.
LEMMA GivenUp ==
  ASSUME WorldOK, job # 0, job' = 0, by' = Front(by), UNCHANGED <<have, cache, disk, listing>>
  PROVE  WorldOK'
<1>1. /\ Len(by) \in Nat /\ job = Len(by) /\ Len(by) # 0
      /\ by' \in Seq(-MaxRequests..MaxRequests) /\ Len(by') = Len(by) - 1
      /\ \A b \in 1..Len(by') : by'[b] = by[b]
  BY Shortened
<1>2. have \subseteq 1..Len(by')
  BY <1>1 DEF WorldOK
<1> QED
  BY <1>1, <1>2 DEF WorldOK, RecordOK

-----------------------------------------------------------------------------
(* create                                                                  *)

\* What create leaves in the cache: got is the backup of the request, if it is
\* there already.
Returned(c, got) ==
  [c EXCEPT !.mine = @ \union got,
            !.note = [b \in Backups |-> IF b \in got THEN pending.id ELSE c.note[b]]]

LEMMA ReturnedOK ==
  ASSUME IInv, CreateReturns
  PROVE  \E got \in SUBSET have :
           \E k \in Known([cache EXCEPT !.asked = pending.id], got) :
             /\ \A b \in got : by[b] = pending.id /\ pending.state = "complete"
             /\ pending.state = "complete" => \A b \in have : by[b] = pending.id => b \in got
             /\ RecordOK([cache EXCEPT !.asked = pending.id]) /\ RecordOK(k)
             /\ cache' = Returned(k, got) /\ RecordOK(cache')
             /\ cache'.seen = k.seen /\ cache'.mine = k.mine \union got /\ cache'.asked = k.asked
             /\ \A b \in Backups : cache'.note[b] = IF b \in got THEN pending.id ELSE k.note[b]
<1> DEFINE made == IF pending.state = "complete" THEN MadeFor(pending.id) ELSE {}
           c    == [cache EXCEPT !.asked = pending.id]
           got  == made \cap have
<1>1. PICK k \in Known(c, got) : cache' = Returned(k, got)
  BY DEF CreateReturns, Returned
<1>2. pending.id \in Nat
  BY Constants DEF IInv, TasksOK
<1>3. RecordOK(c)
  BY <1>2 DEF IInv, WorldOK, RecordOK
<1>4. got \subseteq have /\ have \subseteq Nat
  BY DEF IInv, WorldOK
<1>5. /\ \A b \in got : by[b] = pending.id /\ pending.state = "complete"
      /\ pending.state = "complete" => \A b \in have : by[b] = pending.id => b \in got
  BY DEF MadeFor, IInv, WorldOK
<1> HIDE DEF made, c, got
<1>6. RecordOK(k)
  BY <1>1, <1>3, <1>4, KnownOK DEF IInv
<1>7. UNCHANGED have /\ UNCHANGED by
  BY DEF CreateReturns, ha
<1>8. [b \in Backups |-> IF b \in got THEN pending.id ELSE k.note[b]] \in [Backups -> Nat]
  BY <1>2, <1>6 DEF RecordOK
<1> DEFINE f == [b \in Backups |-> IF b \in got THEN pending.id ELSE k.note[b]]
<1>9. /\ Returned(k, got) \in [seen : SUBSET Nat, mine : SUBSET Nat, note : [Backups -> Nat], asked : Nat]
      /\ Returned(k, got).seen = k.seen /\ Returned(k, got).mine = k.mine \union got
      /\ Returned(k, got).note = f /\ Returned(k, got).asked = k.asked
  <2>1. Returned(k, got) = [k EXCEPT !.mine = @ \union got, !.note = f]
    BY DEF Returned
  <2>2. k.mine \union got \in SUBSET Nat /\ f \in [Backups -> Nat]
    BY <1>4, <1>6, <1>8 DEF RecordOK
  <2> HIDE DEF f
  <2> QED
    BY <1>6, <2>1, <2>2 DEF RecordOK
<1>10. /\ RecordOK(cache')
       /\ cache'.seen = k.seen /\ cache'.mine = k.mine \union got /\ cache'.asked = k.asked
       /\ \A b \in Backups : cache'.note[b] = IF b \in got THEN pending.id ELSE k.note[b]
  <2>1. \A b \in Backups : f[b] = IF b \in got THEN pending.id ELSE k.note[b]
    OBVIOUS
  <2> HIDE DEF f
  <2> QED
    BY <1>1, <1>4, <1>6, <1>7, <1>9, <2>1 DEF RecordOK
<1> QED
  BY <1>1, <1>3, <1>4, <1>5, <1>6, <1>10 DEF c

LEMMA CreateSteps ==
  ASSUME IInv, Create \/ CreateStep \/ CreateAborted
  PROVE  IInv'
<1> USE Constants DEF IInv
<1>1. CASE Create
  <2>1. WorldOK'
    BY <1>1, SameWorld DEF Create, ha, mem
  <2>2. TasksOK'
    BY <1>1 DEF Create, mem, TasksOK, InFlight
  <2>3. CreateOK'
    BY <1>1 DEF Create, mem, CreateOK, StopAddons
  <2> QED
    BY <2>1, <2>2, <2>3
<1>2. CASE Stopping
  <2>1. WorldOK'
    BY <1>2, SameWorld DEF Stopping, ha, mem, where
  <2>2. TasksOK'
    BY <1>2 DEF Stopping, mem, TasksOK, InFlight
  <2>3. CreateOK'
    BY <1>2 DEF Stopping, mem, where, CreateOK, StopStep, StopLook, StopOne
  <2> QED
    BY <2>1, <2>2, <2>3
<1>3. CASE Ask
  <2>1. creating = "stopping" /\ creating' = "waiting" /\ lock' = "free"
    BY <1>3 DEF Ask, StopSaves, CreateOK
  <2>2. /\ asked' = asked + 1 /\ asked' \in Requests
        /\ pending' = [id |-> asked', state |-> "requested"]
        /\ task' = [task EXCEPT ![asked'] = "sent"]
    BY <1>3, <2>1 DEF Ask, CreateOK, TasksOK, Requests
  <2>3. \A r \in Requests : ~InFlight(r)
    BY <2>1 DEF CreateOK, TasksOK
  <2>4. asked' \in 0..MaxRequests
    BY <2>2 DEF Requests
  <2>5. TasksOK'
    BY <2>2, <2>3, <2>4 DEF TasksOK, InFlight, States, Tasks
  <2>6. CreateOK'
    BY <1>3, <2>1 DEF Ask, CreateOK
  <2>7. WorldOK'
    BY <1>3, SameWorld DEF Ask, ha
  <2> QED
    BY <2>5, <2>6, <2>7
<1>4. CASE CreateRaises
  <2>1. WorldOK'
    BY <1>4, SameWorld DEF CreateRaises, ha, mem
  <2>2. TasksOK'
    BY <1>4 DEF CreateRaises, mem, TasksOK, InFlight
  <2>3. CreateOK'
    BY <1>4 DEF CreateRaises, mem, CreateOK, stopper, loop
  <2> QED
    BY <2>1, <2>2, <2>3
<1>5. CASE CreateReturns
  <2>1. /\ UNCHANGED <<by, job, have, disk, listing, asked, pending, task, lock>>
        /\ creating = "waiting" /\ creating' = "no"
    BY <1>5 DEF CreateReturns, ha, stopper, loop
  <2>2. RecordOK(cache')
    BY <1>5, ReturnedOK
  <2>3. WorldOK'
    BY <2>1, <2>2 DEF WorldOK, RecordOK
  <2>4. TasksOK' /\ CreateOK'
    BY <2>1 DEF TasksOK, InFlight, CreateOK
  <2> QED
    BY <2>3, <2>4
<1>6. CASE CreateAborted
  <2>1. WorldOK'
    BY <1>6, SameWorld DEF CreateAborted, ha, mem
  <2>2. TasksOK'
    BY <1>6 DEF CreateAborted, mem, TasksOK, InFlight
  <2>3. CreateOK'
    BY <1>6 DEF CreateAborted, CreateOK, StopAborted, stopper, loop
  <2> QED
    BY <2>1, <2>2, <2>3
<1> QED
  BY <1>1, <1>2, <1>3, <1>4, <1>5, <1>6 DEF CreateStep

-----------------------------------------------------------------------------
(* The task that waits for Home Assistant                                  *)

\* A task that is in flight settles its own backup, and is done with: create is
\* not between its look and its request then.
LEMMA Settled ==
  ASSUME IInv, NEW r \in Requests, InFlight(r), NEW s \in States \ {"none"},
         NEW t \in Tasks \ {"sent", "waiting"},
         task' = [task EXCEPT ![r] = t], Settle(r, s), asked' = asked
  PROVE  TasksOK' /\ creating # "stopping"
<1>1. pending.id = r /\ pending.state = "requested"
  BY DEF IInv, TasksOK
<1>2. creating # "stopping"
  BY <1>1 DEF IInv, CreateOK
<1>3. \A q \in Requests : ~InFlight(q)'
  BY <1>1 DEF IInv, TasksOK, InFlight
<1> QED
  BY <1>1, <1>2, <1>3 DEF IInv, TasksOK, Settle

LEMMA TaskSteps ==
  ASSUME IInv, NEW r \in Requests,
         HaAccepts(r) \/ HaRefuses(r) \/ Reply(r) \/ LogsRead(r) \/ RequestFails(r)
  PROVE  IInv'
<1> USE Constants DEF IInv
<1>1. CASE HaAccepts(r)
  <2>1. WorldOK'
    BY <1>1, Begun DEF HaAccepts, where, Requests
  <2>2. TasksOK'
    BY <1>1 DEF HaAccepts, TasksOK, InFlight, Tasks
  <2>3. CreateOK'
    BY <1>1 DEF HaAccepts, CreateOK, stopper, loop, where
  <2> QED
    BY <2>1, <2>2, <2>3
<1>2. CASE HaRefuses(r)
  <2>1. WorldOK'
    BY <1>2, SameWorld DEF HaRefuses, ha, where
  <2>2. TasksOK' /\ creating # "stopping"
    <3>1. /\ InFlight(r) /\ task' = [task EXCEPT ![r] = "logs"] /\ Settle(r, "subverted")
          /\ asked' = asked
      BY <1>2 DEF HaRefuses, InFlight
    <3> QED
      BY <3>1, Settled DEF States, Tasks
  <2>3. CreateOK'
    BY <1>2, <2>2 DEF HaRefuses, CreateOK, stopper, loop, where
  <2> QED
    BY <2>1, <2>2, <2>3
<1>3. CASE Reply(r)
  <2>1. WorldOK'
    BY <1>3, SameWorld DEF Reply, ha, where
  <2>2. TasksOK' /\ creating # "stopping"
    <3>1. /\ InFlight(r) /\ task' = [task EXCEPT ![r] = "done"] /\ Settle(r, "complete")
          /\ asked' = asked
      BY <1>3 DEF Reply, InFlight
    <3> QED
      BY <3>1, Settled DEF States, Tasks
  <2>3. CreateOK'
    BY <1>3, <2>2 DEF Reply, CreateOK, loop, where
  <2> QED
    BY <2>1, <2>2, <2>3
<1>4. CASE LogsRead(r)
  <2>1. WorldOK'
    BY <1>4, SameWorld DEF LogsRead, ha, where
  <2>2. TasksOK'
    BY <1>4 DEF LogsRead, TasksOK, InFlight, Tasks
  <2>3. CreateOK'
    BY <1>4 DEF LogsRead, CreateOK, loop, where
  <2> QED
    BY <2>1, <2>2, <2>3
<1>5. CASE RequestFails(r)
  <2>1. WorldOK'
    <3>1. UNCHANGED <<have, cache, disk, listing>>
      BY <1>5 DEF RequestFails, where
    <3>2. CASE UNCHANGED <<by, job>>
      BY <3>1, <3>2, SameWorld
    <3>3. CASE job # 0 /\ job' = 0 /\ by' = Front(by)
      BY <3>1, <3>3, GivenUp
    <3> QED
      BY <1>5, <3>2, <3>3 DEF RequestFails
  <2>2. TasksOK' /\ creating # "stopping"
    <3>1. /\ InFlight(r) /\ task' = [task EXCEPT ![r] = "logs"] /\ Settle(r, "failed")
          /\ asked' = asked
      BY <1>5 DEF RequestFails
    <3> QED
      BY <3>1, Settled DEF States, Tasks
  <2>3. CreateOK'
    BY <1>5, <2>2 DEF RequestFails, CreateOK, stopper, loop, where
  <2> QED
    BY <2>1, <2>2, <2>3
<1> QED
  BY <1>1, <1>2, <1>3, <1>4, <1>5

-----------------------------------------------------------------------------
(* The sync                                                                *)

\* Dropping the pending backup ends its task, the only one in flight.
LEMMA Killed == ASSUME TasksOK, Kill, asked' = asked PROVE TasksOK'
BY Constants DEF TasksOK, Kill, NoPending, InFlight, States, Tasks

\* What get leaves in the cache: the note goes to the backup of the request, or to
\* the newest of all.
NoteGiven(k, b) == IF pending.state = "subverted" THEN k ELSE [k EXCEPT !.note[b] = pending.id]

LEMMA ProcessedOK ==
  ASSUME IInv, Process
  PROVE  \E k \in Known(cache, listing) :
           /\ RecordOK(k) /\ RecordOK(cache') /\ cache'.seen = k.seen /\ cache'.mine = k.mine
           /\ cache'.asked = k.asked
           /\ \/ cache' = k /\ (Kill \/ UNCHANGED <<pending, task, flags>>)
              \/ \E b : /\ Kill /\ cache' = NoteGiven(k, b) /\ pending.id # 0
                       /\ \/ pending.state = "complete" /\ b = Max(MadeFor(pending.id))
                          \/ ~(pending.state = "complete" /\ MadeFor(pending.id) \subseteq listing)
<1>1. PICK k \in Known(cache, listing) :
        \/ cache' = k /\ (Kill \/ UNCHANGED <<pending, task, flags>>)
        \/ \E b : /\ Kill /\ cache' = NoteGiven(k, b) /\ pending.id # 0
                 /\ \/ pending.state = "complete" /\ b = Max(MadeFor(pending.id))
                    \/ ~(pending.state = "complete" /\ MadeFor(pending.id) \subseteq listing)
  <2>1. pending.state = "complete" => pending.id # 0
    BY Constants DEF IInv, TasksOK
  <2> QED
    BY <2>1 DEF Process, NoteGiven
<1>2. RecordOK(k)
  BY KnownOK DEF IInv, WorldOK
<1>3. pending.id \in Nat /\ UNCHANGED have
  BY DEF Process, ha, IInv, TasksOK
<1>4. ASSUME NEW b
      PROVE  /\ NoteGiven(k, b) \in [seen : SUBSET Nat, mine : SUBSET Nat, note : [Backups -> Nat], asked : Nat]
             /\ NoteGiven(k, b).seen = k.seen /\ NoteGiven(k, b).mine = k.mine /\ NoteGiven(k, b).asked = k.asked
  BY <1>2, <1>3 DEF NoteGiven, RecordOK
<1>5. /\ RecordOK(cache') /\ cache'.seen = k.seen /\ cache'.mine = k.mine
      /\ cache'.asked = k.asked
  <2>1. CASE cache' = k
    BY <1>2, <1>3, <2>1 DEF RecordOK
  <2>2. CASE \E b : cache' = NoteGiven(k, b)
    BY <1>2, <1>3, <1>4, <2>2 DEF RecordOK
  <2> QED
    BY <1>1, <2>1, <2>2
<1> QED
  BY <1>1, <1>2, <1>5

LEMMA SyncSteps ==
  ASSUME IInv, StartSync \/ Process \/ EndSync \/ SyncFails
  PROVE  IInv'
<1> USE Constants DEF IInv
<1>1. CASE StartSync
  <2>1. WorldOK'
    BY <1>1 DEF StartSync, ha, mem, WorldOK, RecordOK
  <2>2. TasksOK' /\ CreateOK'
    BY <1>1 DEF StartSync, mem, TasksOK, InFlight, CreateOK, stopper, loop
  <2> QED
    BY <2>1, <2>2
<1>2. CASE Process
  <2>1. /\ UNCHANGED <<by, job, have, disk, asked, creating, lock>>
        /\ sync = "listing" /\ sync' = "on" /\ listing' = {}
    BY <1>2 DEF Process, ha, loop
  <2>6. RecordOK(cache')
    BY <1>2, ProcessedOK
  <2>7. WorldOK'
    BY <2>1, <2>6 DEF WorldOK, RecordOK
  <2>8. Kill \/ UNCHANGED <<pending, task>>
    BY <1>2 DEF Process
  <2>9. TasksOK'
    BY <2>1, <2>8, Killed DEF TasksOK, InFlight
  <2>10. creating = "no"
    BY <2>1 DEF CreateOK
  <2>11. CreateOK'
    BY <2>1, <2>10 DEF CreateOK
  <2> QED
    BY <2>7, <2>9, <2>11
<1>3. CASE EndSync
  <2>1. WorldOK'
    BY <1>3 DEF EndSync, ha, mem, WorldOK, RecordOK
  <2>2. TasksOK' /\ CreateOK'
    BY <1>3 DEF EndSync, mem, TasksOK, InFlight, CreateOK, loop
  <2> QED
    BY <2>1, <2>2
<1>4. CASE SyncFails
  <2>1. WorldOK'
    BY <1>4 DEF SyncFails, ha, mem, WorldOK, RecordOK
  <2>2. TasksOK' /\ CreateOK'
    BY <1>4 DEF SyncFails, mem, TasksOK, InFlight, CreateOK, stopper, loop
  <2> QED
    BY <2>1, <2>2
<1> QED
  BY <1>1, <1>2, <1>3, <1>4

-----------------------------------------------------------------------------
(* The timer, the supervisor, other programs and restarts                  *)

\* The add-on stopper's own steps change the lock at most between "free",
\* "start" and "watch".
LEMMA StopperSteps ==
  ASSUME IInv, CheckBegins \/ CheckGoesOn \/ EarlyEnds \/ SupervisorFails
  PROVE  IInv'
<1>1. UNCHANGED <<by, job, have, cache, disk, listing, asked, pending, task, creating, sync>>
  BY DEF CheckBegins, CheckGoesOn, EarlyEnds, SupervisorFails, rest, ha, mem, where
<1>2. WorldOK' /\ TasksOK'
  BY <1>1, SameWorld DEF IInv, TasksOK, InFlight
<1>3. lock' = "stop" <=> lock = "stop"
  BY DEF CheckBegins, CheckGoesOn, EarlyEnds, SupervisorFails, Check, CheckStep, CheckStart,
         CheckWatch, CheckTurns, CheckSaves, TimePasses, loop, Failure, StopLookFails,
         CheckStartFails, CheckWatchFails, StopOneFails
<1> QED
  BY <1>1, <1>2, <1>3 DEF IInv, CreateOK

LEMMA WorldSteps ==
  ASSUME IInv, World \/ Crash
  PROVE  IInv'
<1> USE Constants DEF IInv
<1>1. CASE OtherAsks
  <2>1. WorldOK'
    <3>1. PICK r \in OtherNames : by' = Append(by, -r)
      BY <1>1 DEF OtherAsks
    <3>2. job = 0 /\ job' = Len(by') /\ UNCHANGED <<have, cache, disk, listing>>
      BY <1>1 DEF OtherAsks, mem, where
    <3>3. -r \in -MaxRequests..MaxRequests
      BY NamesAssumption
    <3> QED
      BY <3>1, <3>2, <3>3, Begun
  <2>2. TasksOK' /\ CreateOK'
    BY <1>1 DEF OtherAsks, mem, where, stopper, loop, TasksOK, InFlight, CreateOK
  <2> QED
    BY <2>1, <2>2
<1>2. CASE HaFinishes
  <2>1. WorldOK'
    BY <1>2 DEF HaFinishes, mem, where, WorldOK, RecordOK
  <2>2. TasksOK' /\ CreateOK'
    BY <1>2 DEF HaFinishes, mem, where, stopper, loop, TasksOK, InFlight, CreateOK
  <2> QED
    BY <2>1, <2>2
<1>3. CASE Crash
  <2>1. WorldOK'
    BY <1>3 DEF Crash, ha, WorldOK, RecordOK
  <2>2. TasksOK'
    BY <1>3 DEF Crash, TasksOK, NoPending, InFlight, States, Tasks
  <2>3. CreateOK'
    BY <1>3 DEF Crash, StopperRestarts, CreateOK
  <2> QED
    BY <2>1, <2>2, <2>3
<1> QED
  BY <1>1, <1>2, <1>3 DEF World

-----------------------------------------------------------------------------
\* create, get and the task of each request keep the invariant (lines 193-239,
\* 271-328 and 508-532 of ha/hasource.py).
THEOREM Invariance == Spec => []IInv
<1>1. IInv /\ [Next]_vars => IInv'
  <2> SUFFICES ASSUME IInv, [Next]_vars PROVE IInv'
    OBVIOUS
  <2>1. CASE UNCHANGED vars
    BY <2>1, SameWorld DEF IInv, TasksOK, CreateOK, InFlight, vars, stopper, loop, ha, mem, where
  <2>2. CASE Next
    BY <2>2, CreateSteps, TaskSteps, SyncSteps, StopperSteps, WorldSteps DEF Next, TaskStep
  <2> QED
    BY <2>1, <2>2
<1> QED
  BY InitOK, <1>1, PTL DEF Spec

\* At any time at most one request is in flight, the pending one: a second is
\* not sent while the first may still be answered.
THEOREM RequestsAreAlone == Spec => []OneRequest
<1>1. IInv => OneRequest
  BY DEF IInv, TasksOK, OneRequest
<1> QED
  BY <1>1, Invariance, PTL

-----------------------------------------------------------------------------
(* The types of the add-on stopper                                         *)

\* Only stopAddons is ever in the middle of stopping one.
StopperOK == StopperTypeOK /\ (lock # "stop" => cur = {})

LEMMA StopperInitOK == StopperInit => StopperOK
<1> SUFFICES ASSUME StopperInit PROVE StopperOK
  OBVIOUS
<1>1. {running, watchdog, mustStart, mustWatch, todo, gaveUp} \subseteq SUBSET Addons
  BY WatchedAssumption DEF StopperInit
<1>2. saved \in [start : SUBSET Addons, watchdog : SUBSET Addons]
  BY DEF StopperInit
<1>3. {backingUp, allowed, early, changed} \subseteq BOOLEAN
  BY DEF StopperInit
<1> QED
  BY <1>1, <1>2, <1>3 DEF StopperInit, StopperOK, StopperTypeOK

\* What a step of the whole does to the add-on stopper.
Starting == StartAddons /\ UNCHANGED <<addons, notes, loop>>
Allowing == \E busy \in BOOLEAN :
              AllowRun(busy) /\ UNCHANGED <<addons, mustWatch, saved, loop>>
StopperRuns == \/ StopAddons \/ StopStep \/ StopSaves \/ Starting \/ Allowing
               \/ Check \/ CheckStep \/ TimePasses \/ UNCHANGED stopper
StopperMoves == StopperRuns \/ ((Failure \/ StopAborted \/ StopperRestarts) /\ Fault)

LEMMA NextMovesStopper == Next => StopperMoves
<1> SUFFICES ASSUME Next PROVE StopperMoves
  OBVIOUS
<1>1. CASE Create
  BY <1>1 DEF Create, StopperMoves, StopperRuns
<1>2. CASE CreateStep
  BY <1>2 DEF CreateStep, Stopping, Ask, CreateRaises, CreateReturns, StopperMoves, StopperRuns
<1>3. CASE CreateAborted
  <2>1. CASE creating = "stopping"
    BY <1>3, <2>1 DEF CreateAborted, StopperMoves
  <2>2. CASE creating # "stopping"
    BY <1>3, <2>2 DEF CreateAborted, StopperMoves, StopperRuns
  <2> QED
    BY <2>1, <2>2
<1>4. ASSUME NEW r \in Requests,
             HaAccepts(r) \/ HaRefuses(r) \/ Reply(r) \/ LogsRead(r) \/ RequestFails(r)
      PROVE  StopperMoves
  BY <1>4 DEF HaAccepts, HaRefuses, Reply, LogsRead, RequestFails, Starting, StopperMoves, StopperRuns
<1>5. CASE StartSync \/ SyncFails
  BY <1>5 DEF StartSync, SyncFails, StopperMoves, StopperRuns
<1>6. CASE Process
  <2>1. UNCHANGED <<addons, notes, loop>> /\ (Kill \/ UNCHANGED flags)
    BY <1>6 DEF Process
  <2>2. StartAddons \/ UNCHANGED flags
    BY <2>1 DEF Kill
  <2> QED
    BY <2>1, <2>2 DEF Starting, StopperMoves, StopperRuns, stopper
<1>7. CASE EndSync
  <2>1. (pending.id # 0) \in BOOLEAN
    OBVIOUS
  <2> QED
    BY <1>7, <2>1 DEF EndSync, Allowing, StopperMoves, StopperRuns
<1>8. CASE CheckBegins \/ CheckGoesOn \/ EarlyEnds \/ SupervisorFails
  BY <1>8 DEF CheckBegins, CheckGoesOn, EarlyEnds, SupervisorFails, StopperMoves, StopperRuns
<1>9. CASE World \/ Crash
  BY <1>9 DEF World, OtherAsks, HaFinishes, Crash, StopperMoves, StopperRuns
<1> QED
  BY <1>1, <1>2, <1>3, <1>4, <1>5, <1>6, <1>7, <1>8, <1>9 DEF Next, TaskStep

LEMMA StopperStep == ASSUME StopperOK, StopperMoves PROVE StopperOK'
<1> USE DEF StopperOK, StopperTypeOK, addons, notes, flags, loop
<1>1. ASSUME StopAddons PROVE StopperOK'
  BY <1>1 DEF StopAddons
<1>2. ASSUME NEW s \in Addons, StopLook(s) \/ StopLookFails(s) PROVE StopperOK'
  <2>1. CASE StopLook(s)
    BY <2>1 DEF StopLook
  <2>2. CASE StopLookFails(s)
    BY <2>2 DEF StopLookFails, OffUnnoted
  <2> QED
    BY <1>2, <2>1, <2>2
<1>3. ASSUME StopOne \/ StopOneFails PROVE StopperOK'
  BY <1>3 DEF StopOne, StopOneFails, OffUnnoted
<1>4. ASSUME StopSaves PROVE StopperOK'
  BY <1>4 DEF StopSaves, Memory
<1>5. ASSUME StopAborted PROVE StopperOK'
  BY <1>5 DEF StopAborted, OffUnnoted
<1>6. ASSUME Starting PROVE StopperOK'
  BY <1>6 DEF Starting, StartAddons
<1>7. ASSUME Allowing PROVE StopperOK'
  BY <1>7 DEF Allowing, AllowRun
<1>8. ASSUME Check \/ CheckTurns PROVE StopperOK'
  BY <1>8 DEF Check, CheckTurns
<1>9. ASSUME NEW s \in Addons, CheckStart(s) \/ CheckStartFails(s) PROVE StopperOK'
  BY <1>9 DEF CheckStart, CheckStartFails
<1>10. ASSUME NEW s \in Addons, CheckWatch(s) \/ CheckWatchFails(s) PROVE StopperOK'
  <2>1. CASE CheckWatch(s) /\ s \in mustStart
    BY <2>1 DEF CheckWatch
  <2>2. CASE CheckWatch(s) /\ s \notin mustStart
    BY <2>2 DEF CheckWatch
  <2>3. CASE CheckWatchFails(s)
    BY <2>3 DEF CheckWatchFails
  <2> QED
    BY <1>10, <2>1, <2>2, <2>3
<1>11. ASSUME CheckSaves PROVE StopperOK'
  BY <1>11 DEF CheckSaves, Memory
<1>12. ASSUME TimePasses \/ StopperRestarts PROVE StopperOK'
  <2>1. CASE TimePasses
    BY <2>1 DEF TimePasses
  <2>2. CASE StopperRestarts
    BY <2>2 DEF StopperRestarts
  <2> QED
    BY <1>12, <2>1, <2>2
<1>13. ASSUME UNCHANGED stopper PROVE StopperOK'
  BY <1>13 DEF stopper
<1> QED
  BY <1>1, <1>2, <1>3, <1>4, <1>5, <1>6, <1>7, <1>8, <1>9, <1>10, <1>11, <1>12, <1>13
     DEF StopperMoves, StopperRuns, StopStep, CheckStep, Failure

-----------------------------------------------------------------------------
(* The numbers of the requests                                             *)

Unasked == {b \in 1..Len(by) : by[b] <= 0}

\* A request is made once: Home Assistant has at most one backup of each, none
\* of one that is still to arrive, and no more than MaxOthers of other programs.
RequestsOK ==
  /\ pending.id <= asked
  /\ \A b \in 1..Len(by) : by[b] <= asked
  /\ \A b, c \in 1..Len(by) : by[b] = by[c] /\ by[b] > 0 => b = c
  /\ \A r \in Requests : task[r] = "sent" => r <= asked /\ \A b \in 1..Len(by) : by[b] # r
  /\ Cardinality(Unasked) <= MaxOthers

\* The caches name requests that were made.
NotesOK(c) ==
  c.mine \subseteq c.seen /\ c.note \in [Backups -> 0..asked] /\ c.asked \in 0..asked

CachesOK == NotesOK(cache) /\ NotesOK(disk) /\ lastSlugs \subseteq have

\* The Len(by) backups and what each says.
LEMMA Listed ==
  ASSUME WorldOK
  PROVE  /\ Len(by) \in Nat /\ \A b \in 1..Len(by) : by[b] \in -MaxRequests..MaxRequests
         /\ IsFiniteSet(Unasked) /\ Cardinality(Unasked) \in Nat
<1>1. Len(by) \in Nat /\ \A b \in 1..Len(by) : by[b] \in -MaxRequests..MaxRequests
  <2>1. Len(by) \in Nat
    BY DEF WorldOK
  <2>2. \A b \in 1..Len(by) : by[b] \in -MaxRequests..MaxRequests
    BY ElementOfSeq DEF WorldOK
  <2> QED
    BY <2>1, <2>2
<1>2. IsFiniteSet(1..Len(by)) /\ Unasked \in SUBSET (1..Len(by))
  BY <1>1, FS_Interval DEF Unasked
<1>3. IsFiniteSet(Unasked)
  BY <1>2, FS_Subset
<1> QED
  BY <1>1, <1>3, FS_CardinalityType

\* Hence there are no more backups than the bounds allow.
LEMMA FewBackups ==
  ASSUME WorldOK, RequestsOK
  PROVE  Len(by) <= MaxRequests + MaxOthers
<1> DEFINE Own == {b \in 1..Len(by) : by[b] > 0}
<1>1. MaxRequests \in Nat /\ MaxOthers \in Nat
  BY BoundsAssumption
<1>2. /\ IsFiniteSet(1..Len(by)) /\ Cardinality(1..Len(by)) = Len(by)
      /\ IsFiniteSet(1..MaxRequests) /\ Cardinality(1..MaxRequests) = MaxRequests
  <2>1. ASSUME NEW n \in Nat PROVE IsFiniteSet(1..n) /\ Cardinality(1..n) = n
    <3>1. IsFiniteSet(1..n) /\ Cardinality(1..n) = IF 1 > n THEN 0 ELSE n - 1 + 1
      BY FS_Interval
    <3> QED
      BY <3>1
  <2> QED
    BY <1>1, <2>1, Listed
<1>3. IsFiniteSet(Own) /\ Cardinality(Own) \in Nat
  <2>1. Own \in SUBSET (1..Len(by))
    OBVIOUS
  <2>2. IsFiniteSet(Own)
    BY <1>2, <2>1, FS_Subset
  <2> QED
    BY <2>2, FS_CardinalityType
<1>4. Cardinality(Own) <= MaxRequests
  <2> DEFINE of == [b \in Own |-> by[b]]
  <2>1. of \in [Own -> 1..MaxRequests]
    <3>1. ASSUME NEW b \in Own PROVE by[b] \in 1..MaxRequests
      <4>1. by[b] \in -MaxRequests..MaxRequests /\ by[b] > 0
        BY Listed
      <4> QED
        BY <1>1, <4>1
    <3> QED
      BY <3>1
  <2>2. \A x, y \in Own : of[x] = of[y] => x = y
    BY DEF RequestsOK
  <2> HIDE DEF of, Own
  <2>3. ASSUME Cardinality(1..MaxRequests) < Cardinality(Own) PROVE FALSE
    <3> DEFINE T == 1..MaxRequests
    <3>1. IsFiniteSet(T) /\ Cardinality(T) < Cardinality(Own) /\ of \in [Own -> T]
      BY <1>2, <2>1, <2>3
    <3> HIDE DEF T
    <3>2. \E x, y \in Own : x # y /\ of[x] = of[y]
      BY <1>3, <3>1, FS_PigeonHole
    <3> QED
      BY <2>2, <3>2
  <2> QED
    BY <1>1, <1>2, <1>3, <2>3
<1>5. Unasked \union Own = 1..Len(by) /\ Unasked \cap Own = {}
  BY Listed, <1>1 DEF Unasked
<1> HIDE DEF Own
<1>6. Cardinality(Unasked \union Own) =
        Cardinality(Unasked) + Cardinality(Own) - Cardinality(Unasked \cap Own)
  BY <1>3, Listed, FS_Union
<1>7. Len(by) = Cardinality(Unasked) + Cardinality(Own)
  <2>1. Cardinality(Unasked \cap Own) = 0
    BY <1>5, FS_EmptySet
  <2>2. Len(by) = Cardinality(Unasked \union Own)
    BY <1>2, <1>5
  <2> QED
    BY <1>3, <1>6, <2>1, <2>2, Listed
<1>8. Cardinality(Unasked) <= MaxOthers
  BY DEF RequestsOK
<1> QED
  BY <1>1, <1>3, <1>4, <1>7, <1>8, Listed

LEMMA NumbersInit == Init => RequestsOK /\ CachesOK
<1> SUFFICES ASSUME Init PROVE RequestsOK /\ CachesOK
  OBVIOUS
<1>1. MaxRequests \in Nat /\ MaxOthers \in Nat
  BY BoundsAssumption
<1>2. by = <<>> /\ Unasked = {} /\ asked = 0
  BY DEF Init, Unasked
<1>3. Cardinality(Unasked) = 0
  BY <1>2, FS_EmptySet
<1>4. NotesOK(NoCache)
  BY <1>2 DEF NotesOK, NoCache
<1>5. RequestsOK
  BY <1>1, <1>2, <1>3 DEF Init, RequestsOK, NoPending
<1> QED
  BY <1>4, <1>5 DEF Init, CachesOK

-----------------------------------------------------------------------------
(* Their steps                                                             *)

\* Nothing is asked for, and Home Assistant begins and drops none.
LEMMA SameRequests ==
  ASSUME IInv, RequestsOK, UNCHANGED <<by, asked>>, pending'.id \in {pending.id, 0},
         \A r \in Requests : task'[r] = "sent" => task[r] = "sent"
  PROVE  RequestsOK'
BY DEF IInv, TasksOK, RequestsOK, Unasked

\* A backup is begun for a request that has none, or for another program.
LEMMA MoreRequests ==
  ASSUME IInv, RequestsOK, NEW r \in -MaxRequests..asked, by' = Append(by, r),
         r > 0 => \A b \in 1..Len(by) : by[b] # r,
         r <= 0 => Cardinality(Unasked) < MaxOthers,
         UNCHANGED <<asked, pending>>,
         \A q \in Requests : task'[q] = "sent" => task[q] = "sent" /\ q # r
  PROVE  RequestsOK'
<1>1. /\ Len(by) \in Nat /\ Len(by') = Len(by) + 1 /\ by'[Len(by) + 1] = r
      /\ \A b \in 1..Len(by) : by'[b] = by[b]
  BY DEF IInv, WorldOK
<1>2. 1..Len(by') = 1..Len(by) \union {Len(by) + 1} /\ Len(by) + 1 \notin 1..Len(by)
  BY <1>1
<1>3. Cardinality(Unasked') <= MaxOthers
  <2>1. CASE r <= 0
    <3>1. Unasked' = Unasked \union {Len(by) + 1} /\ Len(by) + 1 \notin Unasked
      BY <1>1, <1>2, <2>1 DEF Unasked
    <3>2. Cardinality(Unasked') = Cardinality(Unasked) + 1
      BY <3>1, Listed, FS_AddElement DEF IInv
    <3> QED
      BY <2>1, <3>2, Listed, BoundsAssumption DEF IInv
  <2>2. CASE r > 0
    <3>1. Unasked' = Unasked
      BY <1>1, <1>2, <2>2 DEF Unasked
    <3> QED
      BY <3>1 DEF RequestsOK
  <2> QED
    BY <2>1, <2>2
<1>4. asked \in Nat
  BY DEF IInv, TasksOK
<1> QED
  BY <1>1, <1>2, <1>3, <1>4 DEF RequestsOK

\* The backup that is given up was one of a request.
LEMMA FewerRequests ==
  ASSUME IInv, RequestsOK, job # 0, by[job] > 0, by' = Front(by),
         UNCHANGED asked, pending'.id = pending.id,
         \A q \in Requests : task'[q] = "sent" => task[q] = "sent"
  PROVE  RequestsOK'
<1>1. /\ Len(by) \in Nat /\ job = Len(by) /\ Len(by) # 0 /\ Len(by') = Len(by) - 1
      /\ \A b \in 1..Len(by') : by'[b] = by[b]
  BY Shortened DEF IInv
<1>2. 1..Len(by) = 1..Len(by') \union {job}
  BY <1>1
<1>3. Unasked' = Unasked
  BY <1>1, <1>2, Listed, Constants DEF Unasked, IInv
<1> QED
  BY <1>1, <1>2, <1>3 DEF RequestsOK

\* A task that goes on or ends does not send again.
LEMMA TaskRequests ==
  ASSUME IInv, RequestsOK, NEW r \in Requests,
         HaAccepts(r) \/ HaRefuses(r) \/ Reply(r) \/ LogsRead(r) \/ RequestFails(r)
  PROVE  RequestsOK'
<1>1. CASE HaAccepts(r)
  <2>1. r \in -MaxRequests..asked /\ r > 0 /\ \A b \in 1..Len(by) : by[b] # r
    BY <1>1, Constants DEF HaAccepts, RequestsOK, IInv, TasksOK
  <2>2. \A q \in Requests : task'[q] = "sent" => task[q] = "sent" /\ q # r
    BY <1>1 DEF HaAccepts, IInv, TasksOK
  <2> QED
    BY <1>1, <2>1, <2>2, MoreRequests DEF HaAccepts
<1>2. ASSUME NEW s \in Tasks \ {"sent"}, task' = [task EXCEPT ![r] = s],
             UNCHANGED <<by, asked>>, pending'.id = pending.id
      PROVE  RequestsOK'
  <2>1. \A q \in Requests : task'[q] = "sent" => task[q] = "sent"
    BY <1>2 DEF IInv, TasksOK
  <2> QED
    BY <1>2, <2>1, SameRequests
<1>3. \A s : Settle(r, s) => pending'.id = pending.id
  BY DEF Settle, IInv, TasksOK
<1>4. CASE HaRefuses(r)
  BY <1>2, <1>3, <1>4 DEF HaRefuses, ha, Tasks
<1>5. CASE Reply(r)
  BY <1>2, <1>3, <1>5 DEF Reply, ha, Tasks
<1>6. CASE LogsRead(r)
  BY <1>2, <1>6 DEF LogsRead, ha, Tasks
<1>7. CASE RequestFails(r)
  <2>1. task' = [task EXCEPT ![r] = "logs"] /\ UNCHANGED asked /\ pending'.id = pending.id
    BY <1>3, <1>7 DEF RequestFails
  <2>2. CASE UNCHANGED <<by, job>>
    BY <1>2, <2>1, <2>2 DEF Tasks
  <2>3. CASE job # 0 /\ by[job] = r /\ by' = Front(by)
    <3>1. \A q \in Requests : task'[q] = "sent" => task[q] = "sent"
      BY <2>1 DEF IInv, TasksOK
    <3> QED
      BY <2>1, <2>3, <3>1, Constants, FewerRequests
  <2> QED
    BY <1>7, <2>2, <2>3 DEF RequestFails
<1> QED
  BY <1>1, <1>4, <1>5, <1>6, <1>7

\* A new request has a number that Home Assistant has not seen.
LEMMA AskRequests == ASSUME IInv, RequestsOK, Ask PROVE RequestsOK'
<1>1. /\ asked' = asked + 1 /\ asked \in Nat /\ pending'.id = asked' /\ UNCHANGED by
      /\ task' = [task EXCEPT ![asked'] = "sent"]
  BY DEF Ask, ha, IInv, TasksOK
<1>2. \A b \in 1..Len(by) : by[b] <= asked /\ by[b] \in Int
  BY Listed, Constants DEF IInv, RequestsOK
<1>3. \A r \in Requests : task'[r] = "sent" => r = asked' \/ task[r] = "sent"
  BY <1>1 DEF IInv, TasksOK
<1>4. Unasked' = Unasked
  BY <1>1 DEF Unasked
<1> QED
  BY <1>1, <1>2, <1>3, <1>4, Constants DEF RequestsOK

LEMMA RequestsStep == ASSUME IInv, RequestsOK, [Next]_vars PROVE RequestsOK'
<1>1. ASSUME UNCHANGED <<by, asked, pending, task>> PROVE RequestsOK'
  BY <1>1, SameRequests
<1>2. CASE UNCHANGED vars
  BY <1>1, <1>2 DEF vars, ha, mem
<1>3. CASE Create \/ Stopping \/ CreateRaises \/ CreateReturns \/ CreateAborted
  BY <1>1, <1>3 DEF Create, Stopping, CreateRaises, CreateReturns, CreateAborted, ha, mem
<1>4. CASE Ask
  BY <1>4, AskRequests
<1>5. ASSUME NEW r \in Requests,
             HaAccepts(r) \/ HaRefuses(r) \/ Reply(r) \/ LogsRead(r) \/ RequestFails(r)
      PROVE  RequestsOK'
  BY <1>5, TaskRequests
<1>6. CASE StartSync \/ EndSync \/ SyncFails
  BY <1>1, <1>6 DEF StartSync, EndSync, SyncFails, ha, mem
<1>7. CASE Process
  <2>1. UNCHANGED <<by, asked>> /\ (Kill \/ UNCHANGED <<pending, task>>)
    BY <1>7 DEF Process, ha
  <2>2. CASE Kill
    <3>1. pending'.id = 0 /\ \A r \in Requests : task'[r] = "sent" => task[r] = "sent"
      BY <2>2 DEF Kill, NoPending, IInv, TasksOK
    <3> QED
      BY <2>1, <3>1, SameRequests
  <2> QED
    BY <1>1, <2>1, <2>2
<1>8. CASE CheckBegins \/ CheckGoesOn \/ EarlyEnds \/ SupervisorFails
  BY <1>1, <1>8 DEF CheckBegins, CheckGoesOn, EarlyEnds, SupervisorFails, rest, ha, mem
<1>9. CASE OtherAsks
  <2>1. PICK r \in OtherNames : by' = Append(by, -r)
    BY <1>9 DEF OtherAsks
  <2>2. Cardinality(Unasked) < MaxOthers /\ UNCHANGED <<asked, pending, task>>
    BY <1>9 DEF OtherAsks, mem, Unasked
  <2>3. -r \in -MaxRequests..asked /\ -r <= 0
    BY NamesAssumption, Constants DEF IInv, TasksOK
  <2>4. \A q \in Requests : task'[q] = "sent" => task[q] = "sent" /\ q # -r
    BY <2>2, <2>3 DEF Requests
  <2> QED
    BY <2>1, <2>2, <2>3, <2>4, MoreRequests
<1>10. CASE HaFinishes
  BY <1>1, <1>10 DEF HaFinishes, mem
<1>11. CASE Crash
  <2>1. /\ UNCHANGED <<by, asked>> /\ pending'.id = 0
        /\ \A r \in Requests : task'[r] = "none"
    BY <1>11 DEF Crash, ha, NoPending
  <2> QED
    BY <2>1, SameRequests
<1> QED
  BY <1>2, <1>3, <1>4, <1>5, <1>6, <1>7, <1>8, <1>9, <1>10, <1>11
     DEF Next, CreateStep, TaskStep, World

-----------------------------------------------------------------------------
(* What the caches name, and the rest of the types                         *)

\* Known takes no number from elsewhere.
LEMMA KnownNotes ==
  ASSUME WorldOK, NEW c, RecordOK(c), NotesOK(c), NEW L, L \subseteq have, asked \in Nat,
         NEW k \in Known(c, L)
  PROVE  NotesOK(k)
<1>1. Matching(c, L) \subseteq L /\ 0 \in 0..asked
  BY DEF Matching
<1> QED
  BY <1>1, KnownOK DEF NotesOK

\* More requests and backups take nothing from what the caches say.
LEMMA SameCaches ==
  ASSUME CachesOK, UNCHANGED <<cache, disk, lastSlugs>>, asked \in Nat, asked' \in Nat,
         asked <= asked', have \subseteq have'
  PROVE  CachesOK'
<1>1. 0..asked \subseteq 0..asked'
  OBVIOUS
<1>2. [Backups -> 0..asked] \subseteq [Backups -> 0..asked']
  BY <1>1
<1> QED
  BY <1>1, <1>2 DEF CachesOK, NotesOK

LEMMA CachesStep == ASSUME IInv, RequestsOK, CachesOK, [Next]_vars PROVE CachesOK'
<1>0. asked \in Nat /\ pending.id \in 0..asked
  BY DEF IInv, TasksOK, RequestsOK
<1>1. ASSUME UNCHANGED <<cache, disk, lastSlugs>>, asked' \in {asked, asked + 1},
             have \subseteq have'
      PROVE  CachesOK'
  BY <1>0, <1>1, SameCaches
<1>2. CASE UNCHANGED vars
  BY <1>1, <1>2 DEF vars, ha, mem
<1>3. CASE Create \/ Stopping \/ CreateRaises \/ CreateAborted
  BY <1>1, <1>3 DEF Create, Stopping, CreateRaises, CreateAborted, ha, mem
<1>4. CASE Ask
  BY <1>1, <1>4 DEF Ask, ha
<1>5. CASE CreateReturns
  <2> DEFINE c == [cache EXCEPT !.asked = pending.id]
  <2>1. PICK got \in SUBSET have : \E k \in Known(c, got) :
          /\ RecordOK(c) /\ RecordOK(k) /\ cache' = Returned(k, got)
          /\ cache'.seen = k.seen /\ cache'.mine = k.mine \union got /\ cache'.asked = k.asked
    BY <1>5, ReturnedOK
  <2>2. PICK k \in Known(c, got) :
          /\ RecordOK(c) /\ RecordOK(k) /\ cache' = Returned(k, got)
          /\ cache'.seen = k.seen /\ cache'.mine = k.mine \union got /\ cache'.asked = k.asked
    BY <2>1
  <2>3. NotesOK(c)
    BY <1>0 DEF CachesOK, NotesOK, IInv, WorldOK, RecordOK
  <2>4. UNCHANGED <<have, disk, asked, lastSlugs>>
    BY <1>5 DEF CreateReturns, ha
  <2> HIDE DEF c
  <2>5. NotesOK(k) /\ got \subseteq k.seen
    BY <1>0, <2>2, <2>3, KnownNotes, KnownOK DEF IInv
  <2>6. cache'.note = [b \in Backups |-> IF b \in got THEN pending.id ELSE k.note[b]]
    BY <2>2 DEF Returned, RecordOK
  <2>7. cache'.note \in [Backups -> 0..asked]
    BY <1>0, <2>5, <2>6 DEF NotesOK
  <2>8. NotesOK(cache')
    BY <2>2, <2>4, <2>5, <2>7 DEF NotesOK
  <2> QED
    BY <2>4, <2>8 DEF CachesOK, NotesOK
<1>6. ASSUME NEW r \in Requests,
             HaAccepts(r) \/ HaRefuses(r) \/ Reply(r) \/ LogsRead(r) \/ RequestFails(r)
      PROVE  CachesOK'
  BY <1>1, <1>6 DEF HaAccepts, HaRefuses, Reply, LogsRead, RequestFails, ha
<1>7. CASE StartSync \/ SyncFails
  BY <1>1, <1>7 DEF StartSync, SyncFails, ha, mem
<1>8. CASE Process
  <2>1. UNCHANGED <<have, disk, asked>> /\ lastSlugs' = listing
    BY <1>8 DEF Process, ha
  <2>2. PICK k \in Known(cache, listing) :
          RecordOK(k) /\ (cache' = k \/ \E b : cache' = NoteGiven(k, b))
    BY <1>8, ProcessedOK
  <2>3. listing \subseteq have
    BY DEF IInv, WorldOK
  <2>4. NotesOK(k)
    BY <1>0, <2>3, KnownNotes DEF CachesOK, IInv, WorldOK
  <2>5. ASSUME NEW b PROVE NotesOK(NoteGiven(k, b))
    BY <1>0, <2>2, <2>4 DEF NotesOK, RecordOK, NoteGiven
  <2>6. NotesOK(cache')
    BY <2>2, <2>4, <2>5
  <2> QED
    BY <2>1, <2>3, <2>6 DEF CachesOK, NotesOK
<1>9. CASE EndSync
  BY <1>9 DEF EndSync, ha, mem, CachesOK, NotesOK
<1>10. CASE CheckBegins \/ CheckGoesOn \/ EarlyEnds \/ SupervisorFails
  BY <1>1, <1>10 DEF CheckBegins, CheckGoesOn, EarlyEnds, SupervisorFails, rest, ha, mem
<1>11. CASE OtherAsks \/ HaFinishes
  BY <1>1, <1>11 DEF OtherAsks, HaFinishes, mem
<1>12. CASE Crash
  BY <1>12 DEF Crash, ha, CachesOK, NotesOK
<1> QED
  BY <1>2, <1>3, <1>4, <1>5, <1>6, <1>7, <1>8, <1>9, <1>10, <1>11, <1>12
     DEF Next, CreateStep, TaskStep, World

Stages == creating \in {"no", "stopping", "waiting"} /\ sync \in {"no", "listing", "on"}
            /\ faults \in Nat

LEMMA StagesStep == ASSUME Stages, [Next]_vars PROVE Stages'
<1> USE DEF Stages
<1>1. ASSUME UNCHANGED where, Fault \/ UNCHANGED faults PROVE Stages'
  BY <1>1 DEF where, Fault
<1>2. CASE UNCHANGED vars
  BY <1>1, <1>2 DEF vars
<1>3. CASE Create \/ Ask \/ CreateRaises \/ CreateReturns
  BY <1>3 DEF Create, Ask, CreateRaises, CreateReturns
<1>4. CASE CreateAborted \/ Crash \/ SyncFails
  BY <1>4 DEF CreateAborted, Crash, SyncFails, Fault
<1>5. CASE Stopping
  BY <1>1, <1>5 DEF Stopping
<1>6. ASSUME NEW r \in Requests,
             HaAccepts(r) \/ HaRefuses(r) \/ Reply(r) \/ LogsRead(r) \/ RequestFails(r)
      PROVE  Stages'
  BY <1>1, <1>6 DEF HaAccepts, HaRefuses, Reply, LogsRead, RequestFails
<1>7. CASE StartSync \/ Process \/ EndSync
  BY <1>7 DEF StartSync, Process, EndSync
<1>8. CASE CheckBegins \/ CheckGoesOn \/ EarlyEnds \/ SupervisorFails
  BY <1>1, <1>8 DEF CheckBegins, CheckGoesOn, EarlyEnds, SupervisorFails, rest, where
<1>9. CASE World
  BY <1>1, <1>9 DEF World, OtherAsks, HaFinishes
<1> QED
  BY <1>2, <1>3, <1>4, <1>5, <1>6, <1>7, <1>8, <1>9 DEF Next, CreateStep, TaskStep

TInv == RequestsOK /\ CachesOK /\ Stages /\ StopperOK

LEMMA TInvInit == Init => TInv
<1>1. MaxFaults \in Nat
  BY BoundsAssumption
<1> QED
  BY <1>1, NumbersInit, StopperInitOK DEF Init, TInv, Stages

LEMMA TInvStep == ASSUME IInv, TInv, [Next]_vars PROVE TInv'
<1>1. StopperMoves
  BY NextMovesStopper DEF vars, StopperMoves, StopperRuns
<1> QED
  BY <1>1, RequestsStep, CachesStep, StagesStep, StopperStep DEF TInv

\* The types of the backup in Home Assistant and of the add-on stopper hold for
\* any add-ons, requests, other programs, faults and restarts (hasource.py and
\* addon_stopper.py).  Part of them is that there are no more backups than were
\* asked for, and that the caches note none but requests that were made.
THEOREM TypeCorrect == Spec => []TypeOK
<1>1. IInv /\ TInv => TypeOK
  <2> SUFFICES ASSUME IInv, TInv PROVE TypeOK
    OBVIOUS
  <2>1. Len(by) \in Nat /\ Len(by) <= MaxRequests + MaxOthers
    BY Listed, FewBackups DEF IInv, TInv
  <2>2. pending \in [id : 0..asked,
                     state : {"none", "requested", "complete", "failed", "subverted"}]
    BY DEF IInv, TInv, TasksOK, RequestsOK, States
  <2>3. \A c \in {cache, disk} :
          /\ c.mine \subseteq c.seen /\ c.seen \subseteq 1..Len(by)
          /\ c.note \in [Backups -> 0..asked] /\ c.asked \in 0..asked
    BY DEF IInv, TInv, WorldOK, RecordOK, CachesOK, NotesOK
  <2>4. lastSlugs \subseteq 1..Len(by) /\ listing \subseteq 1..Len(by)
    BY DEF IInv, TInv, WorldOK, CachesOK
  <2> QED
    BY <2>1, <2>2, <2>3, <2>4 DEF IInv, TInv, TasksOK, WorldOK, Stages, StopperOK, TypeOK
<1> QED
  BY <1>1, InitOK, TInvInit, TInvStep, Invariance, PTL DEF Spec

-----------------------------------------------------------------------------
(* The mark and the note of a request                                      *)

\* The backups that a cache marks have names of requests, all different, and none
\* has the name that is still looked for.
MarksOK(c) ==
  /\ \A b \in c.mine : Name(b) \in 1..asked /\ Name(b) # c.asked
  /\ \A b, d \in c.mine : Name(b) = Name(d) => b = d

NotesDiffer(c) ==
  \A b, d \in Backups : c.note[b] = c.note[d] /\ c.note[b] # 0 => b = d

\* While create waits for the answer nothing has the mark or the note of its
\* request, and no listing has shown its backup.
Waiting ==
  creating = "waiting" =>
    /\ pending.id = asked /\ \A b \in cache.mine : Name(b) # asked
    /\ \A b \in cache.seen : by[b] # asked

\* Once the pending backup's note is given it is the note of the backup that was
\* asked for, and a listing that is under way shows it.
NotedPending ==
  \A b \in Backups : cache.note[b] = pending.id /\ pending.id # 0 =>
    /\ creating # "waiting" /\ pending.state = "complete"
    /\ b \in have /\ by[b] = pending.id /\ (sync = "listing" => b \in listing)

GInv == /\ MarksOK(cache) /\ MarksOK(disk) /\ NotesDiffer(cache) /\ NotesDiffer(disk)
        /\ Waiting /\ NotedPending

\* A backup keeps its name, and what is there stays.
LEMMA ByStays ==
  ASSUME IInv, [Next]_vars
  PROVE  have \subseteq have' /\ \A b \in have : by'[b] = by[b]
<1>1. ASSUME UNCHANGED <<by, have>> PROVE have \subseteq have' /\ \A b \in have : by'[b] = by[b]
  BY <1>1
<1>2. ASSUME NEW r, by' = Append(by, r), UNCHANGED have
      PROVE  have \subseteq have' /\ \A b \in have : by'[b] = by[b]
  BY <1>2 DEF IInv, WorldOK
<1>3. CASE UNCHANGED vars
  BY <1>1, <1>3 DEF vars, ha
<1>4. CASE Create \/ CreateStep \/ CreateAborted
  BY <1>1, <1>4 DEF Create, CreateStep, Stopping, Ask, CreateRaises, CreateReturns, CreateAborted, ha
<1>5. ASSUME NEW r \in Requests, HaAccepts(r)
      PROVE  have \subseteq have' /\ \A b \in have : by'[b] = by[b]
  BY <1>2, <1>5 DEF HaAccepts
<1>6. ASSUME NEW r \in Requests, HaRefuses(r) \/ Reply(r) \/ LogsRead(r)
      PROVE  have \subseteq have' /\ \A b \in have : by'[b] = by[b]
  BY <1>1, <1>6 DEF HaRefuses, Reply, LogsRead, ha
<1>7. ASSUME NEW r \in Requests, RequestFails(r)
      PROVE  have \subseteq have' /\ \A b \in have : by'[b] = by[b]
  <2>1. CASE UNCHANGED by
    BY <1>1, <1>7, <2>1 DEF RequestFails
  <2>2. CASE job # 0 /\ by' = Front(by)
    <3>1. /\ Len(by) \in Nat /\ job = Len(by) /\ Len(by') = Len(by) - 1
          /\ \A b \in 1..Len(by') : by'[b] = by[b]
      BY <2>2, Shortened DEF IInv
    <3>2. have \subseteq 1..Len(by')
      BY <3>1 DEF IInv, WorldOK
    <3> QED
      BY <1>7, <3>1, <3>2 DEF RequestFails
  <2> QED
    BY <1>7, <2>1, <2>2 DEF RequestFails
<1>8. CASE StartSync \/ Process \/ EndSync \/ SyncFails
  BY <1>1, <1>8 DEF StartSync, Process, EndSync, SyncFails, ha
<1>9. CASE CheckBegins \/ CheckGoesOn \/ EarlyEnds \/ SupervisorFails \/ Crash
  BY <1>1, <1>9 DEF CheckBegins, CheckGoesOn, EarlyEnds, SupervisorFails, rest, Crash, ha
<1>10. CASE OtherAsks
  BY <1>2, <1>10 DEF OtherAsks
<1>11. CASE HaFinishes
  BY <1>11 DEF HaFinishes
<1> QED
  BY <1>3, <1>4, <1>5, <1>6, <1>7, <1>8, <1>9, <1>10, <1>11 DEF Next, TaskStep, World

\* A step that leaves the caches alone, and the pending backup unless it is not
\* yet complete, keeps what is said of them.
LEMMA SameGiven ==
  ASSUME IInv, GInv, UNCHANGED <<cache, disk, asked>>,
         have \subseteq have' /\ \A b \in have : by'[b] = by[b],
         creating' = "waiting" => creating = "waiting" /\ pending'.id = pending.id,
         \/ pending' = pending
         \/ pending.state # "complete" /\ pending'.id = pending.id
         \/ pending'.id = 0,
         sync' = "listing" => listing' = have' \/ (sync = "listing" /\ listing' = listing)
  PROVE  GInv'
<1>1. \A c \in {cache, disk} : c.mine \subseteq have /\ c.seen \subseteq have
  BY DEF IInv, WorldOK, RecordOK
<1>2. \A b \in have : Name(b)' = Name(b)
  BY DEF Name
<1>3. \A c \in {cache, disk} : \A b \in c.mine : Name(b)' = Name(b)
  BY <1>1, <1>2
<1>4. MarksOK(cache)' /\ MarksOK(disk)'
  BY <1>3 DEF GInv, MarksOK
<1>5. NotesDiffer(cache)' /\ NotesDiffer(disk)'
  BY DEF GInv, NotesDiffer
<1>6. Waiting'
  BY <1>1, <1>3 DEF GInv, Waiting
<1>7. NotedPending'
  <2> SUFFICES ASSUME NEW b \in Backups, cache.note[b] = pending'.id, pending'.id # 0
               PROVE  /\ creating' # "waiting" /\ pending'.state = "complete"
                      /\ b \in have' /\ by'[b] = pending'.id /\ (sync' = "listing" => b \in listing')
    BY DEF NotedPending
  <2>1. pending' = pending
    BY DEF GInv, NotedPending
  <2> QED
    BY <2>1 DEF GInv, NotedPending
<1> QED
  BY <1>4, <1>5, <1>6, <1>7 DEF GInv

LEMMA GivenInit == Init => GInv
<1> SUFFICES ASSUME Init PROVE GInv
  OBVIOUS
<1>1. /\ cache = NoCache /\ disk = NoCache /\ creating = "no" /\ pending.id = 0
  BY DEF Init, NoPending
<1>2. NoCache.mine = {} /\ \A b \in Backups : NoCache.note[b] = 0
  BY DEF NoCache
<1> QED
  BY <1>1, <1>2 DEF GInv, MarksOK, NotesDiffer, Waiting, NotedPending

\* A new request has a number that no cache has used.
LEMMA AskGives == ASSUME IInv, TInv, GInv, Ask PROVE GInv'
<1>1. /\ asked' = asked + 1 /\ asked \in Nat /\ pending'.id = asked'
      /\ UNCHANGED <<by, have, cache, disk>>
  BY DEF Ask, ha, IInv, TasksOK
<1>2. \A b : Name(b)' = Name(b)
  BY <1>1 DEF Name
<1>3. MarksOK(cache)' /\ MarksOK(disk)'
  <2>1. \A n \in 1..asked : n \in 1..asked'
    BY <1>1
  <2> QED
    BY <1>1, <1>2, <2>1 DEF GInv, MarksOK
<1>4. NotesDiffer(cache)' /\ NotesDiffer(disk)'
  BY <1>1 DEF GInv, NotesDiffer
<1>5. Waiting'
  <2>1. \A b \in cache.mine : Name(b) # asked'
    BY <1>1 DEF GInv, MarksOK
  <2>2. \A b \in cache.seen : by[b] <= asked
    BY DEF TInv, RequestsOK, IInv, WorldOK, RecordOK
  <2> QED
    BY <1>1, <1>2, <2>1, <2>2 DEF Waiting
<1>6. NotedPending'
  <2>1. \A b \in Backups : cache.note[b] # asked'
    BY <1>1 DEF TInv, CachesOK, NotesOK
  <2> QED
    BY <1>1, <2>1 DEF NotedPending
<1> QED
  BY <1>3, <1>4, <1>5, <1>6 DEF GInv

\* create gives both to the backup of the request, if it is there.
LEMMA ReturnGives == ASSUME IInv, TInv, GInv, CreateReturns PROVE GInv'
<1> DEFINE c == [cache EXCEPT !.asked = pending.id]
<1>1. PICK got \in SUBSET have : \E k \in Known(c, got) :
        /\ \A b \in got : by[b] = pending.id /\ pending.state = "complete"
        /\ RecordOK(c) /\ RecordOK(k)
        /\ cache'.mine = k.mine \union got /\ cache'.asked = k.asked
        /\ \A b \in Backups : cache'.note[b] = IF b \in got THEN pending.id ELSE k.note[b]
  BY ReturnedOK
<1>2. PICK k \in Known(c, got) :
        /\ RecordOK(c) /\ RecordOK(k)
        /\ cache'.mine = k.mine \union got /\ cache'.asked = k.asked
        /\ \A b \in Backups : cache'.note[b] = IF b \in got THEN pending.id ELSE k.note[b]
  BY <1>1
<1>3. /\ UNCHANGED <<by, have, disk, asked, pending>> /\ creating = "waiting" /\ creating' = "no"
      /\ sync' \in {sync, "no"}
  BY DEF CreateReturns, ha
<1>4. /\ pending.id = asked /\ asked \in Nat /\ asked # 0
      /\ \A b \in cache.mine : Name(b) # asked /\ Name(b) \in 1..asked
      /\ \A b \in cache.seen : by[b] # asked
      /\ \A b \in Backups : cache.note[b] # asked
  BY <1>3, Constants DEF GInv, Waiting, MarksOK, NotedPending, CreateReturns, IInv, TasksOK
<1>5. c.asked = asked /\ c.mine = cache.mine /\ c.seen = cache.seen /\ c.note = cache.note
  BY <1>4 DEF IInv, WorldOK, RecordOK
<1> HIDE DEF c
<1>6. \A b \in got : Name(b) = asked /\ b \notin cache.seen
  BY <1>1, <1>4 DEF Name
<1>7. \A b, d \in got : b = d
  <2>1. got \subseteq 1..Len(by)
    BY DEF IInv, WorldOK
  <2> QED
    BY <1>1, <1>4, <2>1 DEF TInv, RequestsOK
<1>8. Matching(c, got) = got
  BY <1>4, <1>5, <1>6 DEF Matching
<1>9. /\ k.note = c.note
      /\ \/ got = {} /\ k.mine = c.mine /\ k.asked = c.asked
         \/ \E b \in got : k.mine = c.mine \union {b} /\ k.asked = 0
  BY <1>2, <1>8, KnownOK DEF IInv
<1>10. \A b : Name(b)' = Name(b)
  BY <1>3 DEF Name
<1>11. MarksOK(cache)'
  <2>1. CASE got = {} /\ k.mine = c.mine /\ k.asked = c.asked
    BY <1>2, <1>3, <1>4, <1>5, <1>10, <2>1 DEF GInv, MarksOK
  <2>2. ASSUME NEW b \in got, k.mine = c.mine \union {b}, k.asked = 0 PROVE MarksOK(cache)'
    <3>1. cache'.mine = cache.mine \union {b} /\ cache'.asked = 0
      BY <1>2, <1>5, <1>7, <2>2
    <3>2. Name(b) = asked /\ asked \in 1..asked
      BY <1>4, <1>6
    <3> QED
      BY <1>3, <1>4, <1>10, <3>1, <3>2 DEF GInv, MarksOK
  <2> QED
    BY <1>9, <2>1, <2>2
<1>12. MarksOK(disk)' /\ NotesDiffer(disk)'
  BY <1>3, <1>10 DEF GInv, MarksOK, NotesDiffer
<1>13. \A b \in Backups : cache'.note[b] = IF b \in got THEN asked ELSE cache.note[b]
  BY <1>2, <1>4, <1>5, <1>9
<1>14. NotesDiffer(cache)'
  BY <1>4, <1>7, <1>13 DEF GInv, NotesDiffer
<1>15. Waiting'
  BY <1>3 DEF Waiting
<1>16. NotedPending'
  <2>1. sync' # "listing"
    BY <1>3 DEF IInv, CreateOK
  <2> QED
    BY <1>1, <1>3, <1>4, <1>13, <2>1 DEF NotedPending
<1> QED
  BY <1>11, <1>12, <1>14, <1>15, <1>16 DEF GInv

\* get gives the mark to one backup that has the name, and the note to the backup
\* of the request, or to another as long as none has it.
LEMMA ProcessGives == ASSUME IInv, TInv, GInv, Process PROVE GInv'
<1>1. PICK k \in Known(cache, listing) :
        /\ RecordOK(k) /\ cache'.mine = k.mine /\ cache'.asked = k.asked
        /\ \/ cache' = k /\ (Kill \/ UNCHANGED <<pending, task, flags>>)
           \/ \E b : /\ Kill /\ cache' = NoteGiven(k, b) /\ pending.id # 0
                    /\ \/ pending.state = "complete" /\ b = Max(MadeFor(pending.id))
                       \/ ~(pending.state = "complete" /\ MadeFor(pending.id) \subseteq listing)
  BY ProcessedOK
<1>2. /\ UNCHANGED <<by, have, disk, asked, creating>> /\ creating = "no"
      /\ sync = "listing" /\ sync' = "on"
  BY DEF Process, ha, IInv, CreateOK
<1>3. \A b : Name(b)' = Name(b)
  BY <1>2 DEF Name
<1>4. /\ k.note = cache.note
      /\ \/ k.mine = cache.mine /\ k.asked = cache.asked
         \/ \E b \in Matching(cache, listing) : k.mine = cache.mine \union {b} /\ k.asked = 0
  <2>1. WorldOK /\ RecordOK(cache) /\ listing \subseteq have
    BY DEF IInv, WorldOK
  <2>2. k \in Known(cache, listing)
    BY <1>1
  <2> QED
    BY <2>1, <2>2, KnownOK
<1>5. MarksOK(cache)'
  <2>1. CASE k.mine = cache.mine /\ k.asked = cache.asked
    BY <1>1, <1>2, <1>3, <2>1 DEF GInv, MarksOK
  <2>2. ASSUME NEW b \in Matching(cache, listing), k.mine = cache.mine \union {b}, k.asked = 0
        PROVE  MarksOK(cache)'
    <3>1. Name(b) = cache.asked /\ cache.asked # 0 /\ cache.asked \in 0..asked /\ asked \in Nat
      BY <2>2 DEF Matching, TInv, CachesOK, NotesOK, IInv, TasksOK
    <3>2. Name(b) \in 1..asked
      BY <3>1
    <3> QED
      BY <1>1, <1>2, <1>3, <2>2, <3>1, <3>2 DEF GInv, MarksOK
  <2> QED
    BY <1>4, <2>1, <2>2
<1>6. MarksOK(disk)' /\ NotesDiffer(disk)'
  BY <1>2, <1>3 DEF GInv, MarksOK, NotesDiffer
<1>7. Waiting'
  BY <1>2 DEF Waiting
<1>8. CASE cache' = k /\ (Kill \/ UNCHANGED <<pending, task, flags>>)
  <2>1. NotesDiffer(cache)'
    BY <1>4, <1>8 DEF GInv, NotesDiffer
  <2>2. pending'.id = 0 \/ pending' = pending
    BY <1>8 DEF Kill, NoPending
  <2>3. NotedPending'
    BY <1>2, <1>4, <1>8, <2>2 DEF GInv, NotedPending
  <2> QED
    BY <1>5, <1>6, <1>7, <2>1, <2>3 DEF GInv
<1>9. ASSUME NEW b, Kill, cache' = NoteGiven(k, b), pending.id # 0,
             \/ pending.state = "complete" /\ b = Max(MadeFor(pending.id))
             \/ ~(pending.state = "complete" /\ MadeFor(pending.id) \subseteq listing)
      PROVE  GInv'
  <2>1. NotedPending'
    BY <1>9 DEF Kill, NoPending, NotedPending
  <2>2. ASSUME NEW d \in Backups, cache.note[d] = pending.id PROVE d = b
    <3>1. /\ pending.state = "complete" /\ d \in have /\ by[d] = pending.id /\ d \in listing
          /\ pending.id > 0 /\ d \in Nat
      BY <1>2, <1>9, <2>2 DEF GInv, NotedPending, IInv, TasksOK, Backups
    <3>2. have \subseteq 1..Len(by) /\ job \notin have
      BY DEF IInv, WorldOK
    <3>3. MadeFor(pending.id) = {d}
      BY <3>1, <3>2 DEF MadeFor, TInv, RequestsOK
    <3>4. b = Max({d})
      BY <1>9, <3>1, <3>3
    <3>5. Max({d}) = d
      BY <3>1 DEF Max
    <3> QED
      BY <3>4, <3>5
  <2>3. k.note \in [Backups -> Nat]
    BY <1>1 DEF RecordOK
  <2>4. \A d \in Backups : cache'.note[d] \in {cache.note[d], pending.id}
                           /\ (d # b => cache'.note[d] = cache.note[d])
    BY <1>1, <1>4, <1>9, <2>3 DEF NoteGiven, RecordOK
  <2>5. NotesDiffer(cache)'
    BY <2>2, <2>4 DEF GInv, NotesDiffer
  <2> QED
    BY <1>5, <1>6, <1>7, <2>1, <2>5 DEF GInv
<1> QED
  BY <1>1, <1>8, <1>9

LEMMA GivenStep == ASSUME IInv, TInv, GInv, [Next]_vars PROVE GInv'
<1>0. have \subseteq have' /\ \A b \in have : by'[b] = by[b]
  BY ByStays
<1>1. ASSUME UNCHANGED <<cache, disk, asked, pending, creating, sync, listing>> PROVE GInv'
  BY <1>0, <1>1, SameGiven
<1>2. CASE UNCHANGED vars
  BY <1>1, <1>2 DEF vars, mem, where
<1>3. CASE Stopping \/ CheckBegins \/ CheckGoesOn \/ EarlyEnds \/ SupervisorFails
  BY <1>1, <1>3 DEF Stopping, CheckBegins, CheckGoesOn, EarlyEnds, SupervisorFails, rest, mem, where
<1>4. CASE Create \/ CreateRaises \/ CreateAborted
  <2>1. /\ UNCHANGED <<cache, disk, asked, pending, listing>> /\ creating' # "waiting"
        /\ sync' \in {sync, "no"}
    BY <1>4 DEF Create, CreateRaises, CreateAborted, mem
  <2> QED
    BY <1>0, <2>1, SameGiven
<1>5. CASE Ask
  BY <1>5, AskGives
<1>6. CASE CreateReturns
  BY <1>6, ReturnGives
<1>7. ASSUME NEW r \in Requests, HaAccepts(r) \/ LogsRead(r) PROVE GInv'
  BY <1>1, <1>7 DEF HaAccepts, LogsRead, mem, where
<1>8. ASSUME NEW r \in Requests, HaRefuses(r) \/ Reply(r) \/ RequestFails(r) PROVE GInv'
  <2>1. InFlight(r) /\ UNCHANGED <<cache, disk, asked, where>> /\ \E s : Settle(r, s)
    BY <1>8 DEF HaRefuses, Reply, RequestFails, InFlight
  <2>2. pending.state = "requested"
    BY <2>1 DEF IInv, TasksOK
  <2>3. pending'.id = pending.id
    BY <2>1 DEF Settle, IInv, TasksOK
  <2> QED
    BY <1>0, <2>1, <2>2, <2>3, SameGiven DEF where
<1>9. CASE StartSync \/ SyncFails
  <2>1. /\ UNCHANGED <<cache, disk, asked, pending, creating, have>>
        /\ sync' = "listing" => listing' = have'
    BY <1>9 DEF StartSync, SyncFails, ha, mem
  <2> QED
    BY <1>0, <2>1, SameGiven
<1>10. CASE Process
  BY <1>10, ProcessGives
<1>11. CASE EndSync
  <2>1. /\ UNCHANGED <<by, have, cache, asked, pending, creating, listing>> /\ disk' = cache
        /\ sync' = "no"
    BY <1>11 DEF EndSync, ha, mem
  <2>2. \A b : Name(b)' = Name(b)
    BY <2>1 DEF Name
  <2> QED
    BY <2>1, <2>2 DEF GInv, MarksOK, NotesDiffer, Waiting, NotedPending
<1>12. CASE World
  BY <1>1, <1>12 DEF World, OtherAsks, HaFinishes, mem, where
<1>13. CASE Crash
  <2>1. /\ UNCHANGED <<by, have, asked, disk>> /\ cache' = disk /\ pending'.id = 0
        /\ creating' = "no"
    BY <1>13 DEF Crash, ha, NoPending
  <2>2. \A b : Name(b)' = Name(b)
    BY <2>1 DEF Name
  <2> QED
    BY <2>1, <2>2 DEF GInv, MarksOK, NotesDiffer, Waiting, NotedPending
<1> QED
  BY <1>2, <1>3, <1>4, <1>5, <1>6, <1>7, <1>8, <1>9, <1>10, <1>11, <1>12, <1>13
     DEF Next, CreateStep, TaskStep

\* The mark and the note of a request go to one backup each, for any number of
\* requests, of other programs' backups that have their names, and of restarts
\* that lose the data cache's last changes (create, setDataCacheInfo and get of
\* hasource.py, lines 225-237, 301-320 and 331-356).
THEOREM GivenToOne == Spec => []GivenOnce
<1>1. GInv => GivenOnce
  BY DEF GInv, MarksOK, NotesDiffer, GivenOnce
<1>2. IInv /\ TInv /\ [Next]_vars => TInv'
  BY TInvStep
<1>3. IInv /\ TInv /\ GInv /\ [Next]_vars => GInv'
  BY GivenStep
<1> QED
  BY <1>1, <1>2, <1>3, InitOK, TInvInit, GivenInit, Invariance, PTL DEF Spec

-----------------------------------------------------------------------------
(* What is still to be started                                             *)

LEMMA FaultsAreCounted == ASSUME [Next]_vars PROVE Fault \/ UNCHANGED faults
<1>1. CASE UNCHANGED vars
  BY <1>1 DEF vars
<1>2. CASE Create \/ CreateStep \/ CreateAborted
  BY <1>2 DEF Create, CreateStep, Stopping, Ask, CreateRaises, CreateReturns, CreateAborted
<1>3. ASSUME NEW r \in Requests,
             HaAccepts(r) \/ HaRefuses(r) \/ Reply(r) \/ LogsRead(r) \/ RequestFails(r)
      PROVE  Fault \/ UNCHANGED faults
  BY <1>3 DEF HaAccepts, HaRefuses, Reply, LogsRead, RequestFails
<1>4. CASE StartSync \/ Process \/ EndSync \/ SyncFails
  BY <1>4 DEF StartSync, Process, EndSync, SyncFails
<1>5. CASE CheckBegins \/ CheckGoesOn \/ EarlyEnds \/ SupervisorFails
  BY <1>5 DEF CheckBegins, CheckGoesOn, EarlyEnds, SupervisorFails, rest
<1>6. CASE World \/ Crash
  BY <1>6 DEF World, OtherAsks, HaFinishes, Crash
<1> QED
  BY <1>1, <1>2, <1>3, <1>4, <1>5, <1>6 DEF Next, TaskStep

\* An add-on leaves the sets of those to be started, or to be watched, only when
\* it runs, or is watched, again, or when a call for it fails.
LEMMA NotesStay ==
  ASSUME StopperOK, NothingForgotten, StopperRuns \/ Failure \/ StopAborted
  PROVE  /\ allowed' => Addons \subseteq running' \union mustStart' \union gaveUp'
         /\ saved'.watchdog \subseteq watchdog' \union mustWatch' \union gaveUp'
<1> DEFINE Noted == /\ allowed => Addons \subseteq running \union mustStart \union gaveUp
                    /\ saved.watchdog \subseteq watchdog \union mustWatch \union gaveUp
<1> USE DEF NothingForgotten, addons, notes, flags, loop
<1>1. CASE StopAddons \/ Starting \/ Check \/ TimePasses \/ UNCHANGED stopper
  BY <1>1 DEF StopAddons, Starting, StartAddons, Check, TimePasses, stopper
<1>2. ASSUME NEW s \in Addons, StopLook(s) \/ StopLookFails(s) PROVE Noted'
  BY <1>2 DEF StopLook, StopLookFails, OffUnnoted
<1>3. CASE StopOne \/ StopOneFails \/ StopAborted
  BY <1>3 DEF StopOne, StopOneFails, StopAborted, OffUnnoted
<1>4. CASE StopSaves \/ CheckTurns \/ CheckSaves
  BY <1>4 DEF StopSaves, CheckTurns, CheckSaves, Memory
<1>5. CASE Allowing
  BY <1>5 DEF Allowing, AllowRun
<1>6. ASSUME NEW s \in Addons, CheckStart(s) \/ CheckStartFails(s) PROVE Noted'
  BY <1>6 DEF CheckStart, CheckStartFails
<1>7. ASSUME NEW s \in Addons, CheckWatch(s) \/ CheckWatchFails(s) PROVE Noted'
  BY <1>7 DEF CheckWatch, CheckWatchFails
<1> QED
  BY <1>1, <1>2, <1>3, <1>4, <1>5, <1>6, <1>7 DEF StopperRuns, StopStep, CheckStep, Failure

LEMMA WatchStays ==
  ASSUME StopperRuns, Watched \subseteq watchdog \union mustWatch
  PROVE  Watched \subseteq watchdog' \union mustWatch'
<1> USE DEF addons, notes, flags, loop
<1>1. CASE StopAddons \/ Starting \/ Check \/ TimePasses \/ UNCHANGED stopper
  BY <1>1 DEF StopAddons, Starting, StartAddons, Check, TimePasses, stopper
<1>2. CASE StopOne \/ StopSaves \/ CheckTurns \/ CheckSaves \/ Allowing
  BY <1>2 DEF StopOne, StopSaves, CheckTurns, CheckSaves, Allowing, AllowRun
<1>3. ASSUME NEW s \in Addons, StopLook(s) \/ CheckStart(s) \/ CheckWatch(s)
      PROVE  Watched \subseteq watchdog' \union mustWatch'
  BY <1>3 DEF StopLook, CheckStart, CheckWatch
<1> QED
  BY <1>1, <1>2, <1>3 DEF StopperRuns, StopStep, CheckStep

LEMMA NothingForgottenStep ==
  ASSUME StopperOK, faults \in Nat, faults <= MaxFaults, NothingForgotten, [Next]_vars
  PROVE  NothingForgotten' /\ faults' <= MaxFaults
<1>1. StopperMoves
  BY NextMovesStopper DEF vars, StopperMoves, StopperRuns
<1>2. MaxFaults \in Nat
  BY BoundsAssumption
<1>3. faults' <= MaxFaults /\ (Fault => faults' # MaxFaults) /\ (faults' = MaxFaults => faults = MaxFaults)
  BY <1>2, FaultsAreCounted DEF Fault
<1>4. CASE StopperRuns
  BY <1>3, <1>4, NotesStay, WatchStays DEF NothingForgotten
<1>5. CASE (Failure \/ StopAborted) /\ Fault
  BY <1>3, <1>5, NotesStay DEF NothingForgotten
<1>6. CASE StopperRestarts /\ Fault
  BY <1>3, <1>6 DEF StopperRestarts, addons, NothingForgotten
<1> QED
  BY <1>1, <1>3, <1>4, <1>5, <1>6 DEF StopperMoves

\* The safety half of StoppedComesBack: an add-on that was stopped is noted as one
\* to start in memory, whatever is aborted or fails, and after a restart, which may
\* come before the notes are written, all of them are.  The exception are those of
\* gaveUp, which a call stopped that failed or was cancelled all the same, before
\* must_start was told, or that could not be started again (stopAddons, check and
\* allowRun of addon_stopper.py, lines 38-138).
THEOREM StoppedAreNoted == Spec => []NothingForgotten
<1>1. Init => NothingForgotten /\ faults <= MaxFaults
  BY BoundsAssumption DEF Init, StopperInit, NothingForgotten
<1>2. TInv /\ NothingForgotten /\ faults <= MaxFaults /\ [Next]_vars
        => NothingForgotten' /\ (faults <= MaxFaults)'
  BY NothingForgottenStep DEF TInv, Stages
<1>3. IInv /\ TInv /\ [Next]_vars => TInv'
  BY TInvStep
<1> QED
  BY <1>1, <1>2, <1>3, InitOK, TInvInit, Invariance, PTL DEF Spec
=============================================================================
