------------------------- MODULE ProtonFolderProofs -------------------------
(***************************************************************************)
(* What holds of ProtonFolder for every set of slugs, every choice of      *)
(* tasks and every bound:                                                  *)
(*   - the types;                                                          *)
(*   - nothing takes the tar of an upload whose sidecar is being written,  *)
(*     but a command of a cancelled task (UploadInFlightSpared);           *)
(*   - nothing trashes a folder (FolderNeverTrashed);                      *)
(* and, while only the sync lists the folder and is never cancelled:       *)
(*   - what save() stored stays whole (StoredStaysPaired);                 *)
(*   - the folder is the store of BackupStore (ImplementsStore).           *)
(* The last part is about DriveNames: the walk makes no second folder of a *)
(* name, and what is deleted for ever is the add-on's own.                 *)
(*                                                                         *)
(* UploadInFlightSpared needs the order of the CLI's queue.  A task decides *)
(* to trash a tar only when no upload is in flight, but its command may    *)
(* wait; an upload that starts meanwhile queues behind it, so the sweep is *)
(* over before the upload's first command has run.                         *)
(***************************************************************************)
EXTENDS ProtonFolder, DriveNames, TLAPS, SequenceTheorems

\* Nobody waits twice for the lock.
Unique(q) == \A i, j \in DOMAIN q : q[i] = q[j] => i = j

\* In q, every b has an a ahead of it.
AheadOf(a, b, q) == \A j \in DOMAIN q : q[j] = b => \E i \in 1..(j - 1) : q[i] = a

-----------------------------------------------------------------------------
(* The inductive invariant                                                 *)

\* A command is about a name when its kind needs one.
Named == Uploading \union Trashing \union {"load"}
NamesOK == \A a \in Actors : pc[a] \in Named => loc[a].cur \in Names

\* So is a handler about a slug.
Slugged == {"stage", "upTar", "upMeta", "cleanList", "cleanTrash",
            "delList", "delTar", "delMeta", "rewrite"}
SlugsOK == \A a \in Actors : pc[a] \in Slugged => loc[a].slug \in Slugs

\* The queue holds the tasks that await a command, each once.
QueueOK ==
  /\ Unique(queue)
  /\ \A a \in Actors : a \in Range(queue) <=> pc[a] \in Awaiting

\* _uploading is set exactly while save() is on its way to the sidecar.
FlagOK == uploading <=> pc[Holder] \in Saving

\* A sweep of a tar and an upload in flight: the sweep came first, and the
\* upload still waits for its first command.
SweepAhead(a) ==
  pc[a] = "sweep" /\ IsTar(loc[a].cur) /\ pc[Holder] \in {"upTar", "upMeta"}
    => pc[Holder] = "upTar" /\ AheadOf(a, Holder, queue)
SweepsAhead == \A a \in Actors : SweepAhead(a)

\* TypeOK in parts: the folder and the CLI, the tasks, ProtonSource.
ServerOK == /\ files \subseteq Names /\ folders \subseteq Names /\ reply \in Replies
            /\ zombies \subseteq (Trashing \union Uploading) \X Names
            /\ budget \in [faults : Nat, cancels : Nat, crashes : Nat]
TasksOK  == /\ pc \in [Actors -> Awaiting \union {"idle", "stage"}]
            /\ loc \in [Actors -> Locals] /\ queue \in Seq(Actors)
            /\ NamesOK /\ SlugsOK /\ QueueOK
SourceOK == /\ known \subseteq Slugs /\ cache \subseteq Slugs /\ stored \subseteq Slugs
            /\ uploading \in BOOLEAN /\ starts \in Nat

IInv == ServerOK /\ TasksOK /\ SourceOK /\ FlagOK /\ SweepsAhead

-----------------------------------------------------------------------------
(* Queues                                                                  *)

\* What RemoveAt returns: the sequence without its i-th element.
LEMMA RemoveAtProperties ==
  ASSUME NEW S, NEW s \in Seq(S), NEW i \in 1..Len(s)
  PROVE  /\ RemoveAt(s, i) \in Seq(S)
         /\ Len(RemoveAt(s, i)) = Len(s) - 1
         /\ \A j \in 1..(Len(s) - 1) :
              RemoveAt(s, i)[j] = IF j < i THEN s[j] ELSE s[j + 1]
<1> DEFINE u == SubSeq(s, 1, i - 1)
           v == SubSeq(s, i + 1, Len(s))
<1>1. u \in Seq(S) /\ Len(u) = i - 1 /\ \A j \in 1..(i - 1) : u[j] = s[j]
  BY SubSeqProperties, SMTT(30)
<1>2. v \in Seq(S) /\ Len(v) = Len(s) - i /\ \A j \in 1..(Len(s) - i) : v[j] = s[i + j]
  BY SubSeqProperties, SMTT(30)
<1>3. RemoveAt(s, i) = u \o v
  BY DEF RemoveAt
<1> HIDE DEF u, v
<1>4. u \o v \in Seq(S) /\ Len(u \o v) = Len(s) - 1
  <2>1. u \o v \in Seq(S) /\ Len(u \o v) = Len(u) + Len(v)
    BY <1>1, <1>2, ConcatProperties
  <2>2. Len(s) \in Nat /\ i \in Int
    BY LenProperties
  <2>3. Len(u) + Len(v) = Len(s) - 1
    BY <1>1, <1>2, <2>2
  <2> QED BY <2>1, <2>3
<1>5. ASSUME NEW j \in 1..(Len(s) - 1)
      PROVE  (u \o v)[j] = IF j < i THEN s[j] ELSE s[j + 1]
  <2>1. CASE j < i
    BY <1>1, <1>2, <2>1, ConcatProperties
  <2>2. CASE ~(j < i)
    <3>1. j - (i - 1) \in 1..(Len(s) - i)
      BY <2>2
    <3>2. (u \o v)[j] = v[j - (i - 1)]
      BY <1>1, <1>2, <2>2, ConcatProperties
    <3>3. v[j - (i - 1)] = s[i + (j - (i - 1))]
      BY <1>2, <3>1
    <3>4. i + (j - (i - 1)) = j + 1
      OBVIOUS
    <3> QED BY <3>2, <3>3, <3>4, <2>2
  <2> QED BY <2>1, <2>2
<1> QED BY <1>3, <1>4, <1>5

\* One more task at the end of the queue.
LEMMA AppendQueue ==
  ASSUME NEW S, NEW q \in Seq(S), NEW a \in S, Unique(q), a \notin Range(q)
  PROVE  /\ Append(q, a) \in Seq(S) /\ Unique(Append(q, a))
         /\ Range(Append(q, a)) = Range(q) \union {a}
<1> DEFINE r == Append(q, a)
<1>1. /\ r \in Seq(S) /\ Len(r) = Len(q) + 1 /\ r[Len(q) + 1] = a
      /\ \A i \in 1..Len(q) : r[i] = q[i]
  BY AppendProperties
<1>2. Len(q) \in Nat /\ DOMAIN q = 1..Len(q) /\ DOMAIN r = 1..(Len(q) + 1)
  BY <1>1, LenProperties
<1> HIDE DEF r
<1>3. \A i \in 1..(Len(q) + 1) : i \in 1..Len(q) \/ i = Len(q) + 1
  BY <1>2
<1>4. \A i \in 1..Len(q) : q[i] # a
  BY <1>2 DEF Range
<1>5. Unique(r)
  BY <1>1, <1>2, <1>3, <1>4 DEF Unique
<1>6. Range(r) = Range(q) \union {a}
  BY <1>1, <1>2, <1>3 DEF Range
<1> QED BY <1>1, <1>5, <1>6 DEF r

\* The holder leaves the head of the queue.
LEMMA TailQueue ==
  ASSUME NEW S, NEW q \in Seq(S), q # <<>>, Unique(q)
  PROVE  /\ Tail(q) \in Seq(S) /\ Unique(Tail(q))
         /\ Head(q) \in S /\ Head(q) \in Range(q)
         /\ Range(Tail(q)) = Range(q) \ {Head(q)}
<1> DEFINE r == Tail(q)
<1>1. /\ r \in Seq(S) /\ Len(r) = Len(q) - 1 /\ Head(q) = q[1]
      /\ \A i \in 1..Len(r) : r[i] = q[i + 1]
  BY HeadTailProperties
<1>2. /\ Len(q) \in Nat /\ Len(q) > 0
      /\ DOMAIN q = 1..Len(q) /\ DOMAIN r = 1..(Len(q) - 1)
  BY <1>1, LenProperties, EmptySeq
<1> HIDE DEF r
<1>3. 1 \in DOMAIN q /\ q[1] \in S
  BY <1>2, ElementOfSeq
<1>4. ASSUME NEW i \in DOMAIN r PROVE i + 1 \in DOMAIN q /\ i + 1 # 1 /\ r[i] = q[i + 1]
  BY <1>1, <1>2
<1>5. ASSUME NEW i \in DOMAIN q, i # 1 PROVE i - 1 \in DOMAIN r /\ r[i - 1] = q[i]
  <2>1. i - 1 \in 1..Len(r) /\ (i - 1) + 1 = i
    BY <1>1, <1>2, <1>5
  <2> QED BY <2>1, <1>1, <1>2
<1>6. Unique(r)
  <2> SUFFICES ASSUME NEW i \in DOMAIN r, NEW j \in DOMAIN r, r[i] = r[j] PROVE i = j
    BY DEF Unique
  <2>1. i + 1 = j + 1
    BY <1>4 DEF Unique
  <2> QED BY <2>1, <1>2
<1>7. Range(r) \subseteq Range(q) \ {q[1]}
  <2> SUFFICES ASSUME NEW i \in DOMAIN r PROVE r[i] \in Range(q) /\ r[i] # q[1]
    BY DEF Range
  <2> QED BY <1>3, <1>4 DEF Unique, Range
<1>8. Range(q) \ {q[1]} \subseteq Range(r)
  <2> SUFFICES ASSUME NEW i \in DOMAIN q, q[i] # q[1] PROVE q[i] \in Range(r)
    BY DEF Range
  <2> QED BY <1>5 DEF Range
<1> QED BY <1>1, <1>3, <1>6, <1>7, <1>8 DEF r, Range

\* A task leaves the queue from any place.
LEMMA RemoveQueue ==
  ASSUME NEW S, NEW q \in Seq(S), NEW k \in DOMAIN q, Unique(q)
  PROVE  /\ RemoveAt(q, k) \in Seq(S) /\ Unique(RemoveAt(q, k))
         /\ Range(RemoveAt(q, k)) = Range(q) \ {q[k]}
<1> DEFINE r == RemoveAt(q, k)
<1>1. Len(q) \in Nat /\ DOMAIN q = 1..Len(q) /\ k \in 1..Len(q)
  BY LenProperties
<1>2. /\ r \in Seq(S) /\ Len(r) = Len(q) - 1
      /\ \A j \in 1..(Len(q) - 1) : r[j] = IF j < k THEN q[j] ELSE q[j + 1]
  BY <1>1, RemoveAtProperties
<1>3. DOMAIN r = 1..(Len(q) - 1)
  BY <1>2, LenProperties
<1> HIDE DEF r
<1>4. ASSUME NEW i \in DOMAIN r, NEW j \in DOMAIN r, r[i] = r[j] PROVE i = j
  <2> DEFINE pos(x) == IF x < k THEN x ELSE x + 1
  <2>1. pos(i) \in DOMAIN q /\ pos(j) \in DOMAIN q /\ r[i] = q[pos(i)] /\ r[j] = q[pos(j)]
    BY <1>1, <1>2, <1>3
  <2>2. pos(i) = pos(j)
    BY <2>1, <1>4 DEF Unique
  <2> QED BY <2>2, <1>1, <1>3
<1>5. ASSUME NEW i \in DOMAIN r PROVE r[i] \in Range(q) /\ r[i] # q[k]
  <2> DEFINE pos == IF i < k THEN i ELSE i + 1
  <2>1. pos \in DOMAIN q /\ r[i] = q[pos] /\ pos # k
    BY <1>1, <1>2, <1>3
  <2> HIDE DEF pos
  <2> QED BY <2>1 DEF Unique, Range
<1>6. ASSUME NEW i \in DOMAIN q, q[i] # q[k] PROVE q[i] \in Range(r)
  <2> DEFINE pos == IF i < k THEN i ELSE i - 1
  <2>1. pos \in DOMAIN r /\ r[pos] = q[i]
    BY <1>1, <1>2, <1>3, <1>6
  <2> HIDE DEF pos
  <2> QED BY <2>1 DEF Range
<1>7. Range(r) = Range(q) \ {q[k]}
  BY <1>5, <1>6 DEF Range
<1> QED BY <1>2, <1>4, <1>7 DEF r, Unique

\* Who is at the head has nobody ahead.
LEMMA AheadHead ==
  ASSUME NEW S, NEW q \in Seq(S), q # <<>>, NEW a, NEW b, AheadOf(a, b, q)
  PROVE  Head(q) # b
<1>1. 1 \in DOMAIN q /\ Head(q) = q[1]
  BY LenProperties, EmptySeq
<1> QED BY <1>1 DEF AheadOf

\* The order survives that a third task leaves the head ...
LEMMA AheadTail ==
  ASSUME NEW S, NEW q \in Seq(S), q # <<>>, NEW a, NEW b, AheadOf(a, b, q), Head(q) # a
  PROVE  AheadOf(a, b, Tail(q))
<1> DEFINE r == Tail(q)
<1>1. /\ r \in Seq(S) /\ Len(r) = Len(q) - 1 /\ Head(q) = q[1]
      /\ \A i \in 1..Len(r) : r[i] = q[i + 1]
  BY HeadTailProperties
<1>2. Len(q) \in Nat /\ DOMAIN q = 1..Len(q) /\ DOMAIN r = 1..(Len(q) - 1)
  BY <1>1, LenProperties
<1> HIDE DEF r
<1>3. ASSUME NEW j \in DOMAIN r, r[j] = b PROVE \E i \in 1..(j - 1) : r[i] = a
  <2>1. j + 1 \in DOMAIN q /\ q[j + 1] = b
    BY <1>1, <1>2, <1>3
  <2>2. PICK i \in 1..j : q[i] = a
    BY <2>1 DEF AheadOf
  <2>3. i # 1
    BY <1>1, <2>2
  <2>4. i - 1 \in 1..Len(r) /\ i - 1 \in 1..(j - 1) /\ (i - 1) + 1 = i
    BY <1>1, <1>2, <2>2, <2>3
  <2>5. r[i - 1] = a
    BY <1>1, <2>2, <2>4
  <2> QED BY <2>4, <2>5
<1> QED BY <1>3 DEF AheadOf, r

\* ... or joins the end, ...
LEMMA AheadAppend ==
  ASSUME NEW S, NEW q \in Seq(S), NEW c \in S, NEW a, NEW b, AheadOf(a, b, q), c # b
  PROVE  AheadOf(a, b, Append(q, c))
<1> DEFINE r == Append(q, c)
<1>1. /\ r \in Seq(S) /\ Len(r) = Len(q) + 1 /\ r[Len(q) + 1] = c
      /\ \A i \in 1..Len(q) : r[i] = q[i]
  BY AppendProperties
<1>2. Len(q) \in Nat /\ DOMAIN q = 1..Len(q) /\ DOMAIN r = 1..(Len(q) + 1)
  BY <1>1, LenProperties
<1> HIDE DEF r
<1>3. ASSUME NEW j \in DOMAIN r, r[j] = b PROVE \E i \in 1..(j - 1) : r[i] = a
  <2>1. j \in DOMAIN q /\ q[j] = b
    BY <1>1, <1>2, <1>3
  <2>2. PICK i \in 1..(j - 1) : q[i] = a
    BY <2>1 DEF AheadOf
  <2>3. i \in 1..Len(q)
    BY <1>2, <2>1, <2>2
  <2> QED BY <1>1, <2>2, <2>3
<1> QED BY <1>3 DEF AheadOf, r

\* ... and begins when b joins a queue that holds a.
LEMMA AheadBegins ==
  ASSUME NEW S, NEW q \in Seq(S), NEW a, NEW b \in S, a \in Range(q), b \notin Range(q)
  PROVE  AheadOf(a, b, Append(q, b))
<1> DEFINE r == Append(q, b)
<1>1. /\ r \in Seq(S) /\ Len(r) = Len(q) + 1
      /\ \A i \in 1..Len(q) : r[i] = q[i]
  BY AppendProperties
<1>2. Len(q) \in Nat /\ DOMAIN q = 1..Len(q) /\ DOMAIN r = 1..(Len(q) + 1)
  BY <1>1, LenProperties
<1> HIDE DEF r
<1>3. PICK i \in 1..Len(q) : q[i] = a
  BY <1>2 DEF Range
<1>4. ASSUME NEW j \in DOMAIN r, r[j] = b PROVE j = Len(q) + 1
  <2>1. j \notin 1..Len(q)
    BY <1>1, <1>2, <1>4 DEF Range
  <2> QED BY <1>2, <2>1
<1>5. i \in 1..((Len(q) + 1) - 1) /\ r[i] = a
  BY <1>1, <1>2, <1>3
<1> QED BY <1>4, <1>5 DEF AheadOf, r

\* Joining the end of a queue leaves its head.
LEMMA AppendHead ==
  ASSUME NEW S, NEW q \in Seq(S), q # <<>>, NEW c \in S
  PROVE  Append(q, c) # <<>> /\ Head(Append(q, c)) = Head(q)
<1> DEFINE r == Append(q, c)
<1>1. /\ r \in Seq(S) /\ Len(r) = Len(q) + 1
      /\ \A i \in 1..Len(q) : r[i] = q[i]
  BY AppendProperties
<1>2. Len(q) \in Nat /\ Len(q) >= 1 /\ Head(q) = q[1]
  BY EmptySeq, LenProperties, HeadTailProperties
<1> HIDE DEF r
<1>3. r # <<>> /\ r[1] = q[1]
  BY <1>1, <1>2, EmptySeq
<1> QED BY <1>1, <1>2, <1>3, HeadTailProperties DEF r

-----------------------------------------------------------------------------
(* What the parts of a handler do to the invariant                         *)

\* The values that handlers put into locals and replies are typed.
LEMMA ValuesOK ==
  /\ Fresh \in Locals /\ NoReply \in Replies /\ Ok \in Replies /\ Failed \in Replies
  /\ Holder \in Actors /\ Getters \subseteq Actors
BY ActorsAssumption DEF Fresh, Locals, NoReply, Replies, Ok, Failed, Holder, Getters

\* A task that starts to wait.
LEMMA CallTasks ==
  ASSUME IInv, NEW a \in Actors, NEW p \in Awaiting, NEW l \in Locals, Call(a, p, l),
         p \in Named => l.cur \in Names, p \in Slugged => l.slug \in Slugs
  PROVE  ServerOK' /\ TasksOK'
<1> USE DEF IInv, TasksOK
<1>1. ServerOK'
  BY DEF ServerOK, Call, server
<1>2. pc' \in [Actors -> Awaiting \union {"idle", "stage"}] /\ loc' \in [Actors -> Locals]
  BY DEF Call
<1>3. NamesOK' /\ SlugsOK'
  BY DEF Call, NamesOK, SlugsOK
<1>4. a \notin Range(queue)
  BY DEF Call, QueueOK
<1>5. queue' \in Seq(Actors) /\ Unique(queue') /\ Range(queue') = Range(queue) \union {a}
  BY <1>4, AppendQueue DEF Call, QueueOK
<1>6. QueueOK'
  BY <1>5 DEF Call, QueueOK
<1> QED BY <1>1, <1>2, <1>3, <1>5, <1>6

\* The holder of the lock that waits again, for another command.
LEMMA ThenTasks ==
  ASSUME IInv, NEW a \in Actors, NEW p0 \in Awaiting, Returned(a, p0),
         NEW p \in Awaiting, NEW l \in Locals, Then(a, p, l),
         p \in Named => l.cur \in Names, p \in Slugged => l.slug \in Slugs
  PROVE  ServerOK' /\ TasksOK'
<1> USE DEF IInv, TasksOK
<1>1. ServerOK'
  BY ValuesOK DEF ServerOK, Then, Release, server
<1>2. pc' \in [Actors -> Awaiting \union {"idle", "stage"}] /\ loc' \in [Actors -> Locals]
  BY DEF Then
<1>3. NamesOK' /\ SlugsOK'
  BY DEF Then, NamesOK, SlugsOK
<1>4. /\ Tail(queue) \in Seq(Actors) /\ Unique(Tail(queue))
      /\ Range(Tail(queue)) = Range(queue) \ {a} /\ a \in Range(queue)
  BY TailQueue DEF Returned, QueueOK
<1>5. queue' \in Seq(Actors) /\ Unique(queue') /\ Range(queue') = Range(queue)
  <2>1. a \notin Range(Tail(queue)) /\ queue' = Append(Tail(queue), a)
    BY <1>4 DEF Then
  <2> DEFINE rest == Tail(queue)
  <2> HIDE DEF rest
  <2>2. rest \in Seq(Actors) /\ Unique(rest) /\ a \notin Range(rest)
    BY <1>4, <2>1 DEF rest
  <2>3. /\ Append(rest, a) \in Seq(Actors) /\ Unique(Append(rest, a))
        /\ Range(Append(rest, a)) = Range(rest) \union {a}
    BY <2>2, AppendQueue
  <2> QED BY <1>4, <2>1, <2>3 DEF rest
<1>6. QueueOK'
  BY <1>4, <1>5 DEF Then, QueueOK
<1> QED BY <1>1, <1>2, <1>3, <1>5, <1>6

\* The holder of the lock whose handler ends.
LEMMA DoneTasks ==
  ASSUME IInv, NEW a \in Actors, NEW p0 \in Awaiting, Returned(a, p0), Done(a)
  PROVE  ServerOK' /\ TasksOK'
<1> USE DEF IInv, TasksOK
<1>0. "idle" \notin Awaiting \union Named \union Slugged
  BY DEF Awaiting, Named, Slugged, Listing, Uploading, Trashing
<1>1. ServerOK'
  BY ValuesOK DEF ServerOK, Done, Release, server
<1>2. pc' \in [Actors -> Awaiting \union {"idle", "stage"}] /\ loc' \in [Actors -> Locals]
  BY ValuesOK DEF Done
<1>3. NamesOK' /\ SlugsOK'
  BY <1>0 DEF Done, NamesOK, SlugsOK
<1>4. /\ Tail(queue) \in Seq(Actors) /\ Unique(Tail(queue))
      /\ Range(Tail(queue)) = Range(queue) \ {a}
  BY TailQueue DEF Returned, QueueOK
<1>5. QueueOK'
  BY <1>0, <1>4 DEF Done, QueueOK
<1> QED BY <1>1, <1>2, <1>3, <1>4, <1>5 DEF Done

\* Joining the queue leaves every sweep of a tar ahead of the upload.
LEMMA CallSweeps ==
  ASSUME IInv, NEW a \in Actors, NEW p \in Awaiting, NEW l \in Locals, Call(a, p, l),
         p \notin {"sweep", "upMeta"}
  PROVE  SweepsAhead'
<1> USE DEF IInv, TasksOK
<1> SUFFICES ASSUME NEW b \in Actors, pc'[b] = "sweep", IsTar(loc'[b].cur),
                    pc'[Holder] \in {"upTar", "upMeta"}
             PROVE  pc'[Holder] = "upTar" /\ AheadOf(b, Holder, queue')
  BY DEF SweepsAhead, SweepAhead
<1>1. b # a /\ pc[b] = "sweep" /\ IsTar(loc[b].cur)
  BY DEF Call
<1>2. a \notin Range(queue) /\ b \in Range(queue)
  BY <1>1 DEF Call, QueueOK, Awaiting, Trashing
<1>3. CASE a = Holder
  BY <1>2, <1>3, AheadBegins DEF Call
<1>4. CASE a # Holder
  <2>1. pc[Holder] = pc'[Holder]
    BY <1>4, ValuesOK DEF Call
  <2>2. pc[Holder] = "upTar" /\ AheadOf(b, Holder, queue)
    BY <1>1, <2>1 DEF SweepsAhead, SweepAhead
  <2> QED BY <2>1, <2>2, <1>4, AheadAppend DEF Call
<1> QED BY <1>3, <1>4

\* So does leaving its head, when a tar is swept only with no upload in flight.
LEMMA HeadSweeps ==
  ASSUME IInv, NEW a \in Actors, NEW p0 \in Awaiting, Returned(a, p0), NEW p, NEW l,
         pc' = [pc EXCEPT ![a] = p], loc' = [loc EXCEPT ![a] = l],
         queue' \in {Tail(queue), Append(Tail(queue), a)},
         p # "upTar", p = "upMeta" => p0 = "upTar",
         p = "sweep" /\ IsTar(l.cur) => ~uploading
  PROVE  SweepsAhead'
<1> USE DEF IInv, TasksOK
<1> SUFFICES ASSUME NEW b \in Actors, pc'[b] = "sweep", IsTar(loc'[b].cur),
                    pc'[Holder] \in {"upTar", "upMeta"}
             PROVE  pc'[Holder] = "upTar" /\ AheadOf(b, Holder, queue')
  BY DEF SweepsAhead, SweepAhead
<1>1. b # a
  <2> SUFFICES ASSUME b = a PROVE FALSE
    OBVIOUS
  <2>1. p = "sweep" /\ IsTar(l.cur) /\ a # Holder
    BY ValuesOK
  <2>2. pc[Holder] \in Saving
    BY <2>1, ValuesOK DEF Saving
  <2> QED BY <2>1, <2>2 DEF FlagOK
<1>2. pc[b] = "sweep" /\ IsTar(loc[b].cur)
  BY <1>1
<1>3. a # Holder
  <2> SUFFICES ASSUME a = Holder PROVE FALSE
    OBVIOUS
  <2>1. pc[Holder] = "upTar"
    BY ValuesOK DEF Returned
  <2>2. AheadOf(b, Holder, queue)
    BY <1>2, <2>1 DEF SweepsAhead, SweepAhead
  <2> QED BY <2>2, AheadHead DEF Returned
<1>4. pc'[Holder] = pc[Holder]
  BY <1>3, ValuesOK
<1>5. pc[Holder] = "upTar" /\ AheadOf(b, Holder, queue)
  BY <1>2, <1>4 DEF SweepsAhead, SweepAhead
<1>6. AheadOf(b, Holder, Tail(queue)) /\ Tail(queue) \in Seq(Actors)
  BY <1>1, <1>5, AheadTail, HeadTailProperties DEF Returned
<1>7. AheadOf(b, Holder, Append(Tail(queue), a))
  BY <1>3, <1>6, AheadAppend
<1> QED BY <1>4, <1>5, <1>6, <1>7

\* The flag follows a task that neither enters nor leaves save().
LEMMA FlagKept ==
  ASSUME IInv, NEW a \in Actors, NEW p, pc[a] \notin Saving, p \notin Saving,
         pc' = [pc EXCEPT ![a] = p], uploading' = uploading
  PROVE  FlagOK'
BY ValuesOK DEF IInv, TasksOK, FlagOK

\* A handler outside save() that waits again ...
LEMMA ThenKept ==
  ASSUME IInv, NEW a \in Actors, NEW p0 \in Awaiting \ Saving, Returned(a, p0),
         NEW p \in Awaiting \ Saving, NEW l \in Locals, Then(a, p, l), uploading' = uploading,
         p \in Named => l.cur \in Names, p \in Slugged => l.slug \in Slugs,
         p = "sweep" /\ IsTar(l.cur) => ~uploading
  PROVE  ServerOK' /\ TasksOK' /\ FlagOK' /\ SweepsAhead'
<1>1. ServerOK' /\ TasksOK'
  BY ThenTasks
<1>2. SweepsAhead'
  BY HeadSweeps DEF Then, Saving
<1>3. FlagOK'
  BY FlagKept DEF Then, Returned
<1> QED BY <1>1, <1>2, <1>3

\* ... or ends.
LEMMA DoneKept ==
  ASSUME IInv, NEW a \in Actors, NEW p0 \in Awaiting \ Saving, Returned(a, p0), Done(a),
         uploading' = uploading
  PROVE  ServerOK' /\ TasksOK' /\ FlagOK' /\ SweepsAhead'
<1>1. ServerOK' /\ TasksOK'
  BY DoneTasks
<1>2. SweepsAhead'
  BY HeadSweeps DEF Done
<1>3. FlagOK'
  BY FlagKept DEF Done, Returned, Saving
<1> QED BY <1>1, <1>2, <1>3

-----------------------------------------------------------------------------
(* get()                                                                   *)

\* get() returns: only the view of the destination changes.
LEMMA ReturnKept ==
  ASSUME IInv, NEW a \in Actors, NEW p0 \in Awaiting \ Saving, Returned(a, p0),
         NEW found \in SUBSET Slugs, Return(a, found), uploading' = uploading
  PROVE  ServerOK' /\ TasksOK' /\ FlagOK' /\ SweepsAhead' /\ known' \subseteq Slugs
BY DoneKept DEF Return, IInv, SourceOK

\* The sweep trashes a tar only when no upload is in flight.
LEMMA SweepOnKept ==
  ASSUME IInv, NEW a \in Actors, NEW p0 \in Awaiting \ Saving, Returned(a, p0),
         NEW l \in Locals, SweepOn(a, l), uploading' = uploading
  PROVE  ServerOK' /\ TasksOK' /\ FlagOK' /\ SweepsAhead' /\ known' \subseteq Slugs
<1> DEFINE metas == {n \in l.todo \ l.bad : ~IsTar(n)}
           tars  == {n \in l.todo \ l.bad : IsTar(n)}
<1>1. l.todo \subseteq Names /\ l.found \subseteq Slugs
  BY DEF Locals
<1>2. "sweep" \in Awaiting \ Saving /\ "sweep" \notin Slugged
  BY DEF Awaiting, Trashing, Saving, Slugged
<1>3. ASSUME NEW n \in l.todo, Then(a, "sweep", [l EXCEPT !.cur = n, !.todo = @ \ {n}]),
             known' = known, IsTar(n) => ~uploading
      PROVE  ServerOK' /\ TasksOK' /\ FlagOK' /\ SweepsAhead' /\ known' \subseteq Slugs
  <2> DEFINE k == [l EXCEPT !.cur = n, !.todo = @ \ {n}]
  <2>1. k \in Locals /\ k.cur = n /\ n \in Names
    BY <1>1 DEF Locals
  <2> HIDE DEF k
  <2>2. Then(a, "sweep", k)
    BY <1>3 DEF k
  <2>3. ServerOK' /\ TasksOK' /\ FlagOK' /\ SweepsAhead'
    BY <1>2, <1>3, <2>1, <2>2, ThenKept
  <2> QED BY <2>3, <1>3 DEF IInv, SourceOK
<1>4. CASE \E n \in metas : Then(a, "sweep", [l EXCEPT !.cur = n, !.todo = @ \ {n}]) /\ known' = known
  BY <1>3, <1>4
<1>5. CASE /\ ~UploadSince(l)
           /\ \E n \in tars : Then(a, "sweep", [l EXCEPT !.cur = n, !.todo = @ \ {n}]) /\ known' = known
  BY <1>3, <1>5 DEF UploadSince
<1>6. CASE Return(a, l.found)
  BY <1>1, <1>6, ReturnKept
<1> QED BY <1>4, <1>5, <1>6 DEF SweepOn

\* Dropping cached sidecars and listing again sweeps nothing yet.
LEMMA ClassifyKept ==
  ASSUME IInv, NEW a \in Actors, NEW p0 \in Awaiting \ Saving, Returned(a, p0),
         NEW l \in Locals, NEW c \in SUBSET Slugs, Classify(a, l, c), uploading' = uploading
  PROVE  /\ ServerOK' /\ TasksOK' /\ FlagOK' /\ SweepsAhead'
         /\ known' \subseteq Slugs /\ cache' \subseteq Slugs
<1> DEFINE orphans == {n \in Unpaired(l.seen) : IsTar(n) => ~l.latched /\ starts = l.mark}
           k == [l EXCEPT !.cur = NoName, !.todo = orphans]
<1>1. cache' \subseteq Slugs
  BY DEF Classify
<1>2. CASE Return(a, l.found)
  BY <1>1, <1>2, ReturnKept DEF Locals
<1>3. CASE Then(a, "relist", k) /\ known' = known
  <2>1. k \in Locals
    BY DEF Locals, Unpaired
  <2>2. "relist" \in Awaiting \ Saving /\ "relist" \notin Named \union Slugged
    BY DEF Awaiting, Listing, Uploading, Trashing, Saving, Named, Slugged
  <2> HIDE DEF k
  <2>3. ServerOK' /\ TasksOK' /\ FlagOK' /\ SweepsAhead'
    BY <1>3, <2>1, <2>2, ThenKept
  <2> QED BY <1>1, <1>3, <2>3 DEF IInv, SourceOK
<1> QED BY <1>2, <1>3 DEF Classify

\* Loading the next sidecar, or classifying when there is none left.
LEMMA LoadOnKept ==
  ASSUME IInv, NEW a \in Actors, NEW p0 \in Awaiting \ Saving, Returned(a, p0),
         NEW l \in Locals, NEW c \in SUBSET Slugs, LoadOn(a, l, c), uploading' = uploading
  PROVE  /\ ServerOK' /\ TasksOK' /\ FlagOK' /\ SweepsAhead'
         /\ known' \subseteq Slugs /\ cache' \subseteq Slugs
<1> DEFINE missing == {n \in l.todo : n[2] \notin c}
           hits == l.found \union {n[2] : n \in l.todo \ missing}
<1>1. l.todo \subseteq Names /\ hits \subseteq Slugs
  BY DEF Locals, Names
<1>2. CASE Classify(a, [l EXCEPT !.found = hits], c)
  <2>1. [l EXCEPT !.found = hits] \in Locals
    BY <1>1 DEF Locals
  <2> QED BY <1>2, <2>1, ClassifyKept
<1>3. CASE \E n \in missing :
             /\ Then(a, "load", [l EXCEPT !.found = hits, !.cur = n, !.todo = missing \ {n}])
             /\ cache' = c /\ known' = known
  <2> PICK n \in missing :
             /\ Then(a, "load", [l EXCEPT !.found = hits, !.cur = n, !.todo = missing \ {n}])
             /\ cache' = c /\ known' = known
    BY <1>3
  <2> DEFINE k == [l EXCEPT !.found = hits, !.cur = n, !.todo = missing \ {n}]
  <2>1. k \in Locals /\ k.cur \in Names
    BY <1>1 DEF Locals
  <2>2. "load" \in Awaiting \ Saving /\ "load" \notin Slugged /\ "load" # "sweep"
    BY DEF Awaiting, Saving, Slugged
  <2> HIDE DEF k
  <2>3. Then(a, "load", k)
    BY DEF k
  <2>4. ServerOK' /\ TasksOK' /\ FlagOK' /\ SweepsAhead'
    BY <2>1, <2>2, <2>3, ThenKept
  <2> QED BY <2>4 DEF IInv, SourceOK
<1> QED BY <1>2, <1>3 DEF LoadOn

\* The commands of get(), whoever runs it.
LEMMA GetKept ==
  ASSUME IInv, NEW a \in Getters, Get(a)
  PROVE  IInv'
<1> USE DEF IInv
<1>0. /\ {"list", "listAgain", "load", "relist", "sweep"} \subseteq Awaiting \ Saving
      /\ {"list", "listAgain", "relist"} \cap (Named \union Slugged) = {}
      /\ a \in Actors /\ loc[a] \in Locals
  BY ValuesOK DEF Awaiting, Listing, Uploading, Trashing, Saving, Named, Slugged, TasksOK
<1>1. CASE StartGet(a)
  <2> DEFINE l == [Fresh EXCEPT !.latched = uploading, !.mark = starts]
  <2>1. l \in Locals
    BY ValuesOK DEF Locals, Fresh, SourceOK
  <2>2. Call(a, "list", l) /\ pc[a] = "idle"
    BY <1>1 DEF StartGet
  <2> HIDE DEF l
  <2>3. ServerOK' /\ TasksOK'
    BY <1>0, <2>1, <2>2, CallTasks
  <2>4. SweepsAhead'
    BY <1>0, <2>1, <2>2, CallSweeps
  <2>5. UNCHANGED <<source, stored>>
    BY <1>1 DEF StartGet
  <2>6. FlagOK'
    BY <1>0, <2>2, <2>5, FlagKept DEF Call, source, Saving
  <2>7. SourceOK'
    BY <2>5 DEF SourceOK, source
  <2> QED BY <2>3, <2>4, <2>6, <2>7
<1>2. CASE Listed(a)
  <2>1. UNCHANGED <<uploading, starts, stored>>
    BY <1>2 DEF Listed
  <2> PICK p0 \in {"list", "listAgain"} : Returned(a, p0) /\ pc[a] = p0
    BY <1>2 DEF Listed, Returned
  <2>2. CASE reply.ok
    <3> DEFINE l == [loc[a] EXCEPT !.seen = reply.files,
                     !.todo = {n \in reply.files : ~IsTar(n) /\ Partner(n) \in reply.files}]
    <3>1. l \in Locals
      BY <1>0 DEF ServerOK, Replies, Locals
    <3>2. LoadOn(a, l, cache)
      BY <1>2, <2>2 DEF Listed
    <3> HIDE DEF l
    <3>3. cache \in SUBSET Slugs
      BY DEF SourceOK
    <3> QED BY <1>0, <2>1, <3>1, <3>2, <3>3, LoadOnKept DEF SourceOK
  <2>3. CASE ~reply.ok
    <3>1. UNCHANGED <<known, cache>>
      BY <1>2, <2>3 DEF Listed
    <3>2. CASE Then(a, "listAgain", loc[a])
      BY <1>0, <2>1, <3>1, <3>2, ThenKept DEF SourceOK
    <3>3. CASE Done(a)
      BY <1>0, <2>1, <3>1, <3>3, DoneKept DEF SourceOK
    <3> QED BY <1>2, <2>3, <3>2, <3>3 DEF Listed
  <2> QED BY <2>2, <2>3
<1>3. CASE Loaded(a)
  <2> DEFINE s == loc[a].cur[2]
  <2>1. UNCHANGED <<uploading, starts, stored>> /\ Returned(a, "load")
    BY <1>3 DEF Loaded
  <2>2. s \in Slugs
    BY <1>0, <2>1 DEF Returned, TasksOK, NamesOK, Named, Names
  <2> HIDE DEF s
  <2>3. [loc[a] EXCEPT !.found = @ \union {s}] \in Locals
    BY <1>0, <2>2 DEF Locals
  <2>4. cache \in SUBSET Slugs /\ cache \union {s} \in SUBSET Slugs
    BY <2>2 DEF SourceOK
  <2>5. CASE LoadOn(a, [loc[a] EXCEPT !.found = @ \union {s}], cache \union {s})
    BY <1>0, <2>1, <2>3, <2>4, <2>5, LoadOnKept DEF SourceOK
  <2>6. CASE LoadOn(a, loc[a], cache)
    BY <1>0, <2>1, <2>4, <2>6, LoadOnKept DEF SourceOK
  <2>7. CASE Done(a) /\ UNCHANGED <<known, cache>>
    BY <1>0, <2>1, <2>7, DoneKept DEF SourceOK
  <2> QED BY <1>3, <2>5, <2>6, <2>7 DEF Loaded, s
<1>4. CASE Relisted(a)
  <2>1. UNCHANGED <<cache, uploading, starts, stored>> /\ Returned(a, "relist")
    BY <1>4 DEF Relisted
  <2>2. CASE reply.ok
    <3> DEFINE names == reply.files \union reply.folders
               l == [loc[a] EXCEPT !.bad = reply.folders,
                     !.todo = {n \in @ : n \in names /\ Partner(n) \notin names}]
    <3>1. l \in Locals
      BY <1>0 DEF ServerOK, Replies, Locals
    <3>2. SweepOn(a, l)
      BY <1>4, <2>2 DEF Relisted
    <3> HIDE DEF l
    <3> QED BY <1>0, <2>1, <3>1, <3>2, SweepOnKept DEF SourceOK
  <2>3. CASE ~reply.ok
    <3>1. Return(a, loc[a].found) /\ loc[a].found \in SUBSET Slugs
      BY <1>0, <1>4, <2>3 DEF Relisted, Locals
    <3> QED BY <1>0, <2>1, <3>1, ReturnKept DEF SourceOK
  <2> QED BY <2>2, <2>3
<1>5. CASE Swept(a)
  <2>1. UNCHANGED <<uploading, starts, stored>> /\ Returned(a, "sweep") /\ SweepOn(a, loc[a])
    BY <1>5 DEF Swept
  <2>2. cache' \subseteq Slugs
    BY <1>5 DEF Swept, SourceOK
  <2> QED BY <1>0, <2>1, <2>2, SweepOnKept DEF SourceOK
<1> QED BY <1>1, <1>2, <1>3, <1>4, <1>5 DEF Get

-----------------------------------------------------------------------------
(* save(), delete(), retain() and note()                                   *)

\* The steps of save(): the flag follows them, and an upload joins behind sweeps.
LEMMA SaveKept ==
  ASSUME IInv, Save
  PROVE  IInv'
<1> USE DEF IInv
<1> DEFINE l == loc[Holder]
<1>0. /\ {"upTar", "upMeta"} \subseteq Awaiting \cap Saving
      /\ {"cleanList", "cleanTrash"} \subseteq Awaiting \ Saving
      /\ {"stage", "upTar", "upMeta", "cleanList", "cleanTrash"} \subseteq Slugged
      /\ "cleanList" \notin Named /\ "idle" \notin Saving /\ "stage" \in Saving
      /\ Holder \in Actors /\ l \in Locals
      /\ pc[Holder] \in Slugged => l.slug \in Slugs
  BY ValuesOK DEF Awaiting, Listing, Uploading, Trashing, Saving, Named, Slugged, TasksOK, SlugsOK
<1>1. ASSUME NEW s \in Slugs, StartSave(s) PROVE IInv'
  <2>1. ServerOK' /\ SourceOK'
    BY <1>1 DEF StartSave, ServerOK, SourceOK, server
  <2>2. [Fresh EXCEPT !.slug = s] \in Locals
    BY ValuesOK DEF Locals, Fresh
  <2>3. TasksOK'
    <3>1. pc' \in [Actors -> Awaiting \union {"idle", "stage"}] /\ loc' \in [Actors -> Locals]
      BY <1>1, <2>2 DEF StartSave, TasksOK
    <3>2. "idle" \notin Awaiting /\ "stage" \notin Awaiting \union Named
      BY DEF Awaiting, Listing, Uploading, Trashing, Named
    <3>3. NamesOK' /\ SlugsOK'
      BY <1>0, <1>1, <3>2 DEF StartSave, TasksOK, NamesOK, SlugsOK, Fresh
    <3>4. QueueOK'
      BY <1>1, <3>2 DEF StartSave, TasksOK, QueueOK
    <3> QED BY <1>1, <3>1, <3>3, <3>4 DEF StartSave, TasksOK
  <2>4. FlagOK'
    BY <1>0, <1>1 DEF StartSave, FlagOK, TasksOK
  <2>5. SweepsAhead'
    BY <1>0, <1>1 DEF StartSave, SweepsAhead, SweepAhead, TasksOK
  <2> QED BY <2>1, <2>3, <2>4, <2>5
<1>2. CASE Staged
  <2> DEFINE k == [l EXCEPT !.cur = Tar(l.slug)]
  <2>1. k \in Locals /\ k.cur \in Names /\ k.slug \in Slugs
    BY <1>0, <1>2 DEF Staged, Locals, Tar, Names
  <2>2. Call(Holder, "upTar", k) /\ UNCHANGED <<source, stored>> /\ pc[Holder] = "stage"
    BY <1>2 DEF Staged
  <2> HIDE DEF k
  <2>3. ServerOK' /\ TasksOK'
    BY <1>0, <2>1, <2>2, CallTasks
  <2>4. SweepsAhead'
    BY <1>0, <2>1, <2>2, CallSweeps
  <2>5. FlagOK' /\ SourceOK'
    BY <1>0, <2>2 DEF Call, FlagOK, SourceOK, source, TasksOK
  <2> QED BY <2>3, <2>4, <2>5
<1>3. CASE StageFails
  <2>1. ServerOK' /\ SourceOK'
    BY <1>3 DEF StageFails, ServerOK, SourceOK, server
  <2>2. TasksOK'
    <3>1. pc' \in [Actors -> Awaiting \union {"idle", "stage"}] /\ loc' \in [Actors -> Locals]
      BY <1>3, ValuesOK DEF StageFails, TasksOK
    <3>2. {"idle", "stage"} \cap Awaiting = {} /\ "idle" \notin Named \union Slugged
      BY DEF Awaiting, Listing, Uploading, Trashing, Named, Slugged
    <3>3. NamesOK' /\ SlugsOK'
      BY <1>3, <3>2 DEF StageFails, TasksOK, NamesOK, SlugsOK
    <3>4. QueueOK'
      BY <1>3, <3>2 DEF StageFails, TasksOK, QueueOK
    <3> QED BY <1>3, <3>1, <3>3, <3>4 DEF StageFails, TasksOK
  <2>3. FlagOK' /\ SweepsAhead'
    BY <1>0, <1>3 DEF StageFails, FlagOK, SweepsAhead, SweepAhead, TasksOK
  <2> QED BY <2>1, <2>2, <2>3
<1>4. CASE TarUploaded
  <2>1. Returned(Holder, "upTar") /\ UNCHANGED <<known, cache, starts, stored>>
    BY <1>4 DEF TarUploaded
  <2>2. CASE Then(Holder, "upMeta", [l EXCEPT !.cur = Meta(l.slug)]) /\ uploading' = uploading
    <3> DEFINE k == [l EXCEPT !.cur = Meta(l.slug)]
    <3>1. k \in Locals /\ k.cur \in Names /\ k.slug \in Slugs
      BY <1>0, <2>1 DEF Returned, Locals, Meta, Names
    <3> HIDE DEF k
    <3>2. Then(Holder, "upMeta", k)
      BY <2>2 DEF k
    <3>3. ServerOK' /\ TasksOK'
      BY <1>0, <2>1, <3>1, <3>2, ThenTasks
    <3>4. SweepsAhead'
      BY <1>0, <2>1, <3>2, HeadSweeps DEF Then
    <3>5. FlagOK' /\ SourceOK'
      BY <1>0, <2>1, <2>2, <3>2 DEF Then, Returned, FlagOK, SourceOK, TasksOK
    <3> QED BY <3>3, <3>4, <3>5
  <2>3. CASE Done(Holder) /\ uploading' = FALSE
    <3>1. ServerOK' /\ TasksOK'
      BY <1>0, <2>1, <2>3, DoneTasks
    <3>2. SweepsAhead'
      BY <1>0, <2>1, <2>3, HeadSweeps DEF Done
    <3>3. FlagOK' /\ SourceOK'
      BY <1>0, <2>1, <2>3 DEF Done, FlagOK, SourceOK, TasksOK
    <3> QED BY <3>1, <3>2, <3>3
  <2> QED BY <1>4, <2>2, <2>3 DEF TarUploaded
<1>5. CASE MetaUploaded
  <2>1. Returned(Holder, "upMeta") /\ uploading' = FALSE /\ starts' = starts
    BY <1>5 DEF MetaUploaded
  <2>2. CASE Done(Holder) /\ known' = known \union {l.slug} /\ cache' = cache \union {l.slug}
             /\ stored' = stored \union {l.slug}
    <3>1. ServerOK' /\ TasksOK'
      BY <1>0, <2>1, <2>2, DoneTasks
    <3>2. SweepsAhead'
      BY <1>0, <2>1, <2>2, HeadSweeps DEF Done
    <3>3. l.slug \in Slugs
      BY <1>0, <2>1 DEF Returned
    <3>4. FlagOK' /\ SourceOK'
      BY <1>0, <2>1, <2>2, <3>3 DEF Done, FlagOK, SourceOK, TasksOK
    <3> QED BY <3>1, <3>2, <3>4
  <2>3. CASE Then(Holder, "cleanList", [l EXCEPT !.cur = NoName]) /\ UNCHANGED <<known, cache, stored>>
    <3> DEFINE k == [l EXCEPT !.cur = NoName]
    <3>1. k \in Locals /\ k.slug \in Slugs
      BY <1>0, <2>1 DEF Returned, Locals
    <3> HIDE DEF k
    <3>2. Then(Holder, "cleanList", k)
      BY <2>3 DEF k
    <3>3. ServerOK' /\ TasksOK'
      BY <1>0, <2>1, <3>1, <3>2, ThenTasks
    <3>4. SweepsAhead'
      BY <1>0, <2>1, <3>2, HeadSweeps DEF Then
    <3>5. FlagOK' /\ SourceOK'
      BY <1>0, <2>1, <2>3, <3>2 DEF Then, FlagOK, SourceOK, TasksOK
    <3> QED BY <3>3, <3>4, <3>5
  <2> QED BY <1>5, <2>2, <2>3 DEF MetaUploaded
<1>6. CASE CleanListed
  <2>1. Returned(Holder, "cleanList") /\ UNCHANGED <<source, stored>> /\ SourceOK'
    BY <1>6 DEF CleanListed, SourceOK, source
  <2>2. CASE Then(Holder, "cleanTrash", [l EXCEPT !.cur = Tar(l.slug)])
    <3> DEFINE k == [l EXCEPT !.cur = Tar(l.slug)]
    <3>1. k \in Locals /\ k.cur \in Names /\ k.slug \in Slugs
      BY <1>0, <2>1 DEF Returned, Locals, Tar, Names
    <3> HIDE DEF k
    <3>2. Then(Holder, "cleanTrash", k)
      BY <2>2 DEF k
    <3> QED BY <1>0, <2>1, <3>1, <3>2, ThenKept DEF source
  <2>3. CASE Done(Holder)
    BY <1>0, <2>1, <2>3, DoneKept DEF source
  <2> QED BY <1>6, <2>2, <2>3 DEF CleanListed
<1>7. CASE CleanTrashed
  <2>1. Returned(Holder, "cleanTrash") /\ Done(Holder) /\ uploading' = uploading /\ SourceOK'
    BY <1>7 DEF CleanTrashed, SourceOK, source
  <2> QED BY <1>0, <2>1, DoneKept
<1> QED BY <1>1, <1>2, <1>3, <1>4, <1>5, <1>6, <1>7 DEF Save

\* The steps of delete().
LEMMA DeleteKept ==
  ASSUME IInv, Delete
  PROVE  IInv'
<1> USE DEF IInv
<1> DEFINE l == loc[Holder]
<1>0. /\ {"delList", "delTar", "delMeta"} \subseteq (Awaiting \ Saving) \cap Slugged
      /\ "delList" \notin Named
      /\ Holder \in Actors /\ l \in Locals
      /\ pc[Holder] \in Slugged => l.slug \in Slugs
  BY ValuesOK DEF Awaiting, Listing, Uploading, Trashing, Saving, Named, Slugged, TasksOK, SlugsOK
<1>1. ASSUME NEW s \in Slugs, StartDelete(s) PROVE IInv'
  <2> DEFINE k == [Fresh EXCEPT !.slug = s]
  <2>1. k \in Locals /\ k.slug \in Slugs
    BY ValuesOK DEF Locals, Fresh
  <2>2. Call(Holder, "delList", k) /\ pc[Holder] = "idle" /\ UNCHANGED <<source, stored>>
    BY <1>1 DEF StartDelete
  <2> HIDE DEF k
  <2>3. ServerOK' /\ TasksOK'
    BY <1>0, <2>1, <2>2, CallTasks
  <2>4. SweepsAhead'
    BY <1>0, <2>1, <2>2, CallSweeps
  <2>5. FlagOK'
    BY <1>0, <2>2, FlagKept DEF Call, source, Saving
  <2>6. SourceOK'
    BY <2>2 DEF SourceOK, source
  <2> QED BY <2>3, <2>4, <2>5, <2>6
<1>2. CASE DelListed
  <2>1. Returned(Holder, "delList") /\ UNCHANGED source
    BY <1>2 DEF DelListed
  <2>2. SourceOK'
    BY <1>2 DEF DelListed, SourceOK, source
  <2>3. CASE Then(Holder, "delTar", [l EXCEPT !.cur = Tar(l.slug)])
    <3> DEFINE k == [l EXCEPT !.cur = Tar(l.slug)]
    <3>1. k \in Locals /\ k.cur \in Names /\ k.slug \in Slugs
      BY <1>0, <2>1 DEF Returned, Locals, Tar, Names
    <3> HIDE DEF k
    <3>2. Then(Holder, "delTar", k)
      BY <2>3 DEF k
    <3> QED BY <1>0, <2>1, <2>2, <3>1, <3>2, ThenKept DEF source
  <2>4. CASE Done(Holder)
    BY <1>0, <2>1, <2>2, <2>4, DoneKept DEF source
  <2> QED BY <1>2, <2>3, <2>4 DEF DelListed
<1>3. CASE DelTarTrashed
  <2>1. Returned(Holder, "delTar") /\ UNCHANGED source /\ SourceOK'
    BY <1>3 DEF DelTarTrashed, SourceOK, source
  <2>2. CASE Then(Holder, "delMeta", [l EXCEPT !.cur = Meta(l.slug)])
    <3> DEFINE k == [l EXCEPT !.cur = Meta(l.slug)]
    <3>1. k \in Locals /\ k.cur \in Names /\ k.slug \in Slugs
      BY <1>0, <2>1 DEF Returned, Locals, Meta, Names
    <3> HIDE DEF k
    <3>2. Then(Holder, "delMeta", k)
      BY <2>2 DEF k
    <3> QED BY <1>0, <2>1, <3>1, <3>2, ThenKept DEF source
  <2>3. CASE Done(Holder)
    BY <1>0, <2>1, <2>3, DoneKept DEF source
  <2> QED BY <1>3, <2>2, <2>3 DEF DelTarTrashed
<1>4. CASE DelMetaTrashed
  <2>1. Returned(Holder, "delMeta") /\ Done(Holder) /\ uploading' = uploading /\ SourceOK'
    BY <1>4 DEF DelMetaTrashed, SourceOK
  <2> QED BY <1>0, <2>1, DoneKept
<1> QED BY <1>1, <1>2, <1>3, <1>4 DEF Delete

\* The steps of retain and note.
LEMMA EditKept ==
  ASSUME IInv, Edit
  PROVE  IInv'
<1> USE DEF IInv
<1>0. "rewrite" \in (Awaiting \ Saving) \cap Slugged
  BY DEF Awaiting, Uploading, Saving, Slugged
<1>1. ASSUME NEW s \in Slugs, StartRewrite(s) PROVE IInv'
  <2> DEFINE k == [Fresh EXCEPT !.slug = s, !.cur = Meta(s)]
  <2>1. k \in Locals /\ k.slug \in Slugs /\ k.cur \in Names
    BY ValuesOK DEF Locals, Fresh, Meta, Names
  <2>2. /\ Call("editor", "rewrite", k) /\ pc["editor"] = "idle" /\ "editor" \in Actors
        /\ UNCHANGED <<source, stored>>
    BY <1>1 DEF StartRewrite
  <2> HIDE DEF k
  <2>3. ServerOK' /\ TasksOK'
    BY <1>0, <2>1, <2>2, CallTasks
  <2>4. SweepsAhead'
    BY <1>0, <2>1, <2>2, CallSweeps
  <2>5. FlagOK'
    BY <1>0, <2>2, FlagKept DEF Call, source, Saving
  <2>6. SourceOK'
    BY <2>2 DEF SourceOK, source
  <2> QED BY <2>3, <2>4, <2>5, <2>6
<1>2. CASE Rewritten
  <2>1. /\ "editor" \in Actors /\ Returned("editor", "rewrite") /\ Done("editor")
        /\ uploading' = uploading
    BY <1>2 DEF Rewritten
  <2>2. loc["editor"].slug \in Slugs
    BY <1>0, <2>1 DEF Returned, TasksOK, SlugsOK
  <2>3. SourceOK'
    BY <1>2, <2>2 DEF Rewritten, SourceOK
  <2> QED BY <1>0, <2>1, <2>3, DoneKept
<1> QED BY <1>1, <1>2 DEF Edit

-----------------------------------------------------------------------------
(* Commands, cancellation, restarts and the user                           *)

\* A command moves files and folders of the names it is about.
LEMMA EffectKept ==
  ASSUME files \subseteq Names, folders \subseteq Names, NEW p, NEW n, Effect(p, n),
         p \in Uploading => n \in Names
  PROVE  files' \subseteq Names /\ folders' \subseteq Names
BY DEF Effect, server

\* What does not touch the tasks and ProtonSource keeps their invariants.
LEMMA ServerStep ==
  ASSUME IInv, UNCHANGED <<source, task, queue, stored>>, ServerOK'
  PROVE  IInv'
<1> USE DEF source, task
<1>1. TasksOK'
  BY DEF IInv, TasksOK, NamesOK, SlugsOK, QueueOK
<1>2. SourceOK' /\ FlagOK' /\ SweepsAhead'
  BY DEF IInv, SourceOK, FlagOK, SweepsAhead, SweepAhead
<1> QED BY <1>1, <1>2 DEF IInv

\* A command that ends, well or not, leaves every task where it is.
LEMMA CommandKept ==
  ASSUME IInv, Command
  PROVE  IInv'
<1> DEFINE a == Head(queue)
<1>1. a \in Actors /\ (pc[a] \in Uploading => loc[a].cur \in Names)
  BY HeadTailProperties DEF Command, CommandSucceeds, CommandFails, IInv, TasksOK, NamesOK, Named
<1>2. files' \subseteq Names /\ folders' \subseteq Names
  BY <1>1, EffectKept DEF Command, CommandSucceeds, CommandFails, IInv, ServerOK, server
<1>3. reply' \in Replies
  <2>1. [Ok EXCEPT !.files = files, !.folders = folders] \in Replies
    BY DEF IInv, ServerOK, Ok, NoReply, Replies
  <2> QED BY <2>1, ValuesOK DEF Command, CommandSucceeds, CommandFails
<1>4. budget' \in [faults : Nat, cancels : Nat, crashes : Nat]
  BY DEF Command, CommandSucceeds, CommandFails, IInv, ServerOK
<1>5. ServerOK'
  BY <1>2, <1>3, <1>4 DEF Command, CommandSucceeds, CommandFails, IInv, ServerOK
<1>6. UNCHANGED <<source, task, queue, stored>>
  BY DEF Command, CommandSucceeds, CommandFails
<1> QED BY <1>5, <1>6, ServerStep

\* A cancelled sync leaves the queue, or stays in it to clean up its tar.
LEMMA CancelKept ==
  ASSUME IInv, Cancel
  PROVE  IInv'
<1> USE DEF IInv
<1> DEFINE place == {i \in DOMAIN queue : queue[i] = Holder}
           left == IF place = {} THEN queue ELSE RemoveAt(queue, CHOOSE i \in place : TRUE)
           cleans == pc[Holder] = "upMeta"
<1>0. /\ Holder \in Actors /\ loc[Holder] \in Locals
      /\ "cleanList" \in Awaiting \ (Saving \union Named) /\ "cleanList" \in Slugged
      /\ "idle" \notin Awaiting \union Saving \union Named \union Slugged
      /\ "upMeta" \in Slugged
  BY ValuesOK DEF Awaiting, Listing, Uploading, Trashing, Saving, Named, Slugged, TasksOK
<1>1. ServerOK'
  <2>1. budget' \in [faults : Nat, cancels : Nat, crashes : Nat]
    BY DEF Cancel, ServerOK
  <2>2. reply' \in Replies
    BY ValuesOK DEF Cancel, ServerOK
  <2>3. zombies' \subseteq (Trashing \union Uploading) \X Names
    BY <1>0 DEF Cancel, ServerOK, TasksOK, NamesOK, Named
  <2> QED BY <2>1, <2>2, <2>3 DEF Cancel, ServerOK, server
<1>2. left \in Seq(Actors) /\ Unique(left) /\ Range(left) = Range(queue) \ {Holder}
  <2>1. CASE place = {}
    BY <2>1 DEF TasksOK, QueueOK, Range
  <2>2. CASE place # {}
    <3> DEFINE k == CHOOSE i \in place : TRUE
    <3>1. k \in DOMAIN queue /\ queue[k] = Holder
      BY <2>2
    <3> HIDE DEF k
    <3>2. /\ RemoveAt(queue, k) \in Seq(Actors) /\ Unique(RemoveAt(queue, k))
          /\ Range(RemoveAt(queue, k)) = Range(queue) \ {Holder}
      BY <3>1, RemoveQueue DEF TasksOK, QueueOK
    <3> QED BY <2>2, <3>2 DEF k
  <2> QED BY <2>1, <2>2
<1> HIDE DEF left, place
<1>3. queue' = (IF cleans THEN Append(left, Holder) ELSE left)
  BY DEF Cancel, left, place
<1>4. /\ queue' \in Seq(Actors) /\ Unique(queue')
      /\ Range(queue') = (IF cleans THEN Range(queue) \union {Holder} ELSE Range(queue) \ {Holder})
  <2>1. CASE cleans
    <3>1. Holder \notin Range(left)
      BY <1>2
    <3>2. /\ Append(left, Holder) \in Seq(Actors) /\ Unique(Append(left, Holder))
          /\ Range(Append(left, Holder)) = Range(left) \union {Holder}
      BY <1>0, <1>2, <3>1, AppendQueue
    <3> QED BY <1>2, <1>3, <2>1, <3>2
  <2>2. CASE ~cleans
    BY <1>2, <1>3, <2>2
  <2> QED BY <2>1, <2>2
<1>5. /\ pc' = [pc EXCEPT ![Holder] = IF cleans THEN "cleanList" ELSE "idle"]
      /\ loc' = [loc EXCEPT ![Holder] = IF cleans THEN [@ EXCEPT !.cur = NoName] ELSE Fresh]
      /\ uploading' = (uploading /\ pc[Holder] \notin Saving)
      /\ UNCHANGED <<known, cache, starts, stored>>
  BY DEF Cancel
<1>6. TasksOK'
  <2>1. [loc[Holder] EXCEPT !.cur = NoName] \in Locals
    BY <1>0 DEF Locals
  <2>2. pc' \in [Actors -> Awaiting \union {"idle", "stage"}] /\ loc' \in [Actors -> Locals]
    BY <1>0, <1>5, <2>1, ValuesOK DEF TasksOK
  <2>3. NamesOK'
    BY <1>0, <1>5 DEF TasksOK, NamesOK
  <2>4. SlugsOK'
    BY <1>0, <1>5 DEF TasksOK, SlugsOK, Locals
  <2>5. QueueOK'
    BY <1>0, <1>4, <1>5 DEF TasksOK, QueueOK
  <2> QED BY <1>4, <2>2, <2>3, <2>4, <2>5 DEF TasksOK
<1>7. SourceOK'
  BY <1>5 DEF SourceOK
<1>8. FlagOK'
  BY <1>0, <1>5 DEF FlagOK, TasksOK
<1>9. SweepsAhead'
  BY <1>0, <1>5 DEF SweepsAhead, SweepAhead, TasksOK
<1> QED BY <1>1, <1>6, <1>7, <1>8, <1>9

\* After a restart no task is at work.
LEMMA CrashKept ==
  ASSUME IInv, Crash
  PROVE  IInv'
<1> USE DEF IInv, Crash
<1>0. "idle" \notin Awaiting \union Saving \union Named \union Slugged
  BY DEF Awaiting, Listing, Uploading, Trashing, Saving, Named, Slugged
<1>1. ServerOK'
  BY ValuesOK DEF ServerOK, server
<1>2. TasksOK'
  <2>1. Unique(<<>>) /\ Range(<<>>) = {} /\ <<>> \in Seq(Actors)
    BY DEF Unique, Range
  <2> QED BY <1>0, <2>1, ValuesOK DEF TasksOK, NamesOK, SlugsOK, QueueOK
<1>3. SourceOK' /\ FlagOK' /\ SweepsAhead'
  BY <1>0, ValuesOK DEF SourceOK, FlagOK, SweepsAhead, SweepAhead
<1> QED BY <1>1, <1>2, <1>3

\* What the user and the world do, step by step.
LEMMA EnvironmentKept ==
  ASSUME IInv, Environment
  PROVE  IInv'
<1>1. CASE ZombieEnds
  <2> PICK z \in zombies : /\ Effect(z[1], z[2]) \/ UNCHANGED server
                           /\ zombies' = zombies \ {z}
    BY <1>1 DEF ZombieEnds
  <2>1. z[2] \in Names
    BY DEF IInv, ServerOK
  <2>2. ServerOK'
    BY <1>1, <2>1, EffectKept DEF ZombieEnds, IInv, ServerOK, server
  <2> QED BY <1>1, <2>2, ServerStep DEF ZombieEnds
<1>2. CASE \E n \in Names : UserAddsFolder(n)
  <2>1. ServerOK'
    BY <1>2 DEF UserAddsFolder, IInv, ServerOK
  <2> QED BY <1>2, <2>1, ServerStep DEF UserAddsFolder
<1> QED BY <1>1, <1>2, CancelKept, CrashKept DEF Environment

-----------------------------------------------------------------------------
(* The theorems                                                            *)

\* The invariant holds in every reachable state, whatever the constants.
THEOREM Invariance == Spec => []IInv
<1>1. Init => IInv
  <2> SUFFICES ASSUME Init PROVE IInv
    OBVIOUS
  <2>0. "idle" \notin Awaiting \union Saving \union Named \union Slugged
    BY DEF Awaiting, Listing, Uploading, Trashing, Saving, Named, Slugged
  <2>1. ServerOK
    BY ValuesOK, BoundsAssumption DEF Init, ServerOK
  <2>2. TasksOK
    <3>1. Unique(<<>>) /\ Range(<<>>) = {} /\ <<>> \in Seq(Actors)
      BY DEF Unique, Range
    <3> QED BY <2>0, <3>1, ValuesOK DEF Init, TasksOK, NamesOK, SlugsOK, QueueOK
  <2>3. SourceOK /\ FlagOK /\ SweepsAhead
    BY <2>0, ValuesOK DEF Init, SourceOK, FlagOK, SweepsAhead, SweepAhead
  <2> QED BY <2>1, <2>2, <2>3 DEF IInv
<1>2. IInv /\ [Next]_vars => IInv'
  <2> SUFFICES ASSUME IInv, [Next]_vars PROVE IInv'
    OBVIOUS
  <2>1. CASE UNCHANGED vars
    <3>1. ServerOK'
      BY <2>1 DEF vars, server, IInv, ServerOK
    <3> QED BY <2>1, <3>1, ServerStep DEF vars
  <2>2. CASE \E a \in Getters : Get(a)
    BY <2>2, GetKept
  <2> QED BY <2>1, <2>2, CommandKept, SaveKept, DeleteKept, EditKept, EnvironmentKept DEF Next
<1> QED BY <1>1, <1>2, PTL DEF Spec

\* Every variable keeps its type, for any slugs, tasks and bounds.
THEOREM TypeCorrect == Spec => []TypeOK
<1>1. IInv => TypeOK
  BY DEF IInv, ServerOK, TasksOK, SourceOK, TypeOK
<1> QED BY <1>1, Invariance, PTL

\* Only the holder of the soft lock deletes a backup and cleans up after an upload.
HolderTrashes == \A a \in Actors \ {Holder} : pc[a] \notin {"cleanTrash", "delTar", "delMeta"}

LEMMA HolderTrashesStep == IInv /\ HolderTrashes /\ [Next]_vars => HolderTrashes'
<1> SUFFICES ASSUME IInv, HolderTrashes, [Next]_vars PROVE HolderTrashes'
  OBVIOUS
<1> DEFINE Elsewhere == {"list", "listAgain", "load", "relist", "sweep", "rewrite", "idle"}
<1>1. ASSUME NEW a \in Actors, NEW p, pc' = [pc EXCEPT ![a] = p], a = Holder \/ p \in Elsewhere
      PROVE  HolderTrashes'
  BY <1>1 DEF HolderTrashes
<1>2. ASSUME UNCHANGED pc PROVE HolderTrashes'
  BY <1>2 DEF HolderTrashes
<1>3. CASE UNCHANGED vars \/ Command \/ ZombieEnds \/ \E n \in Names : UserAddsFolder(n)
  BY <1>2, <1>3 DEF vars, task, Command, CommandSucceeds, CommandFails, ZombieEnds, UserAddsFolder
<1>4. ASSUME NEW a \in Getters, Get(a) PROVE HolderTrashes'
  <2>1. a \in Actors
    BY ValuesOK
  <2>2. CASE StartGet(a)
    BY <1>1, <2>1, <2>2 DEF StartGet, Call
  <2>3. CASE Listed(a) \/ Loaded(a) \/ Relisted(a) \/ Swept(a)
    <3>1. \E p \in Elsewhere : pc' = [pc EXCEPT ![a] = p]
      BY <2>3 DEF Listed, Loaded, Relisted, Swept, SweepOn, LoadOn, Classify, Return, Then, Done
    <3> QED BY <1>1, <2>1, <3>1
  <2> QED BY <1>4, <2>2, <2>3 DEF Get
<1>5. CASE Save \/ Delete
  <2>1. \E p : pc' = [pc EXCEPT ![Holder] = p]
    BY <1>5 DEF Save, StartSave, Staged, StageFails, TarUploaded, MetaUploaded, CleanListed,
       CleanTrashed, Delete, StartDelete, DelListed, DelTarTrashed, DelMetaTrashed, Call, Then, Done
  <2> QED BY <1>1, <2>1, ValuesOK
<1>6. CASE Edit
  <2>1. \E p \in Elsewhere : "editor" \in Actors /\ pc' = [pc EXCEPT !["editor"] = p]
    BY <1>6 DEF Edit, StartRewrite, Rewritten, Call, Done
  <2> QED BY <1>1, <2>1
<1>7. CASE Cancel
  <2>1. \E p : pc' = [pc EXCEPT ![Holder] = p]
    BY <1>7 DEF Cancel
  <2> QED BY <1>1, <2>1, ValuesOK
<1>8. CASE Crash
  BY <1>8 DEF Crash, HolderTrashes
<1> QED BY <1>3, <1>4, <1>5, <1>6, <1>7, <1>8 DEF Next, Environment

\* A step that takes a file away is a trash command, of the lock's holder or left over.
LEMMA WhoTrashes ==
  ASSUME IInv, [Next]_vars, NEW n \in Names, n \in files \ files'
  PROVE  \/ LeftOver(n)
         \/ \E a \in Actors : pc[a] \in Trashing /\ loc[a].cur = n
<1>1. CASE Command
  <2>1. queue # <<>> /\ queue \in Seq(Actors)
    BY <1>1 DEF Command, CommandSucceeds, CommandFails, IInv, TasksOK
  <2>2. Head(queue) \in Actors
    BY <2>1, HeadTailProperties
  <2>3. Effect(pc[Head(queue)], loc[Head(queue)].cur) \/ UNCHANGED server
    BY <1>1 DEF Command, CommandSucceeds, CommandFails
  <2>4. Effect(pc[Head(queue)], loc[Head(queue)].cur)
    BY <2>3 DEF server
  <2>5. pc[Head(queue)] \in Trashing /\ loc[Head(queue)].cur = n
    BY <2>4 DEF Effect, server
  <2> QED BY <2>2, <2>5
<1>2. CASE ZombieEnds
  <2>1. PICK z \in zombies : (Effect(z[1], z[2]) \/ UNCHANGED server) /\ zombies' = zombies \ {z}
    BY <1>2 DEF ZombieEnds
  <2>2. z[1] \in Trashing /\ z[2] = n
    <3>1. Effect(z[1], z[2])
      BY <2>1 DEF server
    <3> QED BY <3>1 DEF Effect, server
  <2>3. z = <<z[1], z[2]>>
    BY DEF IInv, ServerOK
  <2> QED BY <2>1, <2>2, <2>3 DEF LeftOver
<1>3. CASE UNCHANGED files
  BY <1>3
<1>4. CASE Save \/ Delete \/ Edit
  BY <1>3, <1>4 DEF Save, StartSave, Staged, StageFails, TarUploaded, MetaUploaded, CleanListed,
     CleanTrashed, Delete, StartDelete, DelListed, DelTarTrashed, DelMetaTrashed,
     Edit, StartRewrite, Rewritten, Call, Then, Done, Release, server
<1>5. ASSUME NEW a \in Getters, Get(a) PROVE UNCHANGED files
  <2>1. CASE StartGet(a)
    BY <2>1 DEF StartGet, Call, server
  <2>2. ASSUME NEW l, SweepOn(a, l) PROVE UNCHANGED files
    BY <2>2 DEF SweepOn, Return, Then, Done, Release, server
  <2>3. ASSUME NEW l, NEW c, LoadOn(a, l, c) PROVE UNCHANGED files
    BY <2>3 DEF LoadOn, Classify, Return, Then, Done, Release, server
  <2>4. CASE Listed(a) \/ Loaded(a)
    BY <2>3, <2>4 DEF Listed, Loaded, Then, Done, Release, server
  <2>5. CASE Relisted(a) \/ Swept(a)
    BY <2>2, <2>5 DEF Relisted, Swept, Return, Done, Release, server
  <2> QED BY <1>5, <2>1, <2>4, <2>5 DEF Get
<1>6. CASE Cancel \/ Crash \/ (\E n1 \in Names : UserAddsFolder(n1)) \/ UNCHANGED vars
  BY <1>3, <1>6 DEF Cancel, Crash, UserAddsFolder, vars, server
<1> QED BY <1>1, <1>2, <1>4, <1>5, <1>6 DEF Next, Environment

\* Nothing takes the tar of the save() that is writing the sidecar, but a command that
\* outlives the task that was cancelled (protonsource.py lines 248-255, 333-341 and 387;
\* protoncli.py 192): for any number of backups, with failures, cancelled syncs
\* and restarts.
THEOREM UploadIsSpared == Spec => UploadInFlightSpared
<1>1. ASSUME IInv, HolderTrashes, [Next]_vars, NEW s \in Slugs,
             pc[Holder] = "upMeta", loc[Holder].slug = s, Tar(s) \in files \ files'
      PROVE  LeftOver(Tar(s))
  <2>1. Tar(s) \in Names /\ IsTar(Tar(s))
    BY DEF Tar, IsTar, Names
  <2>2. SUFFICES ASSUME NEW a \in Actors, pc[a] \in Trashing, loc[a].cur = Tar(s)
                 PROVE  FALSE
    BY <1>1, <2>1, WhoTrashes
  <2>3. pc[a] = "sweep"
    BY <1>1, <2>2 DEF HolderTrashes, Trashing
  <2> QED BY <1>1, <2>1, <2>2, <2>3 DEF IInv, SweepsAhead, SweepAhead
<1>2. IInv /\ HolderTrashes /\ [Next]_vars =>
        [\A s \in Slugs :
           pc[Holder] = "upMeta" /\ loc[Holder].slug = s /\ Tar(s) \in files \ files'
             => LeftOver(Tar(s))]_vars
  BY <1>1
<1>3. Init => HolderTrashes
  BY DEF Init, HolderTrashes
<1> QED BY <1>2, <1>3, HolderTrashesStep, Invariance, PTL DEF UploadInFlightSpared, Spec

-----------------------------------------------------------------------------
(* No folder is trashed                                                    *)

\* Task a has the answer of its command.
Answered(a) == queue # <<>> /\ Head(queue) = a /\ reply.done

\* A name that a command trashes, now or next, belongs to no folder: it was
\* cleared by a listing, whose answer names every folder there is.
Cleared(a) ==
  /\ pc[a] \in Trashing => loc[a].cur \notin folders
  /\ pc[a] = "sweep" => (loc[a].todo \ loc[a].bad) \cap folders = {}
  /\ pc[a] = "delTar" => Meta(loc[a].slug) \notin folders
  /\ Answered(a) /\ reply.ok /\ pc[a] \in {"relist", "cleanList", "delList"} =>
       folders \subseteq reply.folders

\* So it is for every task and for the commands of cancelled tasks; only the
\* holder of the lock has an answer.
FoldersOK ==
  /\ \A a \in Actors : Cleared(a)
  /\ \A z \in zombies : z[1] \in Trashing => z[2] \notin folders
  /\ reply.done => queue # <<>>

\* A task that moves on has no answer any more; the others keep theirs.
LEMMA MoveAnswered ==
  ASSUME IInv, reply.done => queue # <<>>, NEW a \in Actors,
         \/ reply' = NoReply
         \/ pc[a] \notin Awaiting /\ reply' = reply /\ queue' \in {queue, Append(queue, a)}
  PROVE  /\ \A b \in Actors : Answered(b)' => Answered(b) /\ reply' = reply /\ b # a
         /\ reply'.done => queue' # <<>>
<1>1. queue \in Seq(Actors) /\ QueueOK
  BY DEF IInv, TasksOK
<1>2. ASSUME reply'.done
      PROVE  /\ reply' = reply /\ pc[a] \notin Awaiting /\ queue # <<>>
             /\ queue' # <<>> /\ Head(queue') = Head(queue)
  <2>1. queue' = queue \/ queue' = Append(queue, a)
    BY <1>2 DEF NoReply
  <2>2. reply' = reply /\ pc[a] \notin Awaiting /\ queue # <<>>
    BY <1>2 DEF NoReply
  <2> QED BY <1>1, <2>1, <2>2, AppendHead
<1>3. ASSUME NEW b \in Actors, Answered(b)' PROVE Answered(b) /\ reply' = reply /\ b # a
  <2>1. Head(queue) \in Range(queue)
    BY <1>1, <1>2, <1>3, TailQueue DEF QueueOK, Answered
  <2> QED BY <1>1, <1>2, <1>3, <2>1 DEF Answered, QueueOK
<1> QED BY <1>2, <1>3

\* A task moves on, to a command about a name that is cleared.
LEMMA MoveCleared ==
  ASSUME IInv, FoldersOK, NEW a \in Actors, NEW p, NEW l,
         UNCHANGED <<folders, zombies>>,
         pc' = [pc EXCEPT ![a] = p], loc' = [loc EXCEPT ![a] = l],
         \/ reply' = NoReply
         \/ pc[a] \notin Awaiting /\ reply' = reply /\ queue' \in {queue, Append(queue, a)},
         p \in Trashing => l.cur \notin folders,
         p = "sweep" => (l.todo \ l.bad) \cap folders = {},
         p = "delTar" => Meta(l.slug) \notin folders
  PROVE  FoldersOK'
<1>1. pc \in [Actors -> Awaiting \union {"idle", "stage"}] /\ loc \in [Actors -> Locals]
  BY DEF IInv, TasksOK
<1>2. reply.done => queue # <<>>
  BY DEF FoldersOK
<1>3. /\ \A b \in Actors : Answered(b)' => Answered(b) /\ reply' = reply /\ b # a
      /\ reply'.done => queue' # <<>>
  BY <1>2, MoveAnswered
<1>4. ASSUME NEW b \in Actors PROVE Cleared(b)'
  BY <1>1, <1>3 DEF Cleared, FoldersOK
<1> QED BY <1>3, <1>4 DEF FoldersOK

\* The three ways a handler gives up or keeps the lock.
LEMMA CallCleared ==
  ASSUME IInv, FoldersOK, NEW a \in Actors, NEW p \in Awaiting \ Trashing, NEW l, Call(a, p, l)
  PROVE  FoldersOK'
BY MoveCleared DEF Call, server, Trashing

LEMMA ThenCleared ==
  ASSUME IInv, FoldersOK, NEW a \in Actors, NEW p, NEW l, Then(a, p, l),
         p \in Trashing => l.cur \notin folders,
         p = "sweep" => (l.todo \ l.bad) \cap folders = {},
         p = "delTar" => Meta(l.slug) \notin folders
  PROVE  FoldersOK'
BY MoveCleared DEF Then, Release, server

LEMMA DoneCleared ==
  ASSUME IInv, FoldersOK, NEW a \in Actors, Done(a)
  PROVE  FoldersOK'
<1>1. "idle" \notin Trashing
  BY DEF Trashing
<1> QED BY <1>1, MoveCleared DEF Done, Release, server

\* The sweep goes through names that no folder has.
LEMMA SweepCleared ==
  ASSUME IInv, FoldersOK, NEW a \in Actors, NEW l \in Locals, SweepOn(a, l),
         (l.todo \ l.bad) \cap folders = {}
  PROVE  FoldersOK'
<1>1. CASE Return(a, l.found)
  BY <1>1, DoneCleared DEF Return
<1>2. CASE \E n \in l.todo \ l.bad : Then(a, "sweep", [l EXCEPT !.cur = n, !.todo = @ \ {n}])
  <2> PICK n \in l.todo \ l.bad : Then(a, "sweep", [l EXCEPT !.cur = n, !.todo = @ \ {n}])
    BY <1>2
  <2> DEFINE k == [l EXCEPT !.cur = n, !.todo = @ \ {n}]
  <2>1. k.cur \notin folders /\ (k.todo \ k.bad) \cap folders = {}
    BY DEF Locals
  <2> HIDE DEF k
  <2>2. Then(a, "sweep", k)
    BY DEF k
  <2> QED BY <2>1, <2>2, ThenCleared
<1> QED BY <1>1, <1>2 DEF SweepOn

LEMMA LoadCleared ==
  ASSUME IInv, FoldersOK, NEW a \in Actors, NEW l, NEW c, LoadOn(a, l, c)
  PROVE  FoldersOK'
<1>1. {"load", "relist"} \cap Trashing = {}
  BY DEF Trashing
<1>2. ASSUME NEW found, Return(a, found) PROVE FoldersOK'
  BY <1>2, DoneCleared DEF Return
<1>3. ASSUME NEW p \in {"load", "relist"}, NEW k, Then(a, p, k) PROVE FoldersOK'
  BY <1>1, <1>3, ThenCleared
<1> QED BY <1>2, <1>3 DEF LoadOn, Classify

\* get() trashes what its second listing shows without a folder.
LEMMA GetCleared ==
  ASSUME IInv, FoldersOK, NEW a \in Getters, Get(a)
  PROVE  FoldersOK'
<1>0. /\ {"list", "listAgain", "load", "relist"} \subseteq Awaiting \ Trashing
      /\ a \in Actors /\ loc[a] \in Locals /\ "sweep" \in Trashing
  BY ValuesOK DEF Awaiting, Listing, Trashing, IInv, TasksOK
<1>1. CASE StartGet(a)
  BY <1>0, <1>1, CallCleared DEF StartGet
<1>2. CASE Listed(a)
  <2>1. CASE Then(a, "listAgain", loc[a])
    BY <1>0, <2>1, ThenCleared
  <2>2. CASE Done(a)
    BY <1>0, <2>2, DoneCleared
  <2> QED BY <1>0, <1>2, <2>1, <2>2, LoadCleared DEF Listed
<1>3. CASE Loaded(a)
  BY <1>0, <1>3, LoadCleared, DoneCleared DEF Loaded
<1>4. CASE Relisted(a)
  <2>1. CASE ~reply.ok
    BY <1>0, <1>4, <2>1, DoneCleared DEF Relisted, Return
  <2>2. CASE reply.ok
    <3> DEFINE names == reply.files \union reply.folders
               l == [loc[a] EXCEPT !.bad = reply.folders,
                     !.todo = {n \in @ : n \in names /\ Partner(n) \notin names}]
    <3>1. l \in Locals
      BY <1>0 DEF IInv, ServerOK, Replies, Locals
    <3>2. folders \subseteq reply.folders
      BY <1>0, <1>4, <2>2 DEF Relisted, Returned, FoldersOK, Cleared, Answered
    <3>3. l.bad = reply.folders
      BY <1>0 DEF Locals
    <3>4. SweepOn(a, l)
      BY <1>4, <2>2 DEF Relisted
    <3> HIDE DEF l
    <3> QED BY <1>0, <3>1, <3>2, <3>3, <3>4, SweepCleared
  <2> QED BY <2>1, <2>2
<1>5. CASE Swept(a)
  <2>1. (loc[a].todo \ loc[a].bad) \cap folders = {} /\ SweepOn(a, loc[a])
    BY <1>0, <1>5 DEF Swept, Returned, FoldersOK, Cleared
  <2> QED BY <1>0, <2>1, SweepCleared
<1> QED BY <1>1, <1>2, <1>3, <1>4, <1>5 DEF Get

\* save() trashes, if anything, a tar that its own listing shows to be a file.
LEMMA SaveCleared ==
  ASSUME IInv, FoldersOK, Save
  PROVE  FoldersOK'
<1>0. /\ {"upTar", "upMeta", "cleanList", "stage", "idle"} \cap Trashing = {}
      /\ {"upTar", "upMeta", "cleanList"} \subseteq Awaiting
      /\ "stage" \notin Awaiting /\ "idle" \notin Awaiting
      /\ Holder \in Actors /\ loc[Holder] \in Locals
  BY ValuesOK DEF Awaiting, Listing, Uploading, Trashing, IInv, TasksOK
<1>1. CASE (\E s \in Slugs : StartSave(s)) \/ StageFails
  <2> PICK k : \E p \in {"stage", "idle"} :
                 pc' = [pc EXCEPT ![Holder] = p] /\ loc' = [loc EXCEPT ![Holder] = k]
    BY <1>1 DEF StartSave, StageFails
  <2> PICK p \in {"stage", "idle"} :
             pc' = [pc EXCEPT ![Holder] = p] /\ loc' = [loc EXCEPT ![Holder] = k]
    OBVIOUS
  <2>1. pc[Holder] \notin Awaiting /\ UNCHANGED <<folders, zombies, reply, queue>>
    BY <1>0, <1>1 DEF StartSave, StageFails, server
  <2> QED BY <1>0, <2>1, MoveCleared
<1>2. CASE Staged
  BY <1>0, <1>2, CallCleared DEF Staged
<1>3. CASE TarUploaded \/ MetaUploaded
  BY <1>0, <1>3, ThenCleared, DoneCleared DEF TarUploaded, MetaUploaded
<1>4. CASE CleanListed
  <2> DEFINE t == Tar(loc[Holder].slug)
             k == [loc[Holder] EXCEPT !.cur = t]
  <2>1. CASE reply.ok /\ t \notin reply.folders /\ Then(Holder, "cleanTrash", k)
    <3>1. folders \subseteq reply.folders
      BY <1>0, <1>4, <2>1 DEF CleanListed, Returned, FoldersOK, Cleared, Answered
    <3>2. k.cur = t
      BY <1>0 DEF Locals
    <3> HIDE DEF k
    <3> QED BY <1>0, <2>1, <3>1, <3>2, ThenCleared
  <2> QED BY <1>0, <1>4, <2>1, DoneCleared DEF CleanListed
<1>5. CASE CleanTrashed
  BY <1>0, <1>5, DoneCleared DEF CleanTrashed
<1> QED BY <1>1, <1>2, <1>3, <1>4, <1>5 DEF Save

\* delete() refuses when either name belongs to a folder.
LEMMA DeleteCleared ==
  ASSUME IInv, FoldersOK, Delete
  PROVE  FoldersOK'
<1> DEFINE l == loc[Holder]
<1>0. /\ "delList" \in Awaiting \ Trashing /\ {"delTar", "delMeta"} \subseteq Trashing
      /\ Holder \in Actors /\ l \in Locals
  BY ValuesOK DEF Awaiting, Listing, Uploading, Trashing, IInv, TasksOK
<1>1. CASE \E s \in Slugs : StartDelete(s)
  BY <1>0, <1>1, CallCleared DEF StartDelete
<1>2. CASE DelListed
  <2> DEFINE k == [l EXCEPT !.cur = Tar(l.slug)]
  <2>1. CASE reply.ok /\ reply.folders \cap Pair(l.slug) = {} /\ Then(Holder, "delTar", k)
    <3>1. folders \subseteq reply.folders
      BY <1>0, <1>2, <2>1 DEF DelListed, Returned, FoldersOK, Cleared, Answered
    <3>2. k.cur = Tar(l.slug) /\ k.slug = l.slug
      BY <1>0 DEF Locals
    <3>3. Tar(l.slug) \notin folders /\ Meta(l.slug) \notin folders
      BY <2>1, <3>1 DEF Pair
    <3> HIDE DEF k
    <3> QED BY <1>0, <2>1, <3>2, <3>3, ThenCleared
  <2> QED BY <1>0, <1>2, <2>1, DoneCleared DEF DelListed
<1>3. CASE DelTarTrashed
  <2> DEFINE k == [l EXCEPT !.cur = Meta(l.slug)]
  <2>1. CASE Then(Holder, "delMeta", k)
    <3>1. k.cur = Meta(l.slug) /\ Meta(l.slug) \notin folders
      BY <1>0, <1>3 DEF DelTarTrashed, Returned, FoldersOK, Cleared, Locals
    <3> HIDE DEF k
    <3> QED BY <1>0, <2>1, <3>1, ThenCleared
  <2> QED BY <1>0, <1>3, <2>1, DoneCleared DEF DelTarTrashed
<1>4. CASE DelMetaTrashed
  BY <1>0, <1>4, DoneCleared DEF DelMetaTrashed
<1> QED BY <1>1, <1>2, <1>3, <1>4 DEF Delete

LEMMA EditCleared ==
  ASSUME IInv, FoldersOK, Edit
  PROVE  FoldersOK'
<1>1. "rewrite" \in Awaiting \ Trashing
  BY DEF Awaiting, Uploading, Trashing
<1> QED BY <1>1, CallCleared, DoneCleared DEF Edit, StartRewrite, Rewritten

\* A command about a cleared name moves no folder.
LEMMA EffectSpares ==
  ASSUME NEW p, NEW n, Effect(p, n), p \in Trashing => n \notin folders
  PROVE  folders' = folders
BY DEF Effect, server

LEMMA CommandCleared ==
  ASSUME IInv, FoldersOK, Command
  PROVE  FoldersOK' /\ folders' = folders
<1> DEFINE a == Head(queue)
<1>1. a \in Actors
  BY HeadTailProperties DEF Command, CommandSucceeds, CommandFails, IInv, TasksOK
<1>2. folders' = folders
  BY <1>1, EffectSpares DEF Command, CommandSucceeds, CommandFails, FoldersOK, Cleared, server
<1>3. UNCHANGED <<task, queue, zombies>> /\ queue # <<>>
  BY DEF Command, CommandSucceeds, CommandFails
<1>4. ASSUME Answered(a)', reply'.ok, pc[a] \in Listing PROVE reply'.folders = folders
  BY <1>4 DEF Command, CommandSucceeds, CommandFails, Ok, Failed, NoReply
<1>5. ASSUME NEW b \in Actors PROVE Cleared(b)'
  <2>1. {"relist", "cleanList", "delList"} \subseteq Listing
    BY DEF Listing
  <2>2. Answered(b)' => b = a
    BY <1>3 DEF Answered
  <2> QED BY <1>2, <1>3, <1>4, <2>1, <2>2 DEF Cleared, FoldersOK, task
<1> QED BY <1>2, <1>3, <1>5 DEF FoldersOK

\* The command of a cancelled sync goes on, but its name was cleared.
LEMMA CancelCleared ==
  ASSUME IInv, FoldersOK, Cancel
  PROVE  FoldersOK'
<1> DEFINE place == {i \in DOMAIN queue : queue[i] = Holder}
           left == IF place = {} THEN queue ELSE RemoveAt(queue, CHOOSE i \in place : TRUE)
           cleans == pc[Holder] = "upMeta"
<1>0. /\ Holder \in Actors /\ queue \in Seq(Actors) /\ QueueOK /\ loc \in [Actors -> Locals]
      /\ pc \in [Actors -> Awaiting \union {"idle", "stage"}]
      /\ {"cleanList", "idle"} \cap Trashing = {}
  BY ValuesOK DEF IInv, TasksOK, Trashing
<1>1. ASSUME Answered(Holder) PROVE reply' = NoReply
  BY <1>1 DEF Answered, Cancel
<1>2. ASSUME reply'.done
      PROVE  /\ queue # <<>> /\ Head(queue) # Holder /\ reply' = reply
             /\ queue' # <<>> /\ Head(queue') = Head(queue)
  <2>1. reply' = reply /\ queue # <<>> /\ Head(queue) # Holder
    BY <1>1, <1>2 DEF Cancel, NoReply, FoldersOK
  <2>2. Len(queue) \in Nat /\ Len(queue) >= 1 /\ Head(queue) = queue[1] /\ DOMAIN queue = 1..Len(queue)
    BY <1>0, <2>1, EmptySeq, LenProperties, HeadTailProperties
  <2>3. left \in Seq(Actors) /\ left # <<>> /\ Head(left) = Head(queue)
    <3>1. CASE place = {}
      BY <1>0, <2>1, <3>1
    <3>2. CASE place # {}
      <4> DEFINE k == CHOOSE i \in place : TRUE
      <4>1. k \in 1..Len(queue) /\ k # 1
        BY <2>1, <2>2, <3>2
      <4>2. left = RemoveAt(queue, k)
        BY <3>2
      <4> HIDE DEF k, left, place
      <4>3. /\ left \in Seq(Actors) /\ Len(left) = Len(queue) - 1
            /\ \A j \in 1..(Len(queue) - 1) : left[j] = IF j < k THEN queue[j] ELSE queue[j + 1]
        BY <1>0, <4>1, <4>2, RemoveAtProperties
      <4>4. Len(left) >= 1 /\ left[1] = queue[1]
        BY <2>2, <4>1, <4>3
      <4>5. left # <<>>
        BY <4>3, <4>4, EmptySeq
      <4> QED BY <2>2, <4>3, <4>4, <4>5, HeadTailProperties
    <3> QED BY <3>1, <3>2
  <2>4. queue' = IF cleans THEN Append(left, Holder) ELSE left
    BY DEF Cancel
  <2> HIDE DEF left
  <2>5. Append(left, Holder) # <<>> /\ Head(Append(left, Holder)) = Head(left)
    BY <1>0, <2>3, AppendHead
  <2> QED BY <2>1, <2>3, <2>4, <2>5
<1>3. /\ UNCHANGED folders
      /\ pc' = [pc EXCEPT ![Holder] = IF cleans THEN "cleanList" ELSE "idle"]
      /\ loc' = [loc EXCEPT ![Holder] = IF cleans THEN [@ EXCEPT !.cur = NoName] ELSE Fresh]
  BY DEF Cancel, server
<1>4. ASSUME NEW b \in Actors PROVE Cleared(b)'
  <2>1. Answered(b)' => b # Holder /\ Answered(b) /\ reply' = reply
    BY <1>2 DEF Answered
  <2> QED BY <1>0, <1>3, <2>1 DEF Cleared, FoldersOK
<1>5. ASSUME NEW z \in zombies', z[1] \in Trashing PROVE z[2] \notin folders'
  <2>1. z \in zombies \/ z = <<pc[Holder], loc[Holder].cur>>
    BY DEF Cancel
  <2> QED BY <1>0, <1>3, <1>5, <2>1 DEF FoldersOK, Cleared
<1> QED BY <1>2, <1>4, <1>5 DEF FoldersOK

\* The user makes folders only while nothing is cleared.
LEMMA EnvironmentCleared ==
  ASSUME IInv, FoldersOK, Environment
  PROVE  FoldersOK' /\ folders \subseteq folders'
<1>1. CASE Cancel
  BY <1>1, CancelCleared DEF Cancel, server
<1>2. CASE ZombieEnds
  <2>1. folders' = folders
    BY <1>2, EffectSpares DEF ZombieEnds, FoldersOK, server
  <2> QED BY <1>2, <2>1 DEF ZombieEnds, FoldersOK, Cleared, Answered, task
<1>3. CASE Crash
  <2>1. "idle" \notin Trashing
    BY DEF Trashing
  <2> QED BY <1>3, <2>1 DEF Crash, FoldersOK, Cleared, Answered, NoReply, server
<1>4. CASE \E n \in Names : UserAddsFolder(n)
  <2>1. {"sweep", "delTar"} \subseteq Trashing
    BY DEF Trashing
  <2> QED BY <1>4, <2>1 DEF UserAddsFolder, FoldersOK, Cleared, Answered, task
<1> QED BY <1>1, <1>2, <1>3, <1>4 DEF Environment

\* The handlers change the folder only through commands.
LEMMA TasksSpare ==
  ASSUME (\E a \in Getters : Get(a)) \/ Save \/ Delete \/ Edit
  PROVE  folders' = folders
<1>1. ASSUME NEW a \in Getters, Get(a) PROVE folders' = folders
  BY <1>1 DEF Get, StartGet, Listed, Loaded, Relisted, Swept, LoadOn, Classify, SweepOn, Return,
              Call, Then, Done, Release, server
<1>2. CASE Save
  BY <1>2 DEF Save, StartSave, Staged, StageFails, TarUploaded, MetaUploaded, CleanListed,
              CleanTrashed, Call, Then, Done, Release, server
<1>3. CASE Delete \/ Edit
  BY <1>3 DEF Delete, StartDelete, DelListed, DelTarTrashed, DelMetaTrashed,
              Edit, StartRewrite, Rewritten, Call, Then, Done, Release, server
<1> QED BY <1>1, <1>2, <1>3

LEMMA FoldersStep ==
  ASSUME IInv, FoldersOK, [Next]_vars
  PROVE  FoldersOK' /\ folders \subseteq folders'
<1>1. CASE UNCHANGED vars
  BY <1>1 DEF vars, server, task, FoldersOK, Cleared, Answered
<1> QED BY <1>1, GetCleared, SaveCleared, DeleteCleared, EditCleared, CommandCleared,
           EnvironmentCleared, TasksSpare DEF Next

LEMMA FoldersInvariance == Spec => []FoldersOK
<1>1. Init => FoldersOK
  <2>1. "idle" \notin Trashing /\ "idle" \notin {"sweep", "delTar", "relist", "cleanList", "delList"}
    BY DEF Trashing
  <2> QED BY <2>1 DEF Init, FoldersOK, Cleared, NoReply
<1>2. IInv /\ FoldersOK /\ [Next]_vars => FoldersOK'
  BY FoldersStep
<1> QED BY <1>1, <1>2, Invariance, PTL DEF Spec

\* Nothing the add-on does moves a folder of the user to the trash, though the
\* tool resolves names by itself (protonsource.py lines 342, 359, 443-464 and
\* 579-588): for any tasks, cancelled syncs, restarts and folders.
THEOREM FoldersAreSpared == Spec => FolderNeverTrashed
<1>1. IInv /\ FoldersOK /\ [Next]_vars => [folders \subseteq folders']_vars
  BY FoldersStep
<1> QED BY <1>1, FoldersInvariance, Invariance, PTL DEF Spec, FolderNeverTrashed

-----------------------------------------------------------------------------
(* What is stored stays whole, while no other task lists the folder        *)

\* With a precache, or after a cancelled sync whose command still runs, the
\* code does not keep this promise.
Alone == "precache" \notin Actors /\ MaxCancels = 0

\* Nothing but the sync trashes anything.
OnlySync ==
  /\ zombies = {} /\ budget.cancels = 0
  /\ \A a \in Actors \ {Holder} : pc[a] \in {"idle", "rewrite"}

\* In these the backup that the sync is at is promised to nobody.
Replacing == Saving \union {"cleanList", "cleanTrash", "delTar", "delMeta"}
Reading   == {"load", "relist", "sweep"}

\* What the locals l say at p of the files F and the stored backups S.
Fit(p, l, F, S) ==
  /\ p \in {"upTar", "cleanTrash", "delTar"} => l.cur = Tar(l.slug)
  /\ p \in {"upMeta", "delMeta"} => l.cur = Meta(l.slug)
  /\ p = "upMeta" => Tar(l.slug) \in F
  /\ p \in Replacing => l.slug \notin S
  /\ p = "sweep" => \A n \in l.todo \union {l.cur} : n[2] \notin S
  /\ p \notin Reading => l.seen = {}
  /\ l.found \subseteq Whole(l.seen)
  /\ p = "load" => \A n \in l.todo \union {l.cur} : n[2] \in Whole(l.seen)
SyncOK == Fit(pc[Holder], loc[Holder], files, stored)

\* What a good answer to the sync says.
AnswerOK == Answered(Holder) /\ reply.ok =>
  /\ pc[Holder] \in {"upTar", "upMeta"} => loc[Holder].cur \in files
  /\ pc[Holder] \in Listing => \A s \in stored : Pair(s) \subseteq reply.files

ReplyOK == /\ ~reply.done => reply = NoReply
           /\ ~reply.ok => reply.files = {}
           /\ reply.done => queue # <<>>

AInv == OnlySync /\ SyncOK /\ AnswerOK /\ ReplyOK /\ StoredStaysPaired

\* The sync moves on; what it has to say of its backup is true.
LEMMA MoveAlone ==
  ASSUME IInv, AInv, NEW p, NEW l, UNCHANGED <<files, zombies, budget>>,
         pc' = [pc EXCEPT ![Holder] = p], loc' = [loc EXCEPT ![Holder] = l],
         \/ reply' = NoReply
         \/ pc[Holder] \notin Awaiting /\ reply' = reply /\ queue' \in {queue, Append(queue, Holder)},
         \A s \in stored' : Pair(s) \subseteq files, Fit(p, l, files, stored')
  PROVE  AInv' /\ loc'[Holder] = l /\ ~Answered(Holder)'
<1>1. /\ pc \in [Actors -> Awaiting \union {"idle", "stage"}] /\ loc \in [Actors -> Locals]
      /\ Holder \in Actors
  BY ValuesOK DEF IInv, TasksOK
<1>2. /\ ~Answered(Holder)'
      /\ reply'.done => queue' # <<>>
  BY <1>1, MoveAnswered DEF AInv, ReplyOK
<1>3. OnlySync' /\ SyncOK'
  BY <1>1 DEF AInv, OnlySync, SyncOK
<1>4. AnswerOK' /\ ReplyOK'
  BY <1>2 DEF AInv, AnswerOK, ReplyOK, NoReply
<1>5. StoredStaysPaired'
  BY DEF StoredStaysPaired
<1> QED BY <1>1, <1>2, <1>3, <1>4, <1>5 DEF AInv

\* Its three ways to do so.
LEMMA CallAlone ==
  ASSUME IInv, AInv, NEW p, NEW l, Call(Holder, p, l), UNCHANGED stored, Fit(p, l, files, stored)
  PROVE  AInv' /\ loc'[Holder] = l /\ ~Answered(Holder)'
BY MoveAlone DEF Call, server, AInv, StoredStaysPaired

LEMMA ThenAlone ==
  ASSUME IInv, AInv, NEW p, NEW l, Then(Holder, p, l), stored' \subseteq stored,
         Fit(p, l, files, stored')
  PROVE  AInv' /\ loc'[Holder] = l /\ ~Answered(Holder)'
BY MoveAlone DEF Then, Release, server, AInv, StoredStaysPaired

LEMMA FreshFits ==
  ASSUME NEW F, NEW S
  PROVE  Fit("idle", Fresh, F, S)
BY DEF Fit, Fresh, Replacing, Saving

LEMMA DoneAlone ==
  ASSUME IInv, AInv, Done(Holder), \A s \in stored' : Pair(s) \subseteq files
  PROVE  AInv' /\ loc'[Holder] = Fresh /\ ~Answered(Holder)'
<1>1. Fit("idle", Fresh, files, stored')
  BY FreshFits
<1> QED BY <1>1, MoveAlone DEF Done, Release, server, AInv

\* What get() makes of the backups S that its listing showed whole: it goes on,
\* returns some of them, or gives up.
Learns(S) ==
  /\ ~Answered(Holder)'
  /\ \/ known' = known /\ Whole(loc'[Holder].seen) \in {S, {}}
     \/ known' \subseteq S /\ loc'[Holder].seen = {}

LEMMA EmptyWhole == Whole({}) = {} /\ Fresh.seen = {}
BY DEF Whole, Pair, Fresh

LEMMA ReturnAlone ==
  ASSUME IInv, AInv, NEW found, Return(Holder, found), UNCHANGED stored,
         NEW S, found \subseteq S
  PROVE  AInv' /\ Learns(S)
BY DoneAlone, EmptyWhole DEF Return, Learns, Holder, AInv, StoredStaysPaired

LEMMA SweepAlone ==
  ASSUME IInv, AInv, NEW l \in Locals, SweepOn(Holder, l), UNCHANGED stored,
         l.found \subseteq Whole(l.seen), \A n \in l.todo : n[2] \notin stored
  PROVE  AInv' /\ Learns(Whole(l.seen))
<1>1. CASE Return(Holder, l.found)
  BY <1>1, ReturnAlone
<1>2. CASE \E n \in l.todo : /\ Then(Holder, "sweep", [l EXCEPT !.cur = n, !.todo = @ \ {n}])
                             /\ known' = known
  <2> PICK n \in l.todo : /\ Then(Holder, "sweep", [l EXCEPT !.cur = n, !.todo = @ \ {n}])
                          /\ known' = known
    BY <1>2
  <2> DEFINE k == [l EXCEPT !.cur = n, !.todo = @ \ {n}]
  <2>1. k.seen = l.seen /\ k.found = l.found /\ k.cur = n /\ k.todo \subseteq l.todo
    BY DEF Locals
  <2> HIDE DEF k
  <2>2. Then(Holder, "sweep", k)
    BY DEF k
  <2>3. Fit("sweep", k, files, stored')
    BY <2>1 DEF Fit, Replacing, Saving, Reading
  <2> QED BY <2>1, <2>2, <2>3, ThenAlone DEF Learns
<1> QED BY <1>1, <1>2 DEF SweepOn

LEMMA LoadAlone ==
  ASSUME IInv, AInv, NEW l \in Locals, NEW c, LoadOn(Holder, l, c), UNCHANGED stored,
         l.found \subseteq Whole(l.seen), \A n \in l.todo : n[2] \in Whole(l.seen)
  PROVE  AInv' /\ Learns(Whole(l.seen))
<1> DEFINE missing == {n \in l.todo : n[2] \notin c}
           hits == l.found \union {n[2] : n \in l.todo \ missing}
           m == [l EXCEPT !.found = hits]
<1>1. hits \subseteq Whole(l.seen)
  OBVIOUS
<1>2. m.seen = l.seen /\ m.found = hits
  BY DEF Locals
<1>3. CASE Return(Holder, m.found)
  BY <1>1, <1>2, <1>3, ReturnAlone
<1>4. CASE \E k : /\ Then(Holder, "relist", k) /\ known' = known
                  /\ k.seen = l.seen /\ k.found = hits
  <2> PICK k : /\ Then(Holder, "relist", k) /\ known' = known
               /\ k.seen = l.seen /\ k.found = hits
    BY <1>4
  <2>1. Fit("relist", k, files, stored')
    BY <1>1 DEF Fit, Replacing, Saving, Reading
  <2> QED BY <2>1, ThenAlone DEF Learns
<1>5. CASE \E n \in missing :
             /\ Then(Holder, "load", [l EXCEPT !.found = hits, !.cur = n, !.todo = missing \ {n}])
             /\ known' = known
  <2> PICK n \in missing :
             /\ Then(Holder, "load", [l EXCEPT !.found = hits, !.cur = n, !.todo = missing \ {n}])
             /\ known' = known
    BY <1>5
  <2> DEFINE k == [l EXCEPT !.found = hits, !.cur = n, !.todo = missing \ {n}]
  <2>1. k.seen = l.seen /\ k.found = hits /\ k.cur = n /\ k.todo = missing \ {n}
    BY DEF Locals
  <2> HIDE DEF k
  <2>2. Then(Holder, "load", k)
    BY DEF k
  <2>3. Fit("load", k, files, stored')
    BY <1>1, <2>1 DEF Fit, Replacing, Saving, Reading
  <2> QED BY <2>1, <2>2, <2>3, ThenAlone DEF Learns
<1>6. CASE missing = {}
  <2> DEFINE orphans == {n \in Unpaired(m.seen) : IsTar(n) => ~m.latched /\ starts = m.mark}
             k == [m EXCEPT !.cur = NoName, !.todo = orphans]
  <2>1. Classify(Holder, m, c)
    BY <1>6 DEF LoadOn
  <2>2. CASE Return(Holder, m.found)
    BY <1>3, <2>2
  <2>3. CASE Then(Holder, "relist", k) /\ known' = known
    <3>1. k.seen = l.seen /\ k.found = hits
      BY DEF Locals
    <3> QED BY <1>4, <2>3, <3>1
  <2> QED BY <2>1, <2>2, <2>3 DEF Classify
<1> QED BY <1>5, <1>6 DEF LoadOn

\* What the sync has seen, in the terms of the model: the answer to its first
\* listing, and then its copy of it.
Witnessed == IF Answered(Holder) /\ pc[Holder] \in {"list", "listAgain"}
             THEN Whole(reply.files) ELSE Whole(loc[Holder].seen)

LEMMA Seen == AInv => SeenBySync = Witnessed
<1>1. ASSUME AInv, pc[Holder] \in {"list", "listAgain"}, ~reply.done PROVE SeenBySync = Witnessed
  <2>1. reply.files = {} /\ loc[Holder].seen = {}
    BY <1>1 DEF AInv, ReplyOK, NoReply, SyncOK, Fit, Reading
  <2> QED BY <1>1, <2>1 DEF SeenBySync, Answered, Witnessed
<1>2. ASSUME ~(pc[Holder] \in {"list", "listAgain"} /\ ~reply.done) PROVE SeenBySync = Witnessed
  BY <1>2 DEF SeenBySync, Answered, Witnessed
<1> QED BY <1>1, <1>2

\* get() of the sync: what it tells the Model it has seen whole.
LEMMA GetAlone ==
  ASSUME IInv, AInv, Get(Holder)
  PROVE  /\ AInv' /\ UNCHANGED <<files, stored>>
         /\ Learns(SeenBySync)
<1> DEFINE l == loc[Holder]
<1>0. /\ l \in Locals /\ UNCHANGED stored
      /\ SeenBySync = IF Answered(Holder) /\ pc[Holder] \in {"list", "listAgain"}
                      THEN Whole(reply.files) ELSE Whole(l.seen)
  BY Seen, ValuesOK DEF Witnessed, IInv, TasksOK, Get, StartGet, Listed, Loaded, Relisted, Swept
<1>1. CASE StartGet(Holder)
  <2> DEFINE k == [Fresh EXCEPT !.latched = uploading, !.mark = starts]
  <2>1. k.seen = {} /\ k.found = {}
    BY DEF Fresh
  <2> HIDE DEF k
  <2>2. Call(Holder, "list", k) /\ known' = known
    BY <1>1 DEF StartGet, source, k
  <2>3. Fit("list", k, files, stored)
    BY <2>1 DEF Fit, Replacing, Saving
  <2>4. files' = files
    BY <2>2 DEF Call, server
  <2> QED BY <1>0, <2>1, <2>2, <2>3, <2>4, CallAlone, EmptyWhole DEF Learns
<1>2. CASE Listed(Holder)
  <2>1. Answered(Holder) /\ pc[Holder] \in {"list", "listAgain"} /\ l.seen = {} /\ l.found = {}
    BY <1>2, EmptyWhole DEF Listed, Returned, Answered, AInv, SyncOK, Fit, Reading
  <2>2. CASE reply.ok
    <3> DEFINE k == [l EXCEPT !.seen = reply.files,
                     !.todo = {n \in reply.files : ~IsTar(n) /\ Partner(n) \in reply.files}]
    <3>1. /\ k \in Locals /\ k.seen = reply.files /\ k.found = l.found
          /\ \A n \in k.todo : n \in reply.files /\ Partner(n) \in reply.files /\ ~IsTar(n) /\ n \in Names
      BY <1>0 DEF IInv, ServerOK, Replies, Locals
    <3>2. \A n \in Names : ~IsTar(n) => n = Meta(n[2]) /\ Partner(n) = Tar(n[2]) /\ n[2] \in Slugs
      BY DEF Names, IsTar, Meta, Partner
    <3>3. \A n \in k.todo : n[2] \in Whole(k.seen)
      BY <3>1, <3>2 DEF Whole, Pair
    <3>4. LoadOn(Holder, k, cache)
      BY <1>2, <2>2 DEF Listed
    <3> HIDE DEF k
    <3>5. AInv' /\ Learns(Whole(k.seen))
      BY <1>0, <2>1, <3>1, <3>3, <3>4, LoadAlone
    <3>6. files' = files
      BY <3>4 DEF LoadOn, Classify, Return, Then, Done, Release, server
    <3> QED BY <1>0, <2>1, <3>1, <3>5, <3>6
  <2>3. CASE ~reply.ok
    <3>1. known' = known
      BY <1>2, <2>3 DEF Listed
    <3>2. CASE Then(Holder, "listAgain", l)
      <4>1. Fit("listAgain", l, files, stored')
        BY <2>1 DEF Fit, Replacing, Saving
      <4>2. files' = files
        BY <3>2 DEF Then, Release, server
      <4> QED BY <1>0, <2>1, <3>1, <3>2, <4>1, <4>2, ThenAlone, EmptyWhole DEF Learns
    <3>3. CASE Done(Holder)
      <4>1. files' = files
        BY <3>3 DEF Done, Release, server
      <4> QED BY <1>0, <3>1, <3>3, <4>1, DoneAlone, EmptyWhole DEF Learns, AInv, StoredStaysPaired
    <3> QED BY <1>2, <2>3, <3>2, <3>3 DEF Listed
  <2> QED BY <2>2, <2>3
<1>3. CASE Loaded(Holder)
  <2>1. /\ pc[Holder] = "load" /\ l.found \subseteq Whole(l.seen)
        /\ \A n \in l.todo \union {l.cur} : n[2] \in Whole(l.seen)
    BY <1>3 DEF Loaded, Returned, AInv, SyncOK, Fit
  <2>2. SeenBySync = Whole(l.seen) /\ Whole(l.seen) \subseteq Slugs
    BY <1>0, <2>1 DEF Whole
  <2>3. CASE \E k \in Locals : /\ \E c : LoadOn(Holder, k, c)
                               /\ k.seen = l.seen /\ k.todo = l.todo
                               /\ k.found \subseteq Whole(l.seen)
    <3> PICK k \in Locals : /\ \E c : LoadOn(Holder, k, c)
                            /\ k.seen = l.seen /\ k.todo = l.todo
                            /\ k.found \subseteq Whole(l.seen)
      BY <2>3
    <3> PICK c : LoadOn(Holder, k, c)
      OBVIOUS
    <3>1. files' = files
      BY DEF LoadOn, Classify, Return, Then, Done, Release, server
    <3> QED BY <1>0, <2>1, <2>2, <3>1, LoadAlone
  <2>4. CASE Done(Holder) /\ known' = known
    <3>1. files' = files
      BY <2>4 DEF Done, Release, server
    <3> QED BY <1>0, <2>4, <3>1, DoneAlone, EmptyWhole DEF Learns, AInv, StoredStaysPaired
  <2>5. CASE LoadOn(Holder, l, cache)
    BY <1>0, <2>1, <2>3, <2>5
  <2>6. CASE LoadOn(Holder, [l EXCEPT !.found = @ \union {l.cur[2]}], cache \union {l.cur[2]})
    <3> DEFINE k == [l EXCEPT !.found = @ \union {l.cur[2]}]
    <3>1. l.cur[2] \in Slugs
      BY <2>1, <2>2
    <3>2. /\ k \in Locals /\ k.seen = l.seen /\ k.todo = l.todo
          /\ k.found = l.found \union {l.cur[2]}
      BY <1>0, <3>1 DEF Locals
    <3> HIDE DEF k
    <3>3. LoadOn(Holder, k, cache \union {l.cur[2]})
      BY <2>6 DEF k
    <3> QED BY <2>1, <2>3, <3>2, <3>3
  <2> QED BY <1>3, <2>4, <2>5, <2>6 DEF Loaded
<1>4. CASE Relisted(Holder)
  <2>1. /\ pc[Holder] = "relist" /\ l.found \subseteq Whole(l.seen) /\ SeenBySync = Whole(l.seen)
        /\ reply.ok => \A s \in stored : Pair(s) \subseteq reply.files
    BY <1>0, <1>4 DEF Relisted, Returned, AInv, SyncOK, Fit, AnswerOK, Answered, Listing
  <2>2. CASE ~reply.ok
    <3>1. Return(Holder, l.found)
      BY <1>4, <2>2 DEF Relisted
    <3>2. files' = files
      BY <3>1 DEF Return, Done, Release, server
    <3> QED BY <1>0, <2>1, <3>1, <3>2, ReturnAlone
  <2>3. CASE reply.ok
    <3> DEFINE names == reply.files \union reply.folders
               k == [l EXCEPT !.bad = reply.folders,
                     !.todo = {n \in @ : n \in names /\ Partner(n) \notin names}]
    <3>1. k \in Locals /\ k.seen = l.seen /\ k.found = l.found
      BY <1>0 DEF IInv, ServerOK, Replies, Locals
    <3>2. \A n \in k.todo : n \in Names /\ Partner(n) \notin reply.files
      BY <1>0 DEF Locals
    <3>3. \A n \in Names : Partner(n) \in Pair(n[2])
      BY DEF Names, Partner, Pair, IsTar, Tar, Meta
    <3>4. \A n \in k.todo : n[2] \notin stored
      BY <2>1, <2>3, <3>2, <3>3
    <3>5. SweepOn(Holder, k)
      BY <1>4, <2>3 DEF Relisted
    <3> HIDE DEF k
    <3>6. files' = files
      BY <3>5 DEF SweepOn, Return, Then, Done, Release, server
    <3> QED BY <1>0, <2>1, <3>1, <3>4, <3>5, <3>6, SweepAlone
  <2> QED BY <2>2, <2>3
<1>5. CASE Swept(Holder)
  <2>1. /\ pc[Holder] = "sweep" /\ l.found \subseteq Whole(l.seen) /\ SeenBySync = Whole(l.seen)
        /\ \A n \in l.todo : n[2] \notin stored
        /\ SweepOn(Holder, l)
    BY <1>0, <1>5 DEF Swept, Returned, AInv, SyncOK, Fit
  <2>2. files' = files
    BY <2>1 DEF SweepOn, Return, Then, Done, Release, server
  <2> QED BY <1>0, <2>1, <2>2, SweepAlone
<1> QED BY <1>1, <1>2, <1>3, <1>4, <1>5 DEF Get

\* What save() and delete() do to the promises and to what the Model believes:
\* nothing, withdraw a promise, promise what is whole, or forget a backup.
Serves ==
  /\ loc'[Holder].seen = {} /\ ~Answered(Holder)'
  /\ \/ known' = known /\ stored' = stored
     \/ \E s \in Slugs : known' = known /\ stored' = stored \ {s}
     \/ \E s \in Whole(files) : known' = known \union {s} /\ stored' = stored \union {s}
     \/ \E s \in Slugs : known' = known \ {s} /\ stored' = stored

\* Outside get() the sync has seen nothing.
LEMMA NotReading ==
  ASSUME AInv, pc[Holder] \notin Reading, ~(Answered(Holder) /\ pc[Holder] \in {"list", "listAgain"})
  PROVE  loc[Holder].seen = {} /\ loc[Holder].found = {} /\ SeenBySync = {}
BY Seen, EmptyWhole DEF Witnessed, AInv, SyncOK, Fit

\* save(): the tar is there before the sidecar is written, and both before the
\* backup is promised.
LEMMA SaveAlone ==
  ASSUME IInv, AInv, Save
  PROVE  AInv' /\ files' = files /\ SeenBySync = {} /\ Serves
<1> DEFINE l == loc[Holder]
<1>0. /\ l \in Locals /\ pc[Holder] \notin Reading
      /\ pc[Holder] \in Slugged => l.slug \in Slugs
      /\ pc[Holder] \notin {"list", "listAgain"}
  BY ValuesOK DEF IInv, TasksOK, SlugsOK, Save, StartSave, Staged, StageFails, TarUploaded, MetaUploaded,
     CleanListed, CleanTrashed, Returned, Reading
<1>1. l.seen = {} /\ l.found = {} /\ SeenBySync = {}
  BY <1>0, NotReading
<1>2. /\ {"stage", "upTar", "upMeta", "cleanList", "cleanTrash"} \subseteq Replacing
      /\ "idle" \notin Awaiting /\ "stage" \notin Awaiting
      /\ {"upTar", "upMeta"} \subseteq Slugged /\ "upMeta" \in Slugged
  BY DEF Replacing, Saving, Awaiting, Listing, Uploading, Trashing, Slugged
<1>3. files' = files
  BY DEF Save, StartSave, Staged, StageFails, TarUploaded, MetaUploaded, CleanListed, CleanTrashed,
         Call, Then, Done, Release, server
<1>4. \A s \in stored : Pair(s) \subseteq files
  BY DEF AInv, StoredStaysPaired
<1> SUFFICES AInv' /\ Serves
  BY <1>1, <1>3
<1>5. ASSUME Done(Holder), UNCHANGED <<known, stored>> PROVE AInv' /\ Serves
  BY <1>4, <1>5, DoneAlone, EmptyWhole DEF Serves
<1>6. ASSUME NEW p \in {"upMeta", "cleanList", "cleanTrash"}, NEW k, Then(Holder, p, k),
             k.slug = l.slug, k.seen = {}, k.found = {}, l.slug \notin stored,
             p = "upMeta" => k.cur = Meta(k.slug) /\ Tar(k.slug) \in files,
             p = "cleanTrash" => k.cur = Tar(k.slug), UNCHANGED <<known, stored>>
      PROVE  AInv' /\ Serves
  <2>1. Fit(p, k, files, stored')
    BY <1>6 DEF Fit
  <2> QED BY <1>6, <2>1, ThenAlone DEF Serves
<1>7. pc[Holder] \in Replacing => l.slug \notin stored
  BY DEF AInv, SyncOK, Fit
<1>8. ASSUME NEW s \in Slugs, StartSave(s) PROVE AInv' /\ Serves
  <2> DEFINE k == [Fresh EXCEPT !.slug = s]
  <2>1. k.slug = s /\ k.seen = {} /\ k.found = {}
    BY DEF Fresh
  <2>2. pc' = [pc EXCEPT ![Holder] = "stage"] /\ loc' = [loc EXCEPT ![Holder] = k]
    BY <1>8 DEF StartSave
  <2> HIDE DEF k
  <2>3. /\ pc[Holder] \notin Awaiting /\ stored' = stored \ {s}
        /\ UNCHANGED <<files, zombies, budget, reply, queue, known>>
    BY <1>2, <1>8 DEF StartSave, server
  <2>4. Fit("stage", k, files, stored')
    BY <2>1, <2>3 DEF Fit
  <2>5. AInv' /\ loc'[Holder] = k /\ ~Answered(Holder)'
    BY <1>4, <2>2, <2>3, <2>4, MoveAlone
  <2> QED BY <2>1, <2>3, <2>5 DEF Serves
<1>9. CASE Staged
  <2> DEFINE k == [l EXCEPT !.cur = Tar(l.slug)]
  <2>1. k.slug = l.slug /\ k.seen = {} /\ k.found = {} /\ k.cur = Tar(k.slug)
    BY <1>0, <1>1 DEF Locals
  <2>2. Call(Holder, "upTar", k) /\ UNCHANGED <<known, stored>> /\ l.slug \notin stored
    BY <1>2, <1>7, <1>9 DEF Staged, source
  <2> HIDE DEF k
  <2>3. Fit("upTar", k, files, stored)
    BY <2>1, <2>2 DEF Fit
  <2> QED BY <2>1, <2>2, <2>3, CallAlone DEF Serves
<1>10. CASE StageFails
  <2>1. /\ pc' = [pc EXCEPT ![Holder] = "idle"] /\ loc' = [loc EXCEPT ![Holder] = Fresh]
        /\ UNCHANGED <<files, zombies, budget, reply, queue, known, stored>> /\ pc[Holder] \notin Awaiting
    BY <1>2, <1>10 DEF StageFails, server
  <2> QED BY <1>4, <2>1, MoveAlone, FreshFits, EmptyWhole DEF Serves
<1>11. CASE TarUploaded
  <2> DEFINE k == [l EXCEPT !.cur = Meta(l.slug)]
  <2>1. k.slug = l.slug /\ k.seen = {} /\ k.found = {} /\ k.cur = Meta(k.slug)
    BY <1>0, <1>1 DEF Locals
  <2>2. pc[Holder] = "upTar" /\ Answered(Holder) /\ UNCHANGED <<known, stored>> /\ l.slug \notin stored
    BY <1>2, <1>7, <1>11 DEF TarUploaded, Returned, Answered
  <2>3. reply.ok => Tar(l.slug) \in files
    BY <2>2 DEF AInv, AnswerOK, SyncOK, Fit
  <2> HIDE DEF k
  <2>4. CASE reply.ok
    BY <1>6, <1>11, <2>1, <2>2, <2>3, <2>4 DEF TarUploaded, k
  <2>5. CASE ~reply.ok
    BY <1>5, <1>11, <2>2, <2>5 DEF TarUploaded
  <2> QED BY <2>4, <2>5
<1>12. CASE MetaUploaded
  <2> DEFINE k == [l EXCEPT !.cur = NoName]
  <2>1. k.slug = l.slug /\ k.seen = {} /\ k.found = {}
    BY <1>0, <1>1 DEF Locals
  <2>2. pc[Holder] = "upMeta" /\ Answered(Holder) /\ l.slug \notin stored /\ l.slug \in Slugs
    BY <1>0, <1>2, <1>7, <1>12 DEF MetaUploaded, Returned, Answered
  <2>3. CASE reply.ok
    <3>1. Pair(l.slug) \subseteq files
      BY <2>2, <2>3 DEF AInv, AnswerOK, SyncOK, Fit, Pair
    <3>2. Done(Holder) /\ known' = known \union {l.slug} /\ stored' = stored \union {l.slug}
      BY <1>12, <2>3 DEF MetaUploaded
    <3>3. \A s \in stored' : Pair(s) \subseteq files
      BY <1>4, <3>1, <3>2
    <3>4. l.slug \in Whole(files)
      BY <2>2, <3>1 DEF Whole
    <3> QED BY <3>2, <3>3, <3>4, DoneAlone, EmptyWhole DEF Serves
  <2> HIDE DEF k
  <2>4. CASE ~reply.ok
    BY <1>6, <1>12, <2>1, <2>2, <2>4 DEF MetaUploaded, k
  <2> QED BY <2>3, <2>4
<1>13. CASE CleanListed
  <2> DEFINE k == [l EXCEPT !.cur = Tar(l.slug)]
  <2>1. k.slug = l.slug /\ k.seen = {} /\ k.found = {} /\ k.cur = Tar(k.slug)
    BY <1>0, <1>1 DEF Locals
  <2>2. UNCHANGED <<known, stored>> /\ l.slug \notin stored
    BY <1>2, <1>7, <1>13 DEF CleanListed, Returned, source
  <2> HIDE DEF k
  <2>3. Then(Holder, "cleanTrash", k) \/ Done(Holder)
    BY <1>13 DEF CleanListed, k
  <2> QED BY <1>5, <1>6, <2>1, <2>2, <2>3
<1>14. CASE CleanTrashed
  BY <1>5, <1>14 DEF CleanTrashed, source
<1> QED BY <1>8, <1>9, <1>10, <1>11, <1>12, <1>13, <1>14 DEF Save

\* delete(): the promise is withdrawn before the first file goes.
LEMMA DeleteAlone ==
  ASSUME IInv, AInv, Delete
  PROVE  AInv' /\ files' = files /\ SeenBySync = {} /\ Serves
<1> DEFINE l == loc[Holder]
<1>0. /\ l \in Locals /\ pc[Holder] \notin Reading
      /\ pc[Holder] \in Slugged => l.slug \in Slugs
      /\ pc[Holder] \notin {"list", "listAgain"}
  BY ValuesOK DEF IInv, TasksOK, SlugsOK, Delete, StartDelete, DelListed, DelTarTrashed, DelMetaTrashed,
     Returned, Reading
<1>1. l.seen = {} /\ l.found = {} /\ SeenBySync = {}
  BY <1>0, NotReading
<1>2. /\ {"delTar", "delMeta"} \subseteq Replacing /\ "delList" \notin Replacing \union Reading
      /\ {"delTar", "delMeta", "delList"} \subseteq Slugged
  BY DEF Replacing, Saving, Slugged, Reading
<1>3. files' = files
  BY DEF Delete, StartDelete, DelListed, DelTarTrashed, DelMetaTrashed, Call, Then, Done, Release, server
<1>4. \A s \in stored : Pair(s) \subseteq files
  BY DEF AInv, StoredStaysPaired
<1> SUFFICES AInv' /\ Serves
  BY <1>1, <1>3
<1>5. ASSUME Done(Holder), UNCHANGED <<known, stored>> PROVE AInv' /\ Serves
  BY <1>4, <1>5, DoneAlone, EmptyWhole DEF Serves
<1>6. ASSUME NEW s \in Slugs, StartDelete(s) PROVE AInv' /\ Serves
  <2> DEFINE k == [Fresh EXCEPT !.slug = s]
  <2>1. k.seen = {} /\ k.found = {}
    BY DEF Fresh
  <2>2. Call(Holder, "delList", k) /\ UNCHANGED <<known, stored>>
    BY <1>6 DEF StartDelete, source
  <2> HIDE DEF k
  <2>3. Fit("delList", k, files, stored)
    BY <1>2, <2>1 DEF Fit
  <2> QED BY <2>1, <2>2, <2>3, CallAlone DEF Serves
<1>7. CASE DelListed
  <2> DEFINE k == [l EXCEPT !.cur = Tar(l.slug)]
  <2>1. k.slug = l.slug /\ k.seen = {} /\ k.found = {} /\ k.cur = Tar(k.slug)
    BY <1>0, <1>1 DEF Locals
  <2>2. l.slug \in Slugs /\ known' = known
    BY <1>0, <1>2, <1>7 DEF DelListed, Returned, source
  <2>3. CASE Then(Holder, "delTar", k) /\ stored' = stored \ {l.slug}
    <3> HIDE DEF k
    <3>1. Fit("delTar", k, files, stored')
      BY <2>1, <2>3 DEF Fit
    <3>2. AInv' /\ loc'[Holder] = k /\ ~Answered(Holder)'
      BY <2>3, <3>1, ThenAlone
    <3> QED BY <2>1, <2>2, <2>3, <3>2 DEF Serves
  <2> QED BY <1>5, <1>7, <2>2, <2>3 DEF DelListed
<1>8. CASE DelTarTrashed
  <2> DEFINE k == [l EXCEPT !.cur = Meta(l.slug)]
  <2>1. k.slug = l.slug /\ k.seen = {} /\ k.found = {} /\ k.cur = Meta(k.slug)
    BY <1>0, <1>1 DEF Locals
  <2>2. UNCHANGED <<known, stored>> /\ l.slug \notin stored
    BY <1>2, <1>8 DEF DelTarTrashed, Returned, source, AInv, SyncOK, Fit
  <2>3. CASE Then(Holder, "delMeta", k)
    <3> HIDE DEF k
    <3>1. Fit("delMeta", k, files, stored')
      BY <2>1, <2>2 DEF Fit
    <3>2. AInv' /\ loc'[Holder] = k /\ ~Answered(Holder)'
      BY <2>2, <2>3, <3>1, ThenAlone
    <3> QED BY <2>1, <2>2, <3>2 DEF Serves
  <2> QED BY <1>5, <1>8, <2>2, <2>3 DEF DelTarTrashed
<1>9. CASE DelMetaTrashed
  <2>1. /\ Done(Holder) /\ known' = known \ {l.slug} /\ stored' = stored /\ l.slug \in Slugs
    BY <1>0, <1>2, <1>9 DEF DelMetaTrashed, Returned
  <2> QED BY <1>4, <2>1, DoneAlone, EmptyWhole DEF Serves
<1> QED BY <1>6, <1>7, <1>8, <1>9 DEF Delete

\* What a running command may do to the files: add one, or take away one of a
\* backup that is promised to nobody.
Touches ==
  \/ files' = files
  \/ \E n \in Names : files' = files \union {n}
  \/ \E n \in Names : files' = files \ {n} /\ n[2] \notin stored

LEMMA CommandAlone ==
  ASSUME IInv, AInv, Command
  PROVE  /\ AInv' /\ Touches /\ UNCHANGED <<task, queue, known, stored>>
         /\ Answered(Holder)' /\ pc[Holder] \in {"list", "listAgain"} =>
              files' = files /\ reply'.files \in {files, {}}
<1> DEFINE a == Head(queue)
           n == loc[a].cur
           l == loc[Holder]
<1>0. /\ a \in Actors /\ Holder \in Actors /\ pc[a] \in Awaiting \union {"idle", "stage"}
      /\ queue # <<>> /\ ~reply.done
      /\ UNCHANGED <<task, queue, known, stored, zombies>> /\ budget'.cancels = budget.cancels
  BY ValuesOK, HeadTailProperties
     DEF Command, CommandSucceeds, CommandFails, source, IInv, TasksOK, ServerOK
<1>1. Effect(pc[a], n) \/ UNCHANGED server
  BY DEF Command, CommandSucceeds, CommandFails
<1>2. /\ Uploading \cap Trashing = {} /\ Listing \cap (Uploading \union Trashing) = {}
      /\ {"upTar", "upMeta", "rewrite"} = Uploading /\ "idle" \notin Awaiting /\ "stage" \notin Awaiting
      /\ {"cleanTrash", "delTar", "delMeta"} \subseteq Replacing
      /\ {"list", "listAgain"} \subseteq Listing
      /\ "idle" \notin Trashing \union Uploading
  BY DEF Uploading, Trashing, Listing, Awaiting, Replacing
<1>3. pc[a] \in Named => n \in Names
  BY <1>0 DEF IInv, TasksOK, NamesOK
<1>4. ASSUME pc[a] \in Trashing PROVE a = Holder /\ n[2] \notin stored /\ n \in Names
  <2>1. a = Holder
    BY <1>0, <1>2, <1>4 DEF AInv, OnlySync, Trashing
  <2>2. \A s : Tar(s)[2] = s /\ Meta(s)[2] = s
    BY DEF Tar, Meta
  <2>3. pc[a] \in {"sweep", "cleanTrash", "delTar", "delMeta"}
    BY <1>4 DEF Trashing
  <2>4. n[2] \notin stored
    BY <1>2, <2>1, <2>2, <2>3 DEF AInv, SyncOK, Fit
  <2> QED BY <1>3, <1>4, <2>1, <2>4 DEF Named
<1>5. /\ pc[a] \notin Trashing => files' = files \/ files' = files \union {n}
      /\ pc[a] \in Trashing => files' = files \/ files' = files \ {n}
      /\ pc[a] \notin Uploading \union Trashing => files' = files
      /\ files' = files \union {n} /\ files' # files => n \in Names
  BY <1>1, <1>2, <1>3 DEF Effect, server, Named
<1>6. Touches
  BY <1>4, <1>5 DEF Touches
<1>7. StoredStaysPaired'
  <2>1. \A s \in stored : Pair(s) \subseteq files
    BY DEF AInv, StoredStaysPaired
  <2>2. \A s \in stored : n[2] \notin stored => n \notin Pair(s)
    BY DEF Pair, Tar, Meta
  <2> QED BY <1>0, <1>4, <1>5, <2>1, <2>2 DEF StoredStaysPaired
<1>8. SyncOK'
  <2>1. pc[Holder] = "upMeta" => files \subseteq files'
    BY <1>2, <1>4, <1>5
  <2> QED BY <1>0, <2>1 DEF AInv, SyncOK, Fit, task
<1>9. OnlySync'
  BY <1>0 DEF AInv, OnlySync, task
<1>10. ASSUME Answered(Holder)'
       PROVE  /\ a = Holder
              /\ reply'.ok /\ pc[a] \in {"upTar", "upMeta"} => n \in files'
              /\ pc[a] \in Listing => files' = files /\ reply'.files \in {files, {}}
              /\ pc[a] \in Listing /\ reply'.ok => reply'.files = files
  <2>1. a = Holder
    BY <1>0, <1>10 DEF Answered
  <2>2. CASE CommandSucceeds
    <3>1. pc[a] \in Uploading => n \in files'
      BY <1>2, <2>2 DEF CommandSucceeds, Effect
    <3> QED BY <1>2, <1>5, <2>1, <2>2, <3>1 DEF CommandSucceeds, Ok, NoReply
  <2>3. CASE CommandFails
    BY <1>2, <1>5, <2>1, <2>3 DEF CommandFails, Failed, NoReply
  <2> QED BY <2>2, <2>3 DEF Command
<1>11. AnswerOK'
  <2>1. \A s \in stored : Pair(s) \subseteq files
    BY DEF AInv, StoredStaysPaired
  <2> QED BY <1>0, <1>10, <2>1 DEF AnswerOK, task
<1>12. ReplyOK'
  BY <1>0 DEF Command, CommandSucceeds, CommandFails, ReplyOK, Ok, Failed, NoReply
<1> QED BY <1>0, <1>2, <1>6, <1>7, <1>8, <1>9, <1>10, <1>11, <1>12 DEF AInv

\* retain and note: a step of the editor is none of the sync.
LEMMA EditAlone ==
  ASSUME IInv, AInv, Edit
  PROVE  /\ AInv' /\ UNCHANGED <<files, known, stored, pc[Holder], loc[Holder]>>
         /\ Answered(Holder)' <=> Answered(Holder)
         /\ Answered(Holder) => reply' = reply
<1> DEFINE a == "editor"
<1>0. /\ a \in Actors /\ a # Holder /\ Holder \in Actors
      /\ pc \in [Actors -> Awaiting \union {"idle", "stage"}] /\ loc \in [Actors -> Locals]
      /\ queue \in Seq(Actors)
  BY ValuesOK DEF Edit, StartRewrite, Rewritten, Holder, IInv, TasksOK
<1>1. /\ UNCHANGED <<files, known, stored, zombies, budget, pc[Holder], loc[Holder]>>
      /\ \E p \in {"idle", "rewrite"} : pc' = [pc EXCEPT ![a] = p]
  BY <1>0 DEF Edit, StartRewrite, Rewritten, Call, Done, Release, server, source
<1>2. \/ reply' = NoReply /\ ~Answered(Holder)
      \/ pc[a] \notin Awaiting /\ reply' = reply /\ queue' = Append(queue, a)
  BY <1>0 DEF Edit, StartRewrite, Rewritten, Call, Done, Release, Returned, Answered
<1>3. /\ \A b \in Actors : Answered(b)' => Answered(b) /\ reply' = reply /\ b # a
      /\ reply'.done => queue' # <<>>
  BY <1>0, <1>2, MoveAnswered DEF AInv, ReplyOK
<1>4. Answered(Holder) => Answered(Holder)' /\ reply' = reply
  BY <1>0, <1>2, AppendHead DEF Answered
<1>5. AInv'
  <2>1. OnlySync' /\ StoredStaysPaired'
    BY <1>0, <1>1 DEF AInv, OnlySync, StoredStaysPaired
  <2>2. SyncOK'
    BY <1>1 DEF AInv, SyncOK, Fit
  <2>3. AnswerOK'
    BY <1>0, <1>1, <1>3 DEF AInv, AnswerOK
  <2>4. ReplyOK'
    BY <1>2, <1>3 DEF AInv, ReplyOK, NoReply
  <2> QED BY <2>1, <2>2, <2>3, <2>4 DEF AInv
<1> QED BY <1>0, <1>1, <1>3, <1>4, <1>5

\* Nothing is cancelled; a restart forgets everything but the folder and the
\* promises.
LEMMA EnvironmentAlone ==
  ASSUME IInv, AInv, Environment
  PROVE  /\ AInv' /\ UNCHANGED <<files, stored>>
         /\ \/ UNCHANGED <<known, pc, loc, queue, reply>>
            \/ known' = {} /\ reply' = NoReply /\ loc'[Holder] = Fresh
<1>1. CASE Crash
  <2>1. /\ pc' = [a \in Actors |-> "idle"] /\ loc' = [a \in Actors |-> Fresh] /\ reply' = NoReply
        /\ zombies' = {} /\ budget'.cancels = budget.cancels /\ UNCHANGED <<files, stored>> /\ known' = {}
    BY <1>1 DEF Crash, server, IInv, ServerOK
  <2>2. Holder \in Actors /\ pc'[Holder] = "idle" /\ loc'[Holder] = Fresh
    BY <2>1, ValuesOK
  <2>3. SyncOK' /\ OnlySync' /\ StoredStaysPaired'
    BY <2>1, <2>2, FreshFits DEF AInv, SyncOK, OnlySync, StoredStaysPaired
  <2>4. AnswerOK' /\ ReplyOK'
    BY <2>1 DEF AnswerOK, ReplyOK, Answered, NoReply
  <2> QED BY <2>1, <2>2, <2>3, <2>4 DEF AInv
<1>2. CASE \E n \in Names : UserAddsFolder(n)
  <2>1. UNCHANGED <<files, source, task, queue, reply, zombies, stored, budget>>
    BY <1>2 DEF UserAddsFolder
  <2> QED BY <2>1 DEF AInv, OnlySync, SyncOK, AnswerOK, ReplyOK, StoredStaysPaired, Answered,
                      task, source
<1>3. ~Cancel /\ ~ZombieEnds
  BY DEF Cancel, ZombieEnds, AInv, OnlySync
<1> QED BY <1>1, <1>2, <1>3 DEF Environment

LEMMA AloneInit == ASSUME Alone, Init PROVE AInv
<1>1. Holder \in Actors /\ pc[Holder] = "idle" /\ loc[Holder] = Fresh
  BY ValuesOK DEF Init
<1>2. budget.cancels = 0
  BY DEF Init, Alone
<1> QED BY <1>1, <1>2, FreshFits
        DEF Init, AInv, OnlySync, SyncOK, AnswerOK, ReplyOK, Answered, NoReply, StoredStaysPaired

LEMMA OnlyGetter == ASSUME Alone PROVE \A a \in Getters : a = Holder
BY DEF Alone, Getters, Holder

LEMMA AloneStep == ASSUME Alone, IInv, AInv, [Next]_vars PROVE AInv'
<1>1. CASE UNCHANGED vars
  BY <1>1 DEF vars, server, source, task, AInv, OnlySync, SyncOK, AnswerOK, ReplyOK,
              StoredStaysPaired, Answered
<1> QED BY <1>1, OnlyGetter, GetAlone, SaveAlone, DeleteAlone, EditAlone, CommandAlone,
           EnvironmentAlone DEF Next

LEMMA AloneInvariance == ASSUME Alone PROVE Spec => []AInv
<1>1. Init => AInv
  BY AloneInit
<1>2. IInv /\ AInv /\ [Next]_vars => AInv'
  BY AloneStep
<1> QED BY <1>1, <1>2, Invariance, PTL DEF Spec

\* While no other task lists the folder and no sync is cancelled, a backup whose
\* save() returned keeps both its files until it is deleted or saved again
\* (protonsource.py lines 333-401, 436-489 and 491-565): for any number of
\* backups, failures, restarts, folders and edits.
THEOREM StoredIsWhole ==
  ASSUME "precache" \notin Actors, MaxCancels = 0
  PROVE  Spec => []StoredStaysPaired
<1>1. Alone
  BY DEF Alone
<1>2. AInv => StoredStaysPaired
  BY DEF AInv
<1> QED BY <1>1, <1>2, AloneInvariance, PTL

-----------------------------------------------------------------------------
(* The folder implements the store of BackupStore                          *)

\* One file more or less makes one backup whole, or not, or changes nothing.
LEMMA WholeChanges ==
  ASSUME NEW F, NEW n \in Names
  PROVE  /\ n[2] \in Slugs
         /\ Whole(F \union {n}) \in {Whole(F), Whole(F) \union {n[2]}}
         /\ Whole(F \ {n}) \in {Whole(F), Whole(F) \ {n[2]}}
<1>1. n[2] \in Slugs /\ \A s \in Slugs : n \in Pair(s) => s = n[2]
  BY DEF Names, Pair, Tar, Meta
<1>2. ASSUME NEW s \in Slugs, s # n[2]
      PROVE  /\ Pair(s) \subseteq F \union {n} <=> Pair(s) \subseteq F
             /\ Pair(s) \subseteq F \ {n} <=> Pair(s) \subseteq F
  BY <1>1, <1>2
<1>3. ASSUME NEW s \in Slugs
      PROVE  /\ s \in Whole(F) => s \in Whole(F \union {n})
             /\ s \in Whole(F \ {n}) => s \in Whole(F)
             /\ s # n[2] => (s \in Whole(F \union {n}) <=> s \in Whole(F))
             /\ s # n[2] => (s \in Whole(F \ {n}) <=> s \in Whole(F))
  <2>1. ASSUME NEW G PROVE s \in Whole(G) <=> Pair(s) \subseteq G
    BY DEF Whole
  <2>2. /\ Pair(s) \subseteq F => Pair(s) \subseteq F \union {n}
        /\ Pair(s) \subseteq F \ {n} => Pair(s) \subseteq F
    OBVIOUS
  <2>3. /\ s \in Whole(F) <=> Pair(s) \subseteq F
        /\ s \in Whole(F \union {n}) <=> Pair(s) \subseteq F \union {n}
        /\ s \in Whole(F \ {n}) <=> Pair(s) \subseteq F \ {n}
    BY <2>1
  <2>4. /\ s # n[2] => (s \in Whole(F \union {n}) <=> s \in Whole(F))
        /\ s # n[2] => (s \in Whole(F \ {n}) <=> s \in Whole(F))
    BY <1>2, <2>3, Zenon
  <2> QED BY <2>2, <2>3, <2>4, Zenon
<1>4. Whole(F) \subseteq Slugs /\ Whole(F \union {n}) \subseteq Slugs /\ Whole(F \ {n}) \subseteq Slugs
  BY DEF Whole
<1>5. Whole(F \union {n}) \in {Whole(F), Whole(F) \union {n[2]}}
  BY <1>1, <1>3, <1>4
<1>6. Whole(F \ {n}) \in {Whole(F), Whole(F) \ {n[2]}}
  BY <1>1, <1>3, <1>4
<1> QED BY <1>1, <1>5, <1>6

\* What the abstract steps are made of.
LEMMA StoreSteps ==
  ASSUME \/ /\ UNCHANGED <<stored, known, SeenBySync>> /\ Touches
         \/ /\ UNCHANGED <<files, stored, known>> /\ SeenBySync' \in {Whole(files), {}}
         \/ /\ UNCHANGED <<files, stored>> /\ known' \subseteq SeenBySync /\ SeenBySync' = {}
         \/ /\ UNCHANGED <<files, SeenBySync>> /\ Serves
  PROVE  [Store!Next]_(Store!vars)
<1> USE DEF Store!vars, Store!Next
<1>1. CASE UNCHANGED <<stored, known, SeenBySync>> /\ Touches
  <2>1. files' = files => Whole(files)' = Whole(files)
    BY DEF Whole
  <2>2. ASSUME NEW n \in Names, files' = files \union {n}
        PROVE  Whole(files)' = Whole(files) \/ (Store!Appear(n[2]) /\ n[2] \in Slugs)
    <3>1. Whole(files)' = Whole(files \union {n})
      BY <2>2 DEF Whole
    <3>2. n[2] \in Slugs /\ Whole(files \union {n}) \in {Whole(files), Whole(files) \union {n[2]}}
      BY WholeChanges
    <3> QED BY <1>1, <3>1, <3>2 DEF Store!Appear
  <2>3. ASSUME NEW n \in Names, files' = files \ {n}, n[2] \notin stored
        PROVE  Whole(files)' = Whole(files) \/ (Store!Vanish(n[2]) /\ n[2] \in Slugs)
    <3>1. Whole(files)' = Whole(files \ {n})
      BY <2>3 DEF Whole
    <3>2. n[2] \in Slugs /\ Whole(files \ {n}) \in {Whole(files), Whole(files) \ {n[2]}}
      BY WholeChanges
    <3> QED BY <1>1, <2>3, <3>1, <3>2 DEF Store!Vanish
  <2> QED BY <1>1, <2>1, <2>2, <2>3 DEF Touches
<1>2. ASSUME files' = files PROVE Whole(files)' = Whole(files)
  BY <1>2 DEF Whole
<1>3. CASE UNCHANGED <<files, stored, known>> /\ SeenBySync' \in {Whole(files), {}}
  BY <1>2, <1>3 DEF Store!Look, Store!GiveUp
<1>4. CASE UNCHANGED <<files, stored>> /\ known' \subseteq SeenBySync /\ SeenBySync' = {}
  BY <1>2, <1>4 DEF Store!Learn
<1>5. CASE UNCHANGED <<files, SeenBySync>> /\ Serves
  BY <1>2, <1>5 DEF Serves, Store!Withdraw, Store!Saved, Store!Deleted, Whole
<1> QED BY <1>1, <1>3, <1>4, <1>5

\* What the sync has seen, after a step that leaves it with a listing or without.
LEMMA SeenNext ==
  ASSUME AInv'
  PROVE  /\ ~Answered(Holder)' => SeenBySync' = Whole(loc[Holder].seen)'
         /\ pc'[Holder] \notin {"list", "listAgain"} => SeenBySync' = Whole(loc[Holder].seen)'
         /\ Answered(Holder)' /\ pc'[Holder] \in {"list", "listAgain"} => SeenBySync' = Whole(reply.files)'
<1>1. ASSUME pc'[Holder] \in {"list", "listAgain"}, ~reply'.done PROVE SeenBySync' = Whole(loc[Holder].seen)'
  <2>1. reply'.files = {} /\ loc'[Holder].seen = {}
    BY <1>1 DEF AInv, ReplyOK, NoReply, SyncOK, Fit, Reading
  <2> QED BY <1>1, <2>1 DEF SeenBySync, Answered
<1> QED BY <1>1 DEF SeenBySync, Answered

\* Every step of the folder is a step of the store, or none.
LEMMA StoreStep ==
  ASSUME Alone, IInv, AInv, AInv', [Next]_vars
  PROVE  [Store!Next]_(Store!vars)
<1>1. Fresh.seen = {} /\ Whole({}) = {} /\ \A F : F = {} => Whole(F) = {}
  BY EmptyWhole
<1>2. ASSUME UNCHANGED <<pc[Holder], loc[Holder]>>, Answered(Holder)' <=> Answered(Holder),
             Answered(Holder) => reply' = reply
      PROVE  SeenBySync' = SeenBySync
  BY <1>2, Seen, SeenNext DEF Witnessed, Whole
<1>3. CASE UNCHANGED vars
  <2>1. UNCHANGED <<files, known, stored, pc, loc, queue, reply>>
    BY <1>3 DEF vars, server, source, task
  <2>2. SeenBySync' = SeenBySync
    BY <1>2, <2>1 DEF Answered
  <2> QED BY <2>1, <2>2, StoreSteps DEF Touches
<1>4. CASE \E a \in Getters : Get(a)
  <2>1. UNCHANGED <<files, stored>> /\ Learns(SeenBySync)
    BY <1>4, OnlyGetter, GetAlone
  <2>2. SeenBySync' = Whole(loc[Holder].seen)'
    BY <2>1, SeenNext DEF Learns
  <2>3. CASE known' = known /\ SeenBySync' = SeenBySync
    BY <2>1, <2>3, StoreSteps DEF Touches
  <2>4. CASE known' = known /\ SeenBySync' = {}
    BY <2>1, <2>4, StoreSteps
  <2>5. CASE known' \subseteq SeenBySync /\ loc'[Holder].seen = {}
    BY <1>1, <2>1, <2>2, <2>5, StoreSteps DEF Whole
  <2> QED BY <2>1, <2>2, <2>3, <2>4, <2>5 DEF Learns, Whole
<1>5. CASE Save \/ Delete
  <2>1. files' = files /\ SeenBySync = {} /\ Serves
    BY <1>5, SaveAlone, DeleteAlone
  <2>2. SeenBySync' = {}
    BY <1>1, <2>1, SeenNext DEF Serves, Whole
  <2> QED BY <2>1, <2>2, StoreSteps
<1>6. CASE Edit
  <2>1. SeenBySync' = SeenBySync
    BY <1>2, <1>6, EditAlone
  <2> QED BY <1>6, <2>1, EditAlone, StoreSteps DEF Touches
<1>7. CASE Command
  <2>1. Touches /\ UNCHANGED <<task, queue, known, stored>> /\ ~Answered(Holder)
    BY <1>7, CommandAlone DEF Command, CommandSucceeds, CommandFails, Answered
  <2>2. CASE Answered(Holder)' /\ pc[Holder] \in {"list", "listAgain"}
    <3>1. files' = files /\ reply'.files \in {files, {}}
      BY <1>7, <2>2, CommandAlone
    <3>2. SeenBySync' \in {Whole(files), {}}
      BY <1>1, <2>1, <2>2, <3>1, SeenNext DEF task, Whole
    <3> QED BY <2>1, <3>1, <3>2, StoreSteps
  <2>3. CASE ~(Answered(Holder)' /\ pc[Holder] \in {"list", "listAgain"})
    <3>1. SeenBySync' = SeenBySync
      BY <2>1, <2>3, Seen, SeenNext DEF Witnessed, task, Whole
    <3> QED BY <2>1, <3>1, StoreSteps
  <2> QED BY <2>2, <2>3
<1>8. CASE Environment
  <2>1. UNCHANGED <<files, stored>>
    BY <1>8, EnvironmentAlone
  <2>2. CASE UNCHANGED <<known, pc, loc, queue, reply>>
    <3>1. SeenBySync' = SeenBySync
      BY <1>2, <2>2 DEF Answered
    <3> QED BY <2>1, <2>2, <3>1, StoreSteps DEF Touches
  <2>3. CASE known' = {} /\ reply' = NoReply /\ loc'[Holder] = Fresh
    <3>1. SeenBySync' = {}
      BY <1>1, <2>3, SeenNext DEF Answered, NoReply, Whole
    <3> QED BY <2>1, <2>3, <3>1, StoreSteps
  <2> QED BY <1>8, <2>2, <2>3, EnvironmentAlone
<1> QED BY <1>3, <1>4, <1>5, <1>6, <1>7, <1>8 DEF Next

LEMMA StoreInit == ASSUME Init PROVE Store!Init
<1>1. Holder \in Actors
  BY ValuesOK
<1>2. Whole(files) \in SUBSET Slugs
  BY DEF Whole
<1>3. SeenBySync = {}
  BY <1>1, EmptyWhole DEF Init, SeenBySync
<1> QED BY <1>2, <1>3 DEF Init, Store!Init

\* The two files, the tool and the tasks together are the store of BackupStore,
\* while no other task lists the folder and no sync is cancelled: what the Model
\* is told was whole when get() looked, and what was promised stays whole
\* (protonsource.py lines 242-565).
THEOREM FolderIsStore ==
  ASSUME "precache" \notin Actors, MaxCancels = 0
  PROVE  Spec => ImplementsStore
<1>1. Alone
  BY DEF Alone
<1>2. Init => Store!Init
  BY StoreInit
<1>3. IInv /\ AInv /\ AInv' /\ [Next]_vars => [Store!Next]_(Store!vars)
  BY <1>1, StoreStep
<1> QED BY <1>1, <1>2, <1>3, AloneInvariance, Invariance, PTL DEF Spec, ImplementsStore, Store!Spec

-----------------------------------------------------------------------------
(* DriveNames: items that are known by their names                         *)

\* A task that walks has the lock; what it is about to create is not there.
Walking ==
  /\ count \in [Paths -> Nat] /\ loose \in [Paths -> Nat]
  /\ at \in [Tasks -> Stages \union {"idle", "waiting"}]
  /\ \A t \in Tasks : at[t] \in Stages => holder = {t}
  /\ \A t \in Tasks : at[t] = "create" /\ Here(t) \in Paths \ mixed => count[Here(t)] = 0
  /\ \A p \in Paths : loose[p] > 0 => p \in mixed
  /\ OneFolder

\* What was found by the probe is this add-on's own file, until others interfere.
Deleting ==
  /\ {tar, meta} \subseteq ours \union {Unknown}
  /\ doing \in {"deleteTar", "deleteMeta"} /\ ~raced =>
       first[NameOf[Item]] = Item /\ Item \in ours \ Folders
  /\ OnlyOursLost

\* A task that leaves or goes on is alone: nobody is about to create anything.
LEMMA MovesOn ==
  ASSUME Walking, NEW t \in Tasks, at[t] \in Stages, Advance(t) \/ Leave(t)
  PROVE  /\ at' \in [Tasks -> Stages \union {"idle", "waiting"}]
         /\ \A u \in Tasks : at'[u] \in Stages => holder' = {u}
         /\ \A u \in Tasks : at'[u] # "create"
<1>1. holder = {t} /\ \A u \in Tasks : u # t => at[u] \notin Stages
  BY DEF Walking
<1>2. \/ holder' = {} /\ at' = [at EXCEPT ![t] = "idle"]
      \/ holder' = holder /\ at' = [at EXCEPT ![t] = "list"]
  BY DEF Advance, Leave
<1> QED BY <1>1, <1>2 DEF Walking, Stages

\* What a task creates is the first of its name.
LEMMA AddsFirst ==
  ASSUME Walking, NEW t \in Tasks, at[t] = "create", Add(Here(t))
  PROVE  count' \in [Paths -> Nat] /\ \A p \in Paths : p \notin mixed => count'[p] <= 1
<1>1. count' = [p \in Paths |-> IF p = Here(t) THEN count[p] + 1 ELSE count[p]]
  BY Zenon DEF Walking, Add
<1>2. \A p \in Paths : count[p] \in Nat /\ count[p] + 1 \in Nat
  BY DEF Walking
<1>3. ASSUME NEW p \in Paths, p \notin mixed PROVE count'[p] <= 1
  <2>1. CASE p = Here(t)
    <3>1. count[p] = 0
      BY <1>3, <2>1 DEF Walking
    <3> QED BY <1>1, <2>1, <3>1
  <2>2. CASE p # Here(t)
    BY <1>1, <1>3, <2>2 DEF Walking, OneFolder
  <2> QED BY <2>1, <2>2
<1> QED BY <1>1, <1>2, <1>3

LEMMA TaskKeeps ==
  ASSUME Walking, NEW t \in Tasks,
         \/ WalkCalled(t) \/ Enter(t) \/ WalkListed(t) \/ Created(t) \/ CreateFails(t)
         \/ WalkRelisted(t) \/ WalkFails(t) \/ Cancelled(t) \/ GivesUp(t)
  PROVE  Walking'
<1> USE DEF Walking, OneFolder, Stages
<1>1. CASE WalkCalled(t) \/ GivesUp(t)
  BY <1>1 DEF WalkCalled, GivesUp, Here
<1>2. CASE Enter(t)
  BY <1>2 DEF Enter, Here
<1>3. CASE WalkListed(t)
  <2>1. CASE Advance(t) \/ Leave(t)
    BY <1>3, <2>1, MovesOn DEF WalkListed
  <2>2. CASE /\ at' = [at EXCEPT ![t] = "create"] /\ UNCHANGED <<holder, todo>>
             /\ ~(count[Here(t)] > 0)
    BY <1>3, <2>2 DEF WalkListed, Here
  <2> QED BY <1>3, <2>1, <2>2 DEF WalkListed
<1>4. CASE Created(t)
  <2>1. at[t] = "create" /\ Add(Here(t)) /\ UNCHANGED <<loose, mixed>>
    BY <1>4 DEF Created
  <2>2. count' \in [Paths -> Nat] /\ \A p \in Paths : p \notin mixed => count'[p] <= 1
    BY <2>1, AddsFirst
  <2> QED BY <1>4, <2>1, <2>2, MovesOn DEF Created
<1>5. CASE CreateFails(t)
  <2>1. /\ at[t] = "create" /\ (Add(Here(t)) \/ count' = count)
        /\ at' = [at EXCEPT ![t] = "relist"]
        /\ UNCHANGED <<holder, todo, loose, mixed>>
    BY <1>5 DEF CreateFails
  <2>2. count' \in [Paths -> Nat] /\ \A p \in Paths : p \notin mixed => count'[p] <= 1
    BY <2>1, AddsFirst
  <2>3. \A u \in Tasks : at'[u] # "create" /\ (at'[u] \in Stages => at[u] \in Stages)
    BY <2>1
  <2> QED BY <2>1, <2>2, <2>3
<1>6. CASE WalkRelisted(t)
  BY <1>6 DEF WalkRelisted, Advance, Leave, Here
<1>7. CASE WalkFails(t)
  BY <1>7 DEF WalkFails, Leave, Add, Here
<1>8. CASE Cancelled(t)
  BY <1>8 DEF Cancelled, Leave, Here
<1> QED BY <1>1, <1>2, <1>3, <1>4, <1>5, <1>6, <1>7, <1>8

LEMMA OthersKeep ==
  ASSUME Walking, (\E p \in Paths : LooseEnds(p)) \/ Unlatch \/ SettingChanges \/ Others
  PROVE  Walking'
<1> USE DEF Walking, OneFolder, Stages
<1>1. CASE \E p \in Paths : LooseEnds(p)
  BY <1>1 DEF LooseEnds, Add, Here
<1>2. CASE Unlatch \/ SettingChanges
  BY <1>2 DEF Unlatch, SettingChanges, Here
<1>3. CASE Others
  BY <1>3 DEF Others, Add, Here
<1> QED BY <1>1, <1>2, <1>3

LEMMA DeleteKeeps == ASSUME Deleting, DeleteNext PROVE Deleting'
<1> USE DEF Deleting, OnlyOursLost
<1>1. ASSUME NEW i \in Items, TrashTar(i) \/ TrashMeta(i) \/ NewFile(i) PROVE Deleting'
  BY <1>1 DEF TrashTar, TrashMeta, NewFile, Item
<1>2. CASE TrashMetaFails
  BY <1>2 DEF TrashMetaFails
<1>3. CASE Probed
  BY <1>3 DEF Probed, Item
<1>4. CASE Skipped \/ DeleteFails
  BY <1>4 DEF Skipped, DeleteFails, Following
<1>5. CASE DeletedForever
  BY <1>5 DEF DeletedForever, Following
<1>6. CASE OthersTrash
  BY <1>6 DEF OthersTrash
<1> QED BY <1>1, <1>2, <1>3, <1>4, <1>5, <1>6 DEF DeleteNext

LEMMA NamesInvariance == NamesSpec => [](Walking /\ Deleting)
<1>1. NamesInit => Walking /\ Deleting
  BY DEF NamesInit, Walking, Deleting, OneFolder, OnlyOursLost, Stages
<1>2. Walking /\ Deleting /\ [NamesNext]_namesVars => Walking' /\ Deleting'
  <2> SUFFICES ASSUME Walking, Deleting, [NamesNext]_namesVars PROVE Walking' /\ Deleting'
    OBVIOUS
  <2>1. ASSUME UNCHANGED walking PROVE Walking'
    BY <2>1 DEF walking, Walking, OneFolder, Here
  <2>2. ASSUME UNCHANGED deleting PROVE Deleting'
    BY <2>2 DEF deleting, Deleting, OnlyOursLost, Item
  <2>3. ASSUME WalkNext PROVE Walking'
    BY <2>3, TaskKeeps, OthersKeep DEF WalkNext
  <2>4. ASSUME DeleteNext PROVE Deleting'
    BY <2>4, DeleteKeeps
  <2> QED BY <2>1, <2>2, <2>3, <2>4 DEF NamesNext, namesVars
<1> QED BY <1>1, <1>2, PTL DEF NamesSpec

\* For any number of tasks, settings and folders.
THEOREM NoSecondFolder == NamesSpec => []OneFolder
<1>1. Walking => OneFolder
  BY DEF Walking
<1> QED BY NamesInvariance, <1>1, PTL

\* For any contents of the trash and whatever other clients do.
THEOREM NothingElseLost == NamesSpec => []OnlyOursLost
<1>1. Deleting => OnlyOursLost
  BY DEF Deleting
<1> QED BY NamesInvariance, <1>1, PTL
=============================================================================
