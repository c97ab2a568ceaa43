---------------------------- MODULE SettingsProofs ----------------------------
(***************************************************************************)
(* That what the settings page saved stays in memory and in the            *)
(* Supervisor, and that "never ask again" and hiding the server change     *)
(* nothing else, for any number of edits, failures and restarts.           *)
(***************************************************************************)
EXTENDS Settings, TLAPS

-----------------------------------------------------------------------------
(* What validation makes of options                                        *)

\* The value of a key whose default does not depend on legacy.
Value(o, k) == IF o[k] = Absent THEN 0 ELSE o[k]

\* Options hold a form if they have all that it asks for; no default is taken
\* then that a restart could change.
Holds(o, f) == /\ o["upgrades"] # Absent
               /\ \A k \in Keys \ NonUi : Value(o, k) = Asked(f, k)

LEMMA GetType == ASSUME NEW o \in Options, NEW k \in Keys PROVE Get(o, k) \in Values
BY DEF Get, Options, Values, Absent

LEMMA NotDefaultType ==
  ASSUME NEW o \in Options
  PROVE  /\ NotDefault(o) \in Options
         /\ NotDefault(o)["upgrades"] = o["upgrades"]
         /\ \A k \in Keys : Value(NotDefault(o), k) = Value(o, k)
<1> USE DEF Options, Values, Absent, KeepDefault, Keys
<1>1. NotDefault(o) \in Options /\ NotDefault(o)["upgrades"] = o["upgrades"]
  BY DEF NotDefault
<1>2. ASSUME NEW k \in Keys PROVE Value(NotDefault(o), k) = Value(o, k)
  BY DEF NotDefault, Value
<1> QED BY <1>1, <1>2

\* Completing options takes a certificate that is of no use, and no other value.
LEMMA CompletedType ==
  ASSUME NEW m \in Options
  PROVE  /\ Completed(m) \in Options
         /\ Completed(m)["upgrades"] = m["upgrades"]
         /\ \A k \in Keys :
              Value(Completed(m), k) = IF k \in SslOnly /\ m["ssl"] # 1 THEN 0 ELSE Value(m, k)
<1> USE DEF Options, Values, Absent, AlwaysKeep, SslOnly, Keys
<1> DEFINE kept == [k \in Keys |-> IF k \in AlwaysKeep /\ m[k] = Absent THEN 0 ELSE m[k]]
<1>1. kept \in Options /\ kept["upgrades"] = m["upgrades"]
  OBVIOUS
<1>2. ASSUME NEW k \in Keys PROVE Value(kept, k) = Value(m, k)
  BY DEF Value
<1>3. Completed(m) = IF m["ssl"] = 1 THEN kept ELSE [kept EXCEPT !["cert"] = Absent]
  BY DEF Completed
<1> HIDE DEF kept
<1>4. CASE m["ssl"] = 1
  BY <1>1, <1>2, <1>3, <1>4
<1>5. CASE m["ssl"] # 1
  <2>1. Completed(m) = [kept EXCEPT !["cert"] = Absent]
    BY <1>3, <1>5
  <2>2. Completed(m) \in Options /\ Completed(m)["upgrades"] = m["upgrades"]
    BY <1>1, <2>1
  <2>3. ASSUME NEW k \in Keys
        PROVE  Value(Completed(m), k) = IF k \in SslOnly THEN 0 ELSE Value(m, k)
    BY <1>1, <1>2, <2>1 DEF Value
  <2> QED BY <1>5, <2>2, <2>3
<1> QED BY <1>4, <1>5

\* Validation keeps a setting that it does not take from memory, but for the
\* certificate that is of no use.
LEMMA Validated ==
  ASSUME memory \in Options, NEW o \in Options, NEW new \in {ValidateNames(o), ValidateSettings(o)}
  PROVE  /\ new \in Options /\ new["upgrades"] = o["upgrades"]
         /\ \A k \in Keys \ NonUi :
              Value(new, k) = IF k \in SslOnly /\ Value(o, "ssl") # 1 THEN 0 ELSE Value(o, k)
<1>1. PICK m \in Options : /\ new = Completed(m)
                           /\ \A k \in Keys \ NonUi : m[k] = NotDefault(o)[k]
  <2>1. \A k \in Keys : Get(memory, k) \in Values
    BY GetType
  <2>2. NotDefault(o) \in Options
    BY NotDefaultType
  <2>3. CASE new = ValidateNames(o)
    <3> DEFINE m == [k \in Keys |-> IF k \in NonUi /\ Get(memory, k) # 0
                                    THEN Get(memory, k) ELSE NotDefault(o)[k]]
    <3>1. m \in Options /\ new = Completed(m) /\ \A k \in Keys \ NonUi : m[k] = NotDefault(o)[k]
      BY <2>1, <2>2, <2>3 DEF Options, ValidateNames
    <3> QED BY <3>1
  <2>4. CASE new = ValidateSettings(o)
    <3> DEFINE m == [k \in Keys |-> IF k \in NonUi /\ Get(memory, k) # 0 /\ o[k] = Absent
                                    THEN Get(memory, k) ELSE NotDefault(o)[k]]
    <3>1. m \in Options /\ new = Completed(m) /\ \A k \in Keys \ NonUi : m[k] = NotDefault(o)[k]
      BY <2>1, <2>2, <2>4 DEF Options, ValidateSettings
    <3> QED BY <3>1
  <2> QED BY <2>3, <2>4
<1>2. {"upgrades", "ssl"} \subseteq Keys \ NonUi
  BY DEF Keys, NonUi
<1>3. new \in Options /\ new["upgrades"] = o["upgrades"]
  BY <1>1, <1>2, CompletedType, NotDefaultType
<1>4. \A k \in Keys \ NonUi : Value(m, k) = Value(o, k)
  BY <1>1, NotDefaultType DEF Value
<1>5. m["ssl"] # 1 <=> Value(o, "ssl") # 1
  BY <1>1, <1>2, <1>4 DEF Value, Absent
<1>6. \A k \in Keys \ NonUi :
        Value(new, k) = IF k \in SslOnly /\ Value(o, "ssl") # 1 THEN 0 ELSE Value(o, k)
  BY <1>1, <1>4, <1>5, CompletedType
<1> QED BY <1>3, <1>6

\* What the page sent is what validation keeps, and keeps again.
LEMMA FormHolds ==
  ASSUME memory \in Options, NEW f \in Forms
  PROVE  ValidateNames(f) \in Options /\ Holds(ValidateNames(f), f)
<1>1. f \in Options /\ \A k \in Keys : Value(f, k) = f[k] /\ f[k] \in {0, 1}
  BY DEF Forms, Options, Value, Values, Absent
<1>2. "ssl" \in Keys /\ "upgrades" \in Keys
  BY DEF Keys
<1>3. f["upgrades"] # Absent
  BY <1>1, <1>2 DEF Absent
<1> QED BY <1>1, <1>2, <1>3, Validated DEF Holds, Asked

LEMMA StillHolds ==
  ASSUME memory \in Options, NEW o \in Options, NEW f \in Forms, Holds(o, f),
         NEW new \in {ValidateNames(o), ValidateSettings(o)}
  PROVE  new \in Options /\ Holds(new, f)
<1>1. "ssl" \in Keys \ NonUi /\ "ssl" \notin SslOnly /\ f["ssl"] \in {0, 1}
  BY DEF Keys, NonUi, SslOnly, Forms, Values
<1>2. Value(o, "ssl") = f["ssl"]
  BY <1>1 DEF Holds, Asked
<1> QED BY <1>1, <1>2, Validated DEF Holds, Asked

\* What is held is what get() says, whatever version the add-on thinks it was.
LEMMA GetHeld ==
  ASSUME NEW o \in Options, NEW f, Holds(o, f), NEW k \in Keys \ NonUi
  PROVE  Get(o, k) = Asked(f, k)
BY DEF Holds, Get, Value

-----------------------------------------------------------------------------
(* What is saved stays                                                     *)

\* A form on its way is held by the options it sends; only a form makes saved.
PostOK == post # None =>
  /\ post.kind = "save" <=> post.form # None
  /\ post.kind = "save" => Holds(post.new, post.form)

\* While what was saved counts, nothing is on its way to the Supervisor, and
\* whoever has read the options has read those that hold it.
SavedOK == saved # None =>
  /\ post = None /\ Holds(opts, saved) /\ Holds(memory, saved)
  /\ \A r \in Readers : read[r] \in {None, opts}

\* What a request of that kind leaves alone, from these options.
Left(kind, o) ==
  Keys \ (IF kind = "hide" THEN {"ssl", "cert"}
          ELSE {"confirm"} \union (IF Get(o, "ssl") = 0 THEN SslOnly ELSE {}))

\* A request that began with the Supervisor's options would leave the rest.
BaseOK == post # None /\ post.kind # "save" /\ post.base # None =>
  \A k \in Left(post.kind, post.base) : Get(post.new, k) = Get(post.base, k)

IInv == TypeOK /\ PostOK /\ SavedOK /\ BaseOK

LEMMA InitOK == Init => IInv
<1> SUFFICES ASSUME Init PROVE IInv
  OBVIOUS
<1>1. opts \in Options
  BY DEF Init, Options, Values
<1>2. budget \in Budget
  BY BoundsAssumption DEF Init, Budget
<1>3. {byName, noticed, legacy} \subseteq BOOLEAN
  BY DEF Init
<1>4. DOMAIN read = Readers /\ \A r \in Readers : read[r] = None
  BY DEF Init
<1> QED BY <1>1, <1>2, <1>3, <1>4 DEF Init, IInv, TypeOK, PostOK, SavedOK, BaseOK

LEMMA SpendType ==
  ASSUME TypeOK,
         \/ Spend("edits", MaxEdits) \/ Spend("faults", MaxFaults) \/ Spend("restarts", MaxRestarts)
  PROVE  budget' \in Budget
BY BoundsAssumption DEF TypeOK, Budget, Spend

\* None is neither a form, nor options, nor a request.
LEMMA NoneIsNone == None \notin Forms /\ None \notin Options /\ None \notin Posts
<1>1. DOMAIN None = {"none"} /\ "kind" # "none"
  BY DEF None
<1>2. \A x \in Forms \union Options : DOMAIN x = Keys
  BY DEF Forms, Options
<1>3. \A x \in Posts : "kind" \in DOMAIN x
  BY DEF Posts
<1>4. "count" \in Keys
  BY DEF Keys
<1> QED BY <1>1, <1>2, <1>3, <1>4

LEMMA ReadersKeep ==
  ASSUME IInv, NEW r \in Readers, RefreshReads(r) \/ RefreshEnds(r) \/ RefreshFails(r)
  PROVE  IInv'
<1> USE DEF IInv
<1>1. /\ UNCHANGED <<opts, noticed, legacy, post, saved>>
      /\ read' \in {[read EXCEPT ![r] = None], [read EXCEPT ![r] = opts]}
      /\ budget' \in Budget
  BY SpendType DEF RefreshReads, RefreshEnds, RefreshFails, TypeOK
<1>2. /\ DOMAIN read' = Readers
      /\ \A s \in Readers : read'[s] \in {read[s], None, opts}
  BY <1>1 DEF TypeOK
<1>3. memory' \in Options /\ (form' = None \/ form' \in Forms) /\ byName' \in BOOLEAN
  <2>1. CASE RefreshReads(r) \/ RefreshFails(r)
    BY <2>1 DEF RefreshReads, RefreshFails, TypeOK
  <2>2. CASE RefreshEnds(r)
    <3>1. read[r] \in Options /\ memory' = ValidateNames(read[r])
      BY <2>2 DEF RefreshEnds, TypeOK
    <3>2. memory' \in Options
      BY <3>1, Validated DEF TypeOK
    <3>3. [k \in Keys |-> Get(memory', k)] \in Forms
      BY <3>2, GetType DEF Forms
    <3> QED BY <2>2, <3>2, <3>3 DEF RefreshEnds, TypeOK
  <2> QED BY <2>1, <2>2
<1>4. TypeOK'
  BY <1>1, <1>2, <1>3 DEF TypeOK
<1>5. PostOK' /\ BaseOK'
  BY <1>1 DEF PostOK, BaseOK, Holds, Value, Asked, Left, Get
<1>6. SavedOK'
  <2> SUFFICES ASSUME saved # None PROVE SavedOK'
    BY <1>1 DEF SavedOK
  <2>1. saved \in Forms /\ Holds(opts, saved) /\ Holds(memory, saved) /\ post = None
        /\ opts \in Options /\ memory \in Options
    BY DEF SavedOK, TypeOK
  <2>2. Holds(memory', saved)
    <3>1. CASE RefreshReads(r) \/ RefreshFails(r)
      BY <2>1, <3>1 DEF RefreshReads, RefreshFails
    <3>2. CASE RefreshEnds(r)
      <4>1. read[r] = opts /\ memory' = ValidateNames(opts)
        BY <3>2 DEF RefreshEnds, SavedOK
      <4> QED BY <2>1, <4>1, StillHolds
    <3> QED BY <3>1, <3>2
  <2>3. \A s \in Readers : read'[s] \in {None, opts}
    BY <1>2 DEF SavedOK
  <2> QED BY <1>1, <2>1, <2>2, <2>3 DEF SavedOK, Holds, Value, Asked
<1> QED BY <1>4, <1>5, <1>6

LEMMA UpdateType ==
  ASSUME memory \in Options, NEW additions, \A k \in DOMAIN additions : additions[k] \in Values
  PROVE  ValidateUpdate(additions) \in Options
<1> DEFINE o == [k \in Keys |-> IF k \in Replaced(additions) THEN additions[k] ELSE memory[k]]
<1>1. o \in Options /\ ValidateUpdate(additions) = ValidateSettings(o)
  BY DEF Options, ValidateUpdate, Replaced
<1> HIDE DEF o
<1> QED BY <1>1, Validated

\* Sending options in which memory has its own way changes what was asked only.
LEMMA UpdateKeeps ==
  ASSUME memory \in Options, opts \in Options, NEW additions,
         NEW K \in SUBSET Keys, DOMAIN additions \cap K = {},
         \A k \in DOMAIN additions : additions[k] \in Values,
         \A k \in Keys : Get(memory, k) = Get(opts, k),
         "cert" \in K => "ssl" \notin DOMAIN additions /\ Get(opts, "ssl") # 0
  PROVE  /\ ValidateUpdate(additions) \in Options
         /\ \A k \in K : Get(ValidateUpdate(additions), k) = Get(opts, k)
<1> DEFINE o == [k \in Keys |-> IF k \in Replaced(additions) THEN additions[k] ELSE memory[k]]
           m == [k \in Keys |-> IF k \in NonUi /\ Get(memory, k) # 0 /\ o[k] = Absent
                                THEN Get(memory, k) ELSE NotDefault(o)[k]]
           new == ValidateUpdate(additions)
<1>1. o \in Options /\ \A k \in K : o[k] = memory[k]
  BY DEF Options, Replaced
<1>2. new = Completed(m)
  BY DEF ValidateUpdate, ValidateSettings
<1>3. new \in Options /\ new["upgrades"] = o["upgrades"]
  <2>1. new = ValidateSettings(o)
    BY DEF ValidateUpdate
  <2> HIDE DEF new, o
  <2> QED BY <1>1, <2>1, Validated
<1>4. m \in Options /\ m["upgrades"] = o["upgrades"]
      /\ \A k \in Keys : m[k] = IF k \in NonUi /\ Get(memory, k) # 0 /\ o[k] = Absent
                                THEN Get(memory, k) ELSE NotDefault(o)[k]
  <2>1. \A k \in Keys : Get(memory, k) \in Values
    BY GetType
  <2>2. NotDefault(o) \in Options /\ NotDefault(o)["upgrades"] = o["upgrades"]
    BY <1>1, NotDefaultType
  <2> HIDE DEF o
  <2> QED BY <2>1, <2>2 DEF Options, NonUi, Keys
<1> HIDE DEF o, m, new
<1>5. \A k \in Keys : Value(NotDefault(o), k) = Value(o, k)
  BY <1>1, NotDefaultType
<1>6. \A k \in Keys \ {"upgrades"} : \A x : Get(x, k) = Value(x, k)
  BY DEF Get, Value
<1>7. ASSUME NEW k \in K, k # "upgrades" PROVE Value(m, k) = Value(memory, k)
  BY <1>1, <1>4, <1>5, <1>6, <1>7 DEF Value, NonUi
<1>8. ASSUME NEW k \in K PROVE Get(new, k) = Get(opts, k)
  <2>1. CASE k = "upgrades"
    BY <1>1, <1>3, <2>1 DEF Get
  <2>2. CASE k # "upgrades" /\ k # "cert"
    <3>1. Value(new, k) = Value(m, k)
      BY <1>2, <1>4, <2>2, CompletedType DEF SslOnly
    <3> QED BY <1>6, <1>7, <2>2, <3>1
  <2>3. CASE k = "cert"
    <3>1. "ssl" \in Keys \ NonUi /\ "ssl" # "upgrades"
      BY DEF Keys, NonUi
    <3>2. o["ssl"] = memory["ssl"] /\ Value(memory, "ssl") # 0
      BY <1>6, <2>3, <3>1 DEF o, Replaced
    <3>3. m["ssl"] = NotDefault(o)["ssl"] /\ Value(m, "ssl") # 0
      BY <1>4, <1>5, <3>1, <3>2 DEF Value
    <3>4. m["ssl"] = 1
      BY <1>4, <3>1, <3>3 DEF Value, Options, Values
    <3>5. Value(new, k) = Value(m, k)
      BY <1>2, <1>4, <3>4, CompletedType
    <3> QED BY <1>6, <1>7, <2>3, <3>5
  <2> QED BY <2>1, <2>2, <2>3
<1> QED BY <1>3, <1>8 DEF new

LEMMA SubmitKeeps ==
  ASSUME IInv,
         \/ \E k \in Keys, v \in Values \union {Refused} : Save(k, v)
         \/ Confirm \/ Hide
  PROVE  IInv'
<1> USE DEF IInv
<1>1. ASSUME NEW kind \in {"save", "confirm", "hide"}, NEW new \in Options,
             NEW f \in Forms \union {None}, Submit(kind, new, f),
             kind = "save" <=> f # None,
             kind = "save" => Holds(new, f),
             kind # "save" /\ (\A k \in Keys : Get(memory, k) = Get(opts, k)) =>
               \A k \in Left(kind, opts) : Get(new, k) = Get(opts, k)
      PROVE  IInv'
  <2>1. /\ UNCHANGED <<opts, memory, byName, noticed, legacy, read, form>> /\ saved' = None
        /\ post'.kind = kind /\ post'.new = new /\ post'.form = f /\ post' \in Posts
        /\ post'.base = IF \A k \in Keys : Get(memory, k) = Get(opts, k) THEN opts ELSE None
    BY <1>1 DEF Submit, Posts, TypeOK
  <2>2. TypeOK'
    BY <1>1, <2>1, SpendType DEF TypeOK, Submit
  <2>3. PostOK'
    BY <1>1, <2>1 DEF PostOK, Holds, Value, Asked
  <2>4. BaseOK'
    BY <1>1, <2>1 DEF BaseOK, Left, Get
  <2> QED BY <2>1, <2>2, <2>3, <2>4 DEF SavedOK
<1>2. memory \in Options /\ opts \in Options
  BY DEF TypeOK
<1>3. ASSUME NEW k \in Keys, NEW v \in Values \union {Refused}, Save(k, v) PROVE IInv'
  <2> DEFINE f == [form EXCEPT ![k] = v]
  <2>1. form \in Forms /\ v \in Values /\ Submit("save", ValidateNames(f), f)
    BY <1>3 DEF Save, TypeOK
  <2>2. f \in Forms
    BY <2>1 DEF Forms
  <2> HIDE DEF f
  <2>3. ValidateNames(f) \in Options /\ Holds(ValidateNames(f), f)
    BY <1>2, <2>2, FormHolds
  <2> QED BY <1>1, <2>1, <2>2, <2>3, NoneIsNone
<1>4. CASE Confirm
  <2> DEFINE a == [confirm |-> 1]
  <2>1. /\ DOMAIN a = {"confirm"} /\ \A k \in DOMAIN a : a[k] \in Values
        /\ Submit("confirm", ValidateUpdate(a), None)
    BY <1>4 DEF Confirm, Values
  <2>2. /\ Left("confirm", opts) \in SUBSET Keys /\ DOMAIN a \cap Left("confirm", opts) = {}
        /\ "cert" \in Left("confirm", opts) => Get(opts, "ssl") # 0
    BY <2>1 DEF Left, SslOnly
  <2>3. ValidateUpdate(a) \in Options
    BY <1>2, <2>1, UpdateType
  <2> HIDE DEF a
  <2>4. (\A k \in Keys : Get(memory, k) = Get(opts, k)) =>
          \A k \in Left("confirm", opts) : Get(ValidateUpdate(a), k) = Get(opts, k)
    BY <1>2, <2>1, <2>2, UpdateKeeps
  <2> QED BY <1>1, <2>1, <2>3, <2>4
<1>5. CASE Hide
  <2> DEFINE a == [ssl |-> 0]
  <2>1. /\ DOMAIN a = {"ssl"} /\ \A k \in DOMAIN a : a[k] \in Values
        /\ Submit("hide", ValidateUpdate(a), None)
    BY <1>5 DEF Hide, Values
  <2>2. /\ Left("hide", opts) \in SUBSET Keys /\ DOMAIN a \cap Left("hide", opts) = {}
        /\ "cert" \notin Left("hide", opts)
    BY <2>1 DEF Left
  <2>3. ValidateUpdate(a) \in Options
    BY <1>2, <2>1, UpdateType
  <2> HIDE DEF a
  <2>4. (\A k \in Keys : Get(memory, k) = Get(opts, k)) =>
          \A k \in Left("hide", opts) : Get(ValidateUpdate(a), k) = Get(opts, k)
    BY <1>2, <2>1, <2>2, UpdateKeeps
  <2> QED BY <1>1, <2>1, <2>3, <2>4
<1> QED BY <1>3, <1>4, <1>5

\* The Supervisor has the options, and then memory.
LEMMA AnswerKeeps ==
  ASSUME IInv, Applied \/ Answered \/ PostFails \/ SaveRefused
  PROVE  IInv'
<1> USE DEF IInv
<1>1. CASE Applied
  <2>1. /\ post # None /\ post \in Posts /\ saved = None
        /\ opts' = post.new /\ post' = [post EXCEPT !.done = TRUE]
        /\ UNCHANGED <<memory, byName, noticed, legacy, read, form, saved, budget>>
    BY <1>1 DEF Applied, TypeOK, SavedOK
  <2>2. /\ post' \in Posts /\ post'.kind = post.kind /\ post'.new = post.new
        /\ post'.form = post.form /\ post'.base = post.base /\ opts' \in Options
    BY <2>1 DEF Posts
  <2>3. TypeOK'
    BY <2>1, <2>2 DEF TypeOK
  <2>4. PostOK' /\ BaseOK'
    BY <2>1, <2>2 DEF PostOK, BaseOK, Holds, Value, Asked, Left, Get
  <2> QED BY <2>1, <2>3, <2>4 DEF SavedOK
<1>2. CASE Answered
  <2>1. /\ post # None /\ post \in Posts /\ memory \in Options /\ post' = None
        /\ memory' = ValidateSettings(post.new)
        /\ byName' = FALSE
        /\ saved' = (IF opts = post.new /\ \A r \in {"page", "hand"} : read[r] \in {None, opts}
                     THEN post.form ELSE None)
        /\ UNCHANGED <<opts, noticed, legacy, form, budget>>
    BY <1>2 DEF Answered, TypeOK
  <2>2. post.new \in Options /\ post.form \in Forms \union {None}
    BY <2>1 DEF Posts
  <2>3. memory' \in Options
    BY <2>1, <2>2, Validated
  <2>4. /\ DOMAIN read' = Readers
        /\ \A r \in Readers : read'[r] \in {read[r], None}
        /\ post.kind = "save" => read'["sync"] = None
    BY <1>2 DEF Answered, TypeOK, Readers, Backups
  <2>5. TypeOK'
    BY <2>1, <2>2, <2>3, <2>4 DEF TypeOK
  <2>6. SavedOK'
    <3> SUFFICES ASSUME saved' # None PROVE SavedOK'
      BY DEF SavedOK
    <3>1. /\ saved' = post.form /\ post.form \in Forms /\ opts = post.new
          /\ (\A r \in {"page", "hand"} : read[r] \in {None, opts})
          /\ post.kind = "save" /\ Holds(opts, saved')
      BY <2>1, <2>2 DEF PostOK
    <3>2. Holds(memory', saved')
      BY <2>1, <2>2, <3>1, StillHolds
    <3>3. \A r \in Readers : read'[r] \in {None, opts}
      BY <2>4, <3>1 DEF Readers, Backups
    <3> QED BY <2>1, <3>1, <3>2, <3>3 DEF SavedOK, Holds, Value, Asked
  <2> QED BY <2>1, <2>5, <2>6 DEF PostOK, BaseOK
<1>3. CASE PostFails
  <2>1. /\ post # None /\ post' = None /\ saved' = None
        /\ UNCHANGED <<opts, memory, byName, noticed, legacy, read, form>>
    BY <1>3 DEF PostFails, SavedOK
  <2>2. TypeOK'
    BY <1>3, <2>1, SpendType DEF TypeOK, PostFails
  <2> QED BY <2>1, <2>2 DEF PostOK, SavedOK, BaseOK
<1>4. CASE SaveRefused
  <2>1. UNCHANGED <<opts, memory, byName, noticed, legacy, read, form, post, saved>>
    BY <1>4 DEF SaveRefused
  <2>2. TypeOK'
    BY <1>4, <2>1, SpendType DEF TypeOK, SaveRefused
  <2> QED BY <2>1, <2>2 DEF PostOK, SavedOK, BaseOK, Holds, Value, Asked, Left, Get
<1> QED BY <1>1, <1>2, <1>3, <1>4

\* The user's own edits overtake what was saved; a restart takes it over.
LEMMA OutsideKeeps ==
  ASSUME IInv,
         \/ \E k \in Keys, v \in Values \union {Absent} : UserEdits(k, v)
         \/ Restart
  PROVE  IInv'
<1> USE DEF IInv
<1>1. ASSUME NEW k \in Keys, NEW v \in Values \union {Absent}, UserEdits(k, v) PROVE IInv'
  <2>1. /\ opts' = [opts EXCEPT ![k] = v] /\ saved' = None
        /\ UNCHANGED <<memory, byName, noticed, legacy, read, form, post>>
    BY <1>1 DEF UserEdits
  <2>2. opts' \in Options
    BY <2>1 DEF TypeOK, Options
  <2>3. TypeOK'
    BY <1>1, <2>1, <2>2, SpendType DEF TypeOK, UserEdits
  <2> QED BY <2>1, <2>3 DEF PostOK, SavedOK, BaseOK, Holds, Value, Asked, Left, Get
<1>2. CASE Restart
  <2>1. /\ memory' = opts /\ post' = None /\ read' = [r \in Readers |-> None]
        /\ UNCHANGED <<opts, form, saved>>
    BY <1>2 DEF Restart
  <2>2. {byName', noticed', legacy'} \subseteq BOOLEAN
    BY <1>2 DEF Restart, TypeOK
  <2>3. TypeOK'
    BY <1>2, <2>1, <2>2, SpendType DEF TypeOK, Restart
  <2> QED BY <2>1, <2>3 DEF PostOK, SavedOK, BaseOK, Holds, Value, Asked
<1> QED BY <1>1, <1>2

LEMMA IInvStep == IInv /\ [Next]_vars => IInv'
<1>1. ASSUME IInv, UNCHANGED vars PROVE IInv'
  <2>1. TypeOK'
    BY <1>1 DEF vars, IInv, TypeOK
  <2>2. PostOK' /\ SavedOK' /\ BaseOK'
    BY <1>1 DEF vars, IInv, PostOK, SavedOK, BaseOK, Holds, Value, Asked, Left, Get
  <2> QED BY <2>1, <2>2 DEF IInv
<1> QED BY <1>1, ReadersKeep, SubmitKeeps, AnswerKeeps, OutsideKeeps DEF Next, Task

\* The inductive invariant of Settings.
THEOREM Invariance == Spec => []IInv
BY InitOK, IInvStep, PTL DEF Spec

\* The types of Settings' variables.
THEOREM TypeCorrect == Spec => []TypeOK
<1>1. IInv => TypeOK
  BY DEF IInv
<1> QED BY Invariance, <1>1, PTL

\* What the settings page saved, memory and the Supervisor keep, through any
\* number of refreshes, failed calls and restarts, until someone changes a
\* setting again (saveconfig, _refreshInfo, Config.update and Config.fromFile).
THEOREM SavesStick == Spec => []SavedSticks
<1>1. IInv => SavedSticks
  <2> SUFFICES ASSUME IInv, saved # None, NEW k \in Keys \ NonUi
               PROVE  Get(memory, k) = Asked(saved, k) /\ Get(opts, k) = Asked(saved, k)
    BY DEF SavedSticks, Stick
  <2>1. /\ memory \in Options /\ opts \in Options
        /\ Holds(memory, saved) /\ Holds(opts, saved)
    BY DEF IInv, TypeOK, SavedOK
  <2> QED BY <2>1, GetHeld
<1> QED BY Invariance, <1>1, PTL

\* "Never ask again" and hiding the server send all options and change only
\* what they are about, if memory agreed with the Supervisor and nobody changed
\* the options since (validateUpdate, confirmdelete and exposeserver).
THEOREM RequestsKeepRest == Spec => PartialKeepsRest
<1>1. ASSUME IInv, Next, post # None, ~post.done, post.kind # "save", post.base = opts,
             post' # None, post' # post, NEW k \in Keys \ Touched(post.kind)
      PROVE  Get(opts, k)' = Get(opts, k)
  <2>1. Applied
    BY <1>1 DEF Next, Task, RefreshReads, RefreshEnds, RefreshFails, Save, Submit, SaveRefused,
                Confirm, Hide, Answered, PostFails, UserEdits, Restart
  <2>2. opts' = post.new /\ legacy' = legacy
    BY <2>1 DEF Applied
  <2>3. k \in Left(post.kind, opts)
    BY <1>1 DEF Touched, Left
  <2>4. post.base # None
    BY <1>1, NoneIsNone DEF IInv, TypeOK
  <2>5. Get(post.new, k) = Get(opts, k)
    BY <1>1, <2>3, <2>4 DEF IInv, BaseOK
  <2> QED BY <2>2, <2>5 DEF Get
<1>2. IInv /\ [Next]_vars =>
        [post # None /\ ~post.done /\ post.kind # "save" /\ post.base = opts
           /\ post' # None /\ post' # post =>
           \A k \in Keys \ Touched(post.kind) : Get(opts, k)' = Get(opts, k)]_vars
  BY <1>1
<1> QED BY Invariance, <1>2, PTL DEF Spec, PartialKeepsRest
=============================================================================
