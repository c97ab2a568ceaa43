----------------------------- MODULE EditsProofs -----------------------------
(***************************************************************************)
(* For any requests, uploads, downloads, deletions, syncs, failures and    *)
(* restarts:                                                               *)
(*   - no copy in Proton Drive is pinned unless the user asked for it;     *)
(*   - the file of the pins keeps what it had through one failure, for any *)
(*     contents (DurableFile), and a restart finds there what memory had;  *)
(*   - the sidecar says what the user was told, and the view what the      *)
(*     sidecar says, while nothing puts it in doubt.                       *)
(***************************************************************************)
EXTENDS Edits, TLAPS

EditT == [at : {"idle", "pinning", "sending"}, field : {"pin", "note"}, value : BOOLEAN,
          meta : SUBSET Metadata, own : BOOLEAN, alone : BOOLEAN]

\* The types that the argument needs.
DataOK ==
  /\ sidecar \subseteq Metadata /\ cached \subseteq Metadata
  /\ read \subseteq Metadata /\ saving \subseteq Metadata
  /\ item \subseteq [meta : Metadata, pin : BOOLEAN]
  /\ option \in BOOLEAN /\ haNote \in BOOLEAN /\ pinAsked \in BOOLEAN
  /\ manual \in [on : BOOLEAN, prior : BOOLEAN]
  /\ edits \in [Editors -> EditT]
  /\ \A e \in Editors : edits[e].at = "sending" => edits[e].meta # {}

\* Whatever is, or may come to be, in the sidecar.
PinsOK ==
  /\ \A m \in sidecar \union cached \union read : m.pin => pinAsked
  /\ \A i \in item : i.meta.pin => pinAsked
  /\ \A e \in Editors : \A m \in edits[e].meta : m.pin => pinAsked

\* An upload that the user asked for carries the option before it has succeeded,
\* and remembers what it was.
ByUser == op \in {"tar", "side", "clean"} /\ manual.on

OptionOK ==
  /\ option => pinAsked \/ ByUser
  /\ ByUser => (manual.prior => pinAsked)
  /\ saving # {} => op \in {"tar", "side"}
  /\ \A m \in saving : m.pin => pinAsked \/ ByUser

IInv == DataOK /\ PinsOK /\ OptionOK

-----------------------------------------------------------------------------
(* Metadata and requests                                                   *)

\* What a rewrite sends: one field is new.
LEMMA OneField ==
  ASSUME NEW m \in Metadata, NEW f \in {"pin", "note"}, NEW v \in BOOLEAN
  PROVE  /\ [m EXCEPT ![f] = v] \in Metadata
         /\ [m EXCEPT ![f] = v].pin => m.pin \/ (f = "pin" /\ v)
<1>1. CASE f = "pin"
  BY <1>1 DEF Metadata
<1>2. CASE f = "note"
  BY <1>2 DEF Metadata
<1> QED
  BY <1>1, <1>2

\* Neither a request that is over, nor one that has lost its object or its
\* promise, sends anything else than it did.
LEMMA SameEdits ==
  ASSUME NEW es \in [Editors -> EditT], NEW e \in Editors
  PROVE  /\ Idle \in EditT /\ Idle.meta = {} /\ Idle.at = "idle"
         /\ Orphaned(es) \in [Editors -> EditT] /\ Joined(es) \in [Editors -> EditT]
         /\ Orphaned(es)[e].meta = es[e].meta /\ Orphaned(es)[e].at = es[e].at
         /\ Joined(es)[e].meta = es[e].meta /\ Joined(es)[e].at = es[e].at
BY DEF Idle, Orphaned, Joined, EditT

\* Edits that hold no metadata but those there were are as good as before.
EditsKept ==
  /\ edits' \in [Editors -> EditT]
  /\ \A e \in Editors : \/ edits'[e].meta = edits[e].meta /\ edits'[e].at = edits[e].at
                        \/ edits'[e].meta = {} /\ edits'[e].at # "sending"

LEMMA KeptOK ==
  ASSUME DataOK, PinsOK,
         edits' \in {edits, Orphaned(edits), Joined(edits)} \/ \E e \in Editors : edits' = [edits EXCEPT ![e] = Idle]
  PROVE  EditsKept
<1>1. edits \in [Editors -> EditT]
  BY DEF DataOK
<1>2. CASE edits' \in {edits, Orphaned(edits), Joined(edits)}
  <2>1. \A e \in Editors : /\ Orphaned(edits)[e].meta = edits[e].meta
                           /\ Orphaned(edits)[e].at = edits[e].at
                           /\ Joined(edits)[e].meta = edits[e].meta
                           /\ Joined(edits)[e].at = edits[e].at
                           /\ Orphaned(edits) \in [Editors -> EditT]
                           /\ Joined(edits) \in [Editors -> EditT]
    BY <1>1, SameEdits
  <2>2. (\E e \in Editors : TRUE) => edits' \in [Editors -> EditT]
    BY <1>1, <1>2, <2>1
  <2>3. edits' \in [Editors -> EditT]
    BY <1>1, <1>2, <2>2 DEF Orphaned, Joined
  <2> QED
    BY <1>2, <2>1, <2>3 DEF EditsKept
<1>3. CASE \E e \in Editors : edits' = [edits EXCEPT ![e] = Idle]
  <2>1. PICK e \in Editors : edits' = [edits EXCEPT ![e] = Idle]
    BY <1>3
  <2> QED
    BY <1>1, <2>1 DEF EditsKept, Idle, EditT
<1> QED
  BY <1>2, <1>3

\* What a request sends is as good as what it was sent from.
LEMMA SendOK ==
  ASSUME DataOK, PinsOK, pinAsked' \in BOOLEAN, pinAsked => pinAsked',
         NEW e \in Editors, NEW f \in {"pin", "note"}, NEW v \in BOOLEAN, NEW i \in item,
         Send(e, f, v, i.meta), (f = "pin" /\ v) => pinAsked'
  PROVE  /\ edits' \in [Editors -> EditT]
         /\ \A d \in Editors : edits'[d].at = "sending" => edits'[d].meta # {}
         /\ \A d \in Editors : \A m \in edits'[d].meta : m.pin => pinAsked'
<1> DEFINE alone == Sending = {} /\ op # "read"
           held == IF alone THEN edits ELSE Joined(edits)
           sent == [i.meta EXCEPT ![f] = v]
           new  == [at |-> "sending", field |-> f, value |-> v, meta |-> {sent},
                    own |-> TRUE, alone |-> alone]
<1>1. edits' = [held EXCEPT ![e] = new]
  BY DEF Send
<1>2. i.meta \in Metadata /\ (i.meta.pin => pinAsked)
  BY DEF DataOK, PinsOK
<1>3. sent \in Metadata /\ (sent.pin => pinAsked')
  BY <1>2, OneField
<1>4. alone \in BOOLEAN
  OBVIOUS
<1>5. new \in EditT /\ new.meta = {sent}
  <2> HIDE DEF sent, alone
  <2> QED
    BY <1>3, <1>4 DEF EditT
<1>6. /\ held \in [Editors -> EditT]
      /\ \A d \in Editors : held[d].meta = edits[d].meta /\ held[d].at = edits[d].at
  BY SameEdits DEF DataOK
<1> HIDE DEF held, new, sent
<1> QED
  BY <1>1, <1>3, <1>5, <1>6 DEF DataOK, PinsOK

-----------------------------------------------------------------------------
\* Initially nothing is in Proton Drive.
LEMMA InitOK == EditsInit => IInv
<1> SUFFICES ASSUME EditsInit PROVE IInv
  OBVIOUS
<1>1. DataOK
  BY DEF EditsInit, DataOK, Idle, EditT
<1>2. PinsOK
  BY DEF EditsInit, PinsOK, Idle
<1>3. OptionOK
  BY DEF EditsInit, OptionOK, ByUser
<1> QED
  BY <1>1, <1>2, <1>3 DEF IInv

\* A step that only drops or copies metadata, between the places that hold some.
LEMMA Copied ==
  ASSUME IInv, EditsKept,
         sidecar' \in {{}, sidecar}, cached' \in {{}, cached, sidecar}, item' \in {{}, item},
         read' \in {{}, read, cached, sidecar}, pinAsked' = pinAsked, haNote' \in BOOLEAN
  PROVE  /\ PinsOK'
         /\ option' \in BOOLEAN /\ manual' \in [on : BOOLEAN, prior : BOOLEAN]
            /\ saving' \subseteq Metadata => DataOK'
BY DEF IInv, DataOK, PinsOK, EditsKept

\* retain, note and the file of the pins.
LEMMA EditSteps ==
  ASSUME IInv, File \/ \E e \in Editors : Edit(e)
  PROVE  IInv'
<1> USE DEF IInv
<1>1. CASE WriteGoesOn \/ DiskFails
  <2>1. UNCHANGED <<remote, view, local, locked, edits, pinAsked>>
    BY <1>1 DEF WriteGoesOn, DiskFails, history
  <2> QED
    BY <2>1 DEF remote, view, local, locked, DataOK, PinsOK, OptionOK, ByUser
<1>2. CASE WriteFails
  <2>1. /\ UNCHANGED <<remote, view, local, read, saving, manual, pinAsked>>
        /\ op' = (IF op = "loaded" THEN "idle" ELSE op)
        /\ edits' = [e \in Editors |-> IF edits[e].at = "pinning" THEN Idle ELSE edits[e]]
    BY <1>2 DEF WriteFails
  <2>2. EditsKept
    BY <2>1 DEF EditsKept, DataOK, Idle, EditT
  <2>3. DataOK' /\ PinsOK'
    BY <2>1, <2>2, Copied DEF remote, view, local, DataOK
  <2>4. OptionOK'
    BY <2>1 DEF OptionOK, ByUser, view
  <2> QED
    BY <2>3, <2>4
<1>3. ASSUME NEW e \in Editors, NEW v \in BOOLEAN, NEW w \in BOOLEAN, Retain(e, v, w)
      PROVE  IInv'
  <2>1. /\ UNCHANGED <<remote, view, local, locked, pinAsked>>
        /\ edits' = [edits EXCEPT ![e] = [Idle EXCEPT !.at = "pinning", !.value = w]]
    BY <1>3 DEF Retain, history
  <2>2. EditsKept
    <3>1. /\ [Idle EXCEPT !.at = "pinning", !.value = w] \in EditT
          /\ [Idle EXCEPT !.at = "pinning", !.value = w].meta = {}
          /\ [Idle EXCEPT !.at = "pinning", !.value = w].at # "sending"
      BY DEF Idle, EditT
    <3> QED
      BY <2>1, <3>1 DEF EditsKept, DataOK
  <2>3. DataOK' /\ PinsOK'
    BY <2>1, <2>2, Copied DEF remote, view, local, locked, DataOK
  <2>4. OptionOK'
    BY <2>1 DEF OptionOK, ByUser, view, locked
  <2> QED
    BY <2>3, <2>4
<1>4. ASSUME NEW e \in Editors, RetainGoesOn(e)
      PROVE  IInv'
  <2>1. UNCHANGED <<remote, view, local, locked>>
    BY <1>4 DEF RetainGoesOn
  <2>2. CASE edits' = [edits EXCEPT ![e] = Idle] /\ pinAsked' = pinAsked
    <3>1. DataOK' /\ PinsOK'
      BY <2>1, <2>2, KeptOK, Copied DEF remote, view, local, locked, DataOK
    <3> QED
      BY <2>1, <2>2, <3>1 DEF OptionOK, ByUser, view, locked
  <2>3. CASE \E i \in item : /\ Send(e, "pin", edits[e].value, i.meta)
                             /\ pinAsked' = (pinAsked \/ edits[e].value)
    <3>1. PICK i \in item : /\ Send(e, "pin", edits[e].value, i.meta)
                            /\ pinAsked' = (pinAsked \/ edits[e].value)
      BY <2>3
    <3>2. edits[e].value \in BOOLEAN /\ pinAsked \in BOOLEAN
      BY DEF DataOK, EditT
    <3>3. pinAsked' \in BOOLEAN /\ (pinAsked => pinAsked') /\ (edits[e].value => pinAsked')
      BY <3>1, <3>2
    <3>4. /\ edits' \in [Editors -> EditT]
          /\ \A d \in Editors : edits'[d].at = "sending" => edits'[d].meta # {}
          /\ \A d \in Editors : \A m \in edits'[d].meta : m.pin => pinAsked'
      BY <3>1, <3>2, <3>3, SendOK
    <3> QED
      BY <2>1, <3>3, <3>4 DEF remote, view, local, locked, DataOK, PinsOK, OptionOK, ByUser
  <2> QED
    BY <1>4, <2>2, <2>3 DEF RetainGoesOn
<1>5. ASSUME NEW e \in Editors, NEW v \in BOOLEAN, Note(e, v)
      PROVE  IInv'
  <2>1. /\ UNCHANGED <<remote, view, ha, locked, pinAsked>> /\ haNote' \in BOOLEAN
    BY <1>5 DEF Note, history, DataOK
  <2>2. CASE edits' = edits
    BY <2>1, <2>2 DEF remote, view, locked, DataOK, PinsOK, OptionOK, ByUser
  <2>3. CASE \E i \in item : Send(e, "note", v, i.meta)
    <3>1. PICK i \in item : Send(e, "note", v, i.meta)
      BY <2>3
    <3>2. pinAsked' \in BOOLEAN
      BY <2>1 DEF DataOK
    <3>3. /\ edits' \in [Editors -> EditT]
          /\ \A d \in Editors : edits'[d].at = "sending" => edits'[d].meta # {}
          /\ \A d \in Editors : \A m \in edits'[d].meta : m.pin => pinAsked'
      BY <2>1, <3>1, <3>2, SendOK
    <3> QED
      BY <2>1, <3>3 DEF remote, view, locked, DataOK, PinsOK, OptionOK, ByUser
  <2> QED
    BY <1>5, <2>2, <2>3 DEF Note
<1>6. ASSUME NEW e \in Editors, Rewritten(e)
      PROVE  IInv'
  <2>1. /\ sidecar' = edits[e].meta /\ cached' = edits[e].meta
        /\ item' = IF edits[e].own THEN {Renewed(e, i) : i \in item} ELSE item
        /\ edits' = [edits EXCEPT ![e] = Idle] /\ edits[e].at = "sending"
        /\ UNCHANGED <<haItem, option, local, locked, pinAsked>>
    BY <1>6 DEF Rewritten
  <2>2. /\ edits[e].meta \subseteq Metadata /\ edits[e].meta # {} /\ edits[e].value \in BOOLEAN
        /\ \A m \in edits[e].meta : m.pin => pinAsked
    BY <2>1 DEF DataOK, PinsOK, EditT
  <2>3. \A i \in item : /\ Renewed(e, i) \in [meta : Metadata, pin : BOOLEAN]
                        /\ Renewed(e, i).meta \in edits[e].meta
    BY <2>2 DEF Renewed, DataOK
  <2>4. /\ item' \subseteq [meta : Metadata, pin : BOOLEAN]
        /\ \A i \in item' : i.meta.pin => pinAsked
    BY <2>1, <2>2, <2>3 DEF DataOK, PinsOK
  <2>5. EditsKept
    BY <2>1, KeptOK
  <2>6. DataOK'
    BY <2>1, <2>2, <2>4, <2>5 DEF DataOK, EditsKept, local, locked
  <2>7. PinsOK'
    BY <2>1, <2>2, <2>4, <2>5 DEF PinsOK, EditsKept, locked
  <2>8. OptionOK'
    BY <2>1 DEF OptionOK, ByUser, locked
  <2> QED
    BY <2>6, <2>7, <2>8
<1>7. ASSUME NEW e \in Editors, RewriteFails(e)
      PROVE  IInv'
  <2>1. /\ sidecar' \in {sidecar, edits[e].meta}
        /\ edits' = [edits EXCEPT ![e] = Idle]
        /\ UNCHANGED <<view, local, locked, pinAsked>>
    BY <1>7 DEF RewriteFails
  <2>2. /\ edits[e].meta \subseteq Metadata
        /\ \A m \in edits[e].meta : m.pin => pinAsked
    BY DEF DataOK, PinsOK, EditT
  <2>3. EditsKept
    BY <2>1, KeptOK
  <2> QED
    BY <2>1, <2>2, <2>3 DEF DataOK, PinsOK, OptionOK, ByUser, EditsKept, view, local, locked
<1> QED
  BY <1>1, <1>2, <1>3, <1>4, <1>5, <1>6, <1>7 DEF File, Edit

-----------------------------------------------------------------------------
\* Uploads and downloads.
LEMMA TransferSteps ==
  ASSUME IInv, Transfer
  PROVE  IInv'
<1> USE DEF IInv
<1>1. CASE Upload
  <2>1. /\ op' = "tar" /\ saving' = {[pin |-> TRUE, note |-> haNote]} /\ read' = {}
        /\ manual' = [on |-> TRUE, prior |-> option] /\ option' = TRUE /\ op = "idle"
        /\ UNCHANGED <<remote, cached, item, local, edits, pinAsked>>
    BY <1>1 DEF Upload, SaveStarts, history
  <2>2. EditsKept
    BY <2>1, KeptOK
  <2>3. saving' \subseteq Metadata
    BY <2>1 DEF DataOK, Metadata
  <2>4. DataOK' /\ PinsOK'
    BY <2>1, <2>2, <2>3, Copied DEF DataOK, remote, local
  <2>5. OptionOK'
    BY <2>1 DEF OptionOK, ByUser
  <2> QED
    BY <2>4, <2>5
<1>2. CASE TarUploaded
  <2>1. /\ op = "tar" /\ op' = "side"
        /\ UNCHANGED <<sidecar, view, local, read, saving, manual, edits, pinAsked>>
    BY <1>2 DEF TarUploaded, history
  <2> QED
    BY <2>1 DEF DataOK, PinsOK, OptionOK, ByUser, view, local
<1>3. CASE SidecarUploaded
  <2>1. /\ sidecar' = saving /\ cached' = saving
        /\ item' = {[meta |-> m, pin |-> m.pin] : m \in saving}
        /\ op = "side" /\ op' = "idle" /\ saving' = {}
        /\ pinAsked' = (pinAsked \/ manual.on)
        /\ edits' = Joined(edits)
        /\ UNCHANGED <<option, local, read, manual>>
    BY <1>3 DEF SidecarUploaded
  <2>2. EditsKept
    BY <2>1, KeptOK
  <2>3. pinAsked' \in BOOLEAN /\ (pinAsked => pinAsked')
    BY <2>1 DEF DataOK
  <2>4. saving \subseteq Metadata /\ \A m \in saving : m.pin => pinAsked'
    BY <2>1 DEF DataOK, OptionOK, ByUser
  <2>5. /\ item' \subseteq [meta : Metadata, pin : BOOLEAN]
        /\ \A i \in item' : i.meta.pin => pinAsked'
    BY <2>1, <2>4 DEF Metadata
  <2>6. DataOK' /\ PinsOK'
    BY <2>1, <2>2, <2>3, <2>4, <2>5 DEF DataOK, PinsOK, EditsKept, local
  <2>7. OptionOK'
    BY <2>1 DEF OptionOK, ByUser
  <2> QED
    BY <2>6, <2>7
<1>4. CASE TarFails \/ Cleaned
  <2>1. /\ op \in {"tar", "clean"} /\ op' = "idle" /\ saving' \in {{}, saving}
        /\ option' = IF manual.on THEN manual.prior ELSE option
        /\ op = "tar" => saving' = {}
        /\ UNCHANGED <<sidecar, cached, item, local, read, manual, edits, pinAsked>>
    BY <1>4 DEF TarFails, Cleaned, RolledBack, history
  <2>2. DataOK' /\ PinsOK'
    BY <2>1 DEF DataOK, PinsOK, local
  <2>3. OptionOK'
    BY <2>1 DEF OptionOK, ByUser
  <2> QED
    BY <2>2, <2>3
<1>5. CASE SidecarFails
  <2>1. /\ op = "side" /\ op' = "clean" /\ saving' = {} /\ sidecar' \in {sidecar, saving}
        /\ pinAsked' = (pinAsked \/ (manual.on /\ sidecar' = saving))
        /\ UNCHANGED <<view, local, read, manual, edits>>
    BY <1>5 DEF SidecarFails
  <2>2. pinAsked' \in BOOLEAN /\ (pinAsked => pinAsked')
    BY <2>1 DEF DataOK
  <2>3. sidecar' \subseteq Metadata /\ \A m \in sidecar' : m.pin => pinAsked'
    BY <2>1 DEF DataOK, PinsOK, OptionOK, ByUser
  <2>4. DataOK' /\ PinsOK'
    BY <2>1, <2>2, <2>3 DEF DataOK, PinsOK, view, local
  <2>5. OptionOK'
    BY <2>1, <2>2 DEF OptionOK, ByUser, view
  <2> QED
    BY <2>4, <2>5
<1>6. CASE Download \/ Downloaded \/ DownloadEnds \/ DownloadFails
  <2>1. /\ op \in {"idle", "load", "loaded"} /\ op' \in {"idle", "load", "loaded"}
        /\ UNCHANGED <<sidecar, cached, item, option, haNote, read, saving, manual, edits, pinAsked>>
    BY <1>6 DEF Download, Downloaded, DownloadEnds, DownloadFails, remote, view, local, history
  <2> QED
    BY <2>1 DEF DataOK, PinsOK, OptionOK, ByUser
<1> QED
  BY <1>1, <1>2, <1>3, <1>4, <1>5, <1>6 DEF Transfer

-----------------------------------------------------------------------------
\* Deletions.
LEMMA DeletionSteps ==
  ASSUME IInv, Deletion
  PROVE  IInv'
<1> USE DEF IInv
<1>1. CASE SidecarTrashed
  <2>1. /\ op = "delSide" /\ op' = "idle" /\ sidecar' \in {{}, sidecar} /\ cached' = {}
        /\ item' = {} /\ option' \in BOOLEAN /\ (option' => option) /\ edits' = Orphaned(edits)
        /\ UNCHANGED <<local, read, saving, manual, pinAsked>>
    BY <1>1 DEF SidecarTrashed, OptionOf, DataOK, history
  <2>2. EditsKept
    BY <2>1, KeptOK
  <2>3. DataOK' /\ PinsOK'
    BY <2>1, <2>2, Copied DEF DataOK, local
  <2>4. OptionOK'
    BY <2>1 DEF OptionOK, ByUser
  <2> QED
    BY <2>3, <2>4
<1>2. CASE \/ \E which \in {"delHa", "delBoth", "delTar"} : Delete(which)
           \/ DeletedInHa \/ TarTrashed \/ DeleteFails
  <2>1. /\ op \in {"idle", "delHa", "delBoth", "delTar"}
        /\ op' \in {"idle", "delHa", "delBoth", "delTar", "delSide"}
        /\ option' \in BOOLEAN /\ (option' => option)
        /\ UNCHANGED <<sidecar, cached, item, haNote, read, saving, manual, edits, pinAsked>>
    <3>1. ASSUME NEW which \in {"delHa", "delBoth", "delTar"}, Delete(which)
          PROVE  /\ op \in {"idle", "delHa", "delBoth", "delTar"}
                 /\ op' \in {"idle", "delHa", "delBoth", "delTar", "delSide"}
                 /\ option' \in BOOLEAN /\ (option' => option)
                 /\ UNCHANGED <<sidecar, cached, item, haNote, read, saving, manual, edits, pinAsked>>
      BY <3>1 DEF Delete, remote, view, local, history, DataOK
    <3>2. CASE DeletedInHa
      BY <3>2 DEF DeletedInHa, OptionOf, remote, history, DataOK
    <3>3. CASE TarTrashed
      BY <3>3 DEF TarTrashed, view, local, history, DataOK
    <3>4. CASE DeleteFails
      BY <3>4 DEF DeleteFails, view, DataOK
    <3> QED
      BY <1>2, <3>1, <3>2, <3>3, <3>4
  <2> QED
    BY <2>1 DEF DataOK, PinsOK, OptionOK, ByUser
<1> QED
  BY <1>1, <1>2 DEF Deletion

\* Syncs.  The backup they upload takes the option as it is.
LEMMA SyncSteps ==
  ASSUME IInv, Sync
  PROVE  IInv'
<1> USE DEF IInv
<1>1. CASE SyncReads
  <2>1. /\ op = "idle" /\ op' = "read" /\ sidecar' \in {{}, sidecar}
        /\ read' \in {{}, cached, sidecar} /\ cached' = read'
        /\ option' \in BOOLEAN /\ (option' => option) /\ edits' = Joined(edits)
        /\ UNCHANGED <<item, local, saving, manual, pinAsked>>
    BY <1>1 DEF SyncReads, OptionOf, DataOK
  <2>2. EditsKept
    BY <2>1, KeptOK
  <2>3. DataOK' /\ PinsOK'
    BY <2>1, <2>2 DEF DataOK, PinsOK, EditsKept, local
  <2>4. OptionOK'
    BY <2>1 DEF OptionOK, ByUser
  <2> QED
    BY <2>3, <2>4
<1>2. CASE SyncTakes
  <2>1. /\ op = "read" /\ item' = {[meta |-> m, pin |-> m.pin] : m \in read}
        /\ option' \in BOOLEAN /\ (option' => option) /\ edits' = Orphaned(edits)
        /\ UNCHANGED <<sidecar, cached, local, pinAsked>>
    BY <1>2 DEF SyncTakes, OptionOf, DataOK, remote, history
  <2>2. EditsKept
    BY <2>1, KeptOK
  <2>3. /\ item' \subseteq [meta : Metadata, pin : BOOLEAN]
        /\ \A i \in item' : i.meta.pin => pinAsked
    BY <2>1 DEF DataOK, PinsOK, Metadata
  <2>4. \/ op' = "idle" /\ read' = {} /\ UNCHANGED <<saving, manual>>
        \/ /\ op' = "tar" /\ read' = {} /\ saving' = {[pin |-> option, note |-> haNote]}
           /\ manual' = [on |-> FALSE, prior |-> option]
    BY <1>2 DEF SyncTakes, SaveStarts
  <2>5. saving' \subseteq Metadata /\ manual' \in [on : BOOLEAN, prior : BOOLEAN] /\ read' = {}
    <3>1. option \in BOOLEAN /\ haNote \in BOOLEAN
      BY DEF DataOK
    <3>2. [pin |-> option, note |-> haNote] \in Metadata
      BY <3>1 DEF Metadata
    <3>3. [on |-> FALSE, prior |-> option] \in [on : BOOLEAN, prior : BOOLEAN]
      BY <3>1
    <3> QED
      BY <2>1, <2>4, <3>2, <3>3 DEF DataOK
  <2>6. DataOK' /\ PinsOK'
    BY <2>1, <2>2, <2>3, <2>5 DEF DataOK, PinsOK, EditsKept, local
  <2>7. option => pinAsked
    BY <2>1 DEF OptionOK, ByUser
  <2>8. OptionOK'
    BY <2>1, <2>4, <2>7 DEF OptionOK, ByUser
  <2> QED
    BY <2>6, <2>8
<1>3. CASE SyncFails
  <2>1. /\ op = "read" /\ op' = "idle" /\ read' = {}
        /\ UNCHANGED <<remote, view, local, saving, manual, edits, pinAsked>>
    BY <1>3 DEF SyncFails, history
  <2> QED
    BY <2>1 DEF DataOK, PinsOK, OptionOK, ByUser, remote, view, local
<1> QED
  BY <1>1, <1>2, <1>3 DEF Sync

\* A restart, after which a command that ran may still have done its work.
LEMMA RestartStep ==
  ASSUME IInv, Restart
  PROVE  IInv'
<1> USE DEF IInv
<1>1. /\ cached' = {} /\ item' = {} /\ option' = FALSE /\ haNote' \in {haNote, FALSE}
      /\ op' = "idle" /\ read' = {} /\ saving' = {} /\ manual' = [on |-> FALSE, prior |-> FALSE]
      /\ edits' = [e \in Editors |-> Idle]
      /\ pinAsked' = (pinAsked \/ (op = "side" /\ manual.on))
      /\ sidecar' \in {sidecar} \union {edits[e].meta : e \in Sending}
                      \union (IF op = "side" THEN {saving} ELSE {})
  BY DEF Restart
<1>2. pinAsked' \in BOOLEAN /\ (pinAsked => pinAsked')
  BY <1>1 DEF DataOK
<1>3. sidecar' \subseteq Metadata /\ \A m \in sidecar' : m.pin => pinAsked'
  <2>1. CASE sidecar' = sidecar
    BY <1>2, <2>1 DEF DataOK, PinsOK
  <2>2. CASE \E e \in Sending : sidecar' = edits[e].meta
    BY <1>2, <2>2 DEF DataOK, PinsOK, Sending, EditT
  <2>3. CASE op = "side" /\ sidecar' = saving
    BY <1>1, <1>2, <2>3 DEF DataOK, OptionOK, ByUser
  <2> QED
    BY <1>1, <2>1, <2>2, <2>3
<1>4. DataOK' /\ PinsOK'
  BY <1>1, <1>2, <1>3 DEF DataOK, PinsOK, Idle, EditT
<1>5. OptionOK'
  BY <1>1 DEF OptionOK, ByUser
<1> QED
  BY <1>4, <1>5

-----------------------------------------------------------------------------
\* Every step keeps the invariant.
THEOREM Invariance == EditsSpec => []IInv
<1>1. IInv /\ [EditsNext]_all => IInv'
  <2> SUFFICES ASSUME IInv, [EditsNext]_all PROVE IInv'
    OBVIOUS
  <2>1. CASE UNCHANGED all
    BY <2>1 DEF all, remote, view, local, locked, history, IInv, DataOK, PinsOK, OptionOK, ByUser
  <2>2. CASE EditsNext
    BY <2>2, EditSteps, TransferSteps, DeletionSteps, SyncSteps, RestartStep DEF EditsNext
  <2> QED
    BY <2>1, <2>2
<1> QED
  BY InitOK, <1>1, PTL DEF EditsSpec

\* No sidecar carries a pin that the user did not ask for: not after a manual
\* upload that failed (lines 288-327 of model/coordinator.py), nor by what a
\* later sync uploads, whatever fails, overlaps or restarts.
THEOREM PinsAreAsked == EditsSpec => []PinOnlyIfAsked
<1>1. IInv => PinOnlyIfAsked
  BY DEF IInv, PinsOK, PinOnlyIfAsked
<1> QED
  BY <1>1, Invariance, PTL

-----------------------------------------------------------------------------
(* The file of the pins                                                    *)

\* Where the two files stand while a call is under way.
CallOK ==
  /\ pc = "emptyCopy" => copy = Torn
  /\ pc \in {"betweenFiles", "emptyMain"} => copy = data
  /\ pc = "emptyMain" => main = Torn
  /\ pc = "deleting" => copy = Missing

\* Before any failure the file is whole unless it is being rewritten, and the
\* copy is its equal between calls.
UnhurtOK ==
  /\ hits = 0 /\ pc # "emptyMain" => main \in kept \/ (main = Missing /\ kept = {})
  /\ hits = 0 /\ pc = "idle" => main = copy

\* After one, the file is whole or the copy is.
HurtOnceOK ==
  hits = 1 /\ pc = "idle" /\ Saved => main \in kept \/ (main \notin Values /\ copy \in kept)

FileOK == TypeOK /\ CallOK /\ UnhurtOK /\ HurtOnceOK

LEMMA FileInit == ASSUME Init PROVE FileOK
BY ContentsAssumption DEF Init, FileOK, TypeOK, CallOK, UnhurtOK, HurtOnceOK, Saved, Contents

\* Every step of write() and delete() keeps that, whatever is saved.
LEMMA FileStep ==
  ASSUME FileOK, [Next]_vars
  PROVE  FileOK'
<1> USE ContentsAssumption, BoundAssumption
    DEF FileOK, TypeOK, CallOK, UnhurtOK, HurtOnceOK, Saved, Contents
<1>1. CASE \E v \in Values : StartWrite(v)
  BY <1>1 DEF StartWrite
<1>2. CASE CopyWritten
  BY <1>2 DEF CopyWritten
<1>3. CASE OpenMain
  BY <1>3 DEF OpenMain
<1>4. CASE MainWritten
  BY <1>4 DEF MainWritten
<1>5. CASE StartDelete
  BY <1>5 DEF StartDelete
<1>6. CASE MainDeleted
  BY <1>6 DEF MainDeleted
<1>7. CASE Interrupted
  BY <1>7 DEF Interrupted
<1>8. CASE Damaged
  BY <1>8 DEF Damaged
<1>9. CASE UNCHANGED vars
  BY <1>9 DEF vars
<1> QED BY <1>1, <1>2, <1>3, <1>4, <1>5, <1>6, <1>7, <1>8, <1>9 DEF Next

LEMMA FileSurvives == FileOK => SurvivesOneFailure
BY ContentsAssumption
DEF FileOK, TypeOK, UnhurtOK, HurtOnceOK, SurvivesOneFailure, Saved, Read, Contents

\* One power failure, full disk or damaged file after a save leaves data that
\* read() finds (jsonfilesaver.py lines 26-53), for any contents and bound.
THEOREM DataSurvives == Spec => []SurvivesOneFailure
BY FileInit, FileStep, FileSurvives, PTL DEF Spec

\* What a step of the add-on is to the file and to the list in memory: none, the
\* start of a write, its next step, its failure, or a restart that reads it.
Untouched == UNCHANGED <<vars, pinned, unwritten>>
Starts    == \E v \in BOOLEAN : StartWrite(v) /\ pinned' = v /\ unwritten' = unwritten
GoesOn    == /\ CopyWritten \/ OpenMain \/ MainWritten
             /\ pinned' = pinned /\ unwritten' = IF pc' = "idle" THEN FALSE ELSE unwritten
Breaks    == /\ Interrupted \/ Damaged
             /\ pinned' = pinned /\ unwritten' = (unwritten \/ pc # "idle")
Rereads   == /\ (UNCHANGED vars \/ Interrupted) /\ pc' = "idle"
             /\ pinned' = Loaded /\ unwritten' = FALSE

LEMMA PinListSteps ==
  ASSUME IInv, unwritten \in BOOLEAN, [EditsNext]_all
  PROVE  Untouched \/ Starts \/ GoesOn \/ Breaks \/ Rereads
<1>1. CASE UNCHANGED all
  BY <1>1 DEF all, history, Untouched
<1>2. ASSUME NEW v \in BOOLEAN, SetRetained(v), unwritten' = unwritten
      PROVE  Untouched \/ Starts
  BY <1>2 DEF SetRetained, Untouched, Starts
<1>3. CASE File
  <2>1. CASE WriteGoesOn
    BY <2>1 DEF WriteGoesOn, GoesOn
  <2>2. CASE WriteFails
    BY <2>2 DEF WriteFails, Interrupted, Breaks
  <2>3. CASE DiskFails
    BY <2>3 DEF DiskFails, Damaged, Breaks, history
  <2> QED BY <1>3, <2>1, <2>2, <2>3 DEF File
<1>4. ASSUME NEW e \in Editors, Edit(e) PROVE Untouched \/ Starts
  <2>1. ASSUME NEW v \in BOOLEAN, NEW w \in BOOLEAN, Retain(e, v, w) PROVE Untouched \/ Starts
    <3>1. unwritten' = unwritten /\ (SetRetained(v) \/ UNCHANGED <<vars, pinned>>)
      BY <2>1 DEF Retain, history
    <3> QED BY <1>2, <3>1 DEF Untouched
  <2>2. CASE (\E v \in BOOLEAN : Note(e, v)) \/ RetainGoesOn(e) \/ Rewritten(e) \/ RewriteFails(e)
    BY <2>2 DEF Note, RetainGoesOn, Rewritten, RewriteFails, Promise, history, Untouched
  <2> QED BY <1>4, <2>1, <2>2 DEF Edit
<1>5. CASE Transfer
  <2>1. CASE Downloaded
    BY <1>2, <2>1 DEF Downloaded, history
  <2>2. CASE Transfer /\ ~Downloaded
    BY <2>2 DEF Transfer, Upload, SaveStarts, TarUploaded, SidecarUploaded, TarFails, SidecarFails, Cleaned,
                Download, DownloadEnds, DownloadFails, history, Untouched
  <2> QED BY <1>5, <2>1, <2>2
<1>6. CASE Deletion
  BY <1>6 DEF Deletion, Delete, DeletedInHa, TarTrashed, SidecarTrashed, DeleteFails, history, Untouched
<1>7. CASE Sync
  BY <1>7 DEF Sync, SyncReads, SyncTakes, SyncFails, history, Untouched
<1>8. CASE Restart
  BY <1>8 DEF Restart, Rereads, Running, vars, Interrupted
<1> QED BY <1>1, <1>3, <1>4, <1>5, <1>6, <1>7, <1>8 DEF EditsNext

\* While a write is under way it writes what memory has; no failure that counts
\* comes between it and what a restart finds.
PinListOK ==
  /\ pinned \in BOOLEAN /\ unwritten \in BOOLEAN
  /\ pc # "idle" => data = pinned
  /\ PinSurvives

LEMMA PinListStep ==
  ASSUME IInv, FileOK, PinListOK, [EditsNext]_all
  PROVE  FileOK' /\ PinListOK'
<1> USE ContentsAssumption, ValuesAssumption, BoundAssumption
<1>1. Untouched \/ Starts \/ GoesOn \/ Breaks \/ Rereads
  BY PinListSteps DEF PinListOK
<1>2. FileOK'
  BY <1>1, FileStep DEF Untouched, Starts, GoesOn, Breaks, Rereads, Next
<1> SUFFICES PinListOK'
  BY <1>2
<1>3. Loaded \in BOOLEAN
  BY DEF Loaded
<1>4. CASE Untouched
  BY <1>4 DEF Untouched, vars, PinListOK, PinSurvives, Running, Loaded, Read
<1>5. CASE Starts
  BY <1>5 DEF Starts, StartWrite, PinListOK, PinSurvives, Running
<1>6. CASE GoesOn
  BY <1>6 DEF GoesOn, CopyWritten, OpenMain, MainWritten, PinListOK, PinSurvives, Running, Loaded, Read,
              FileOK, TypeOK
<1>7. CASE Breaks
  <2>1. CASE Interrupted
    BY <1>7, <2>1 DEF Breaks, Interrupted, PinListOK, PinSurvives
  <2>2. CASE Damaged
    <3>1. /\ pc = "idle" /\ pc' = "idle" /\ pinned' = pinned /\ unwritten' \in BOOLEAN
          /\ ~unwritten' => ~unwritten
      BY <1>7, <2>2 DEF Breaks, Damaged, PinListOK
    <3>2. ASSUME hits' <= 1 PROVE Read' = Read
      <4>1. hits = 0 /\ main = copy /\ main \in Values \union {Missing}
        BY <2>2, <3>1, <3>2 DEF Damaged, FileOK, TypeOK, UnhurtOK
      <4> QED BY <2>2, <4>1 DEF Damaged, Read
    <3>3. hits' <= 1 => hits <= 1
      BY <2>2 DEF Damaged, FileOK, TypeOK
    <3>4. hits' <= 1 => Loaded' = Loaded
      BY <3>2 DEF Loaded
    <3>5. PinSurvives'
      BY <3>1, <3>3, <3>4 DEF PinListOK, PinSurvives, Running
    <3> QED BY <3>1, <3>5 DEF PinListOK
  <2> QED BY <1>7, <2>1, <2>2 DEF Breaks
<1>8. CASE Rereads
  <2>1. UNCHANGED <<main, copy>> /\ pc' = "idle" /\ unwritten' = FALSE
    BY <1>8 DEF Rereads, vars, Interrupted
  <2>2. Loaded' = Loaded /\ pinned' = Loaded
    BY <1>8, <2>1 DEF Rereads, Loaded, Read
  <2>3. PinSurvives'
    BY <2>2 DEF PinSurvives
  <2>4. pinned' \in BOOLEAN
    BY <1>3, <2>2
  <2> QED BY <2>1, <2>3, <2>4 DEF PinListOK
<1> QED BY <1>1, <1>2, <1>4, <1>5, <1>6, <1>7, <1>8

LEMMA PinListInvariance == EditsSpec => [](FileOK /\ PinListOK)
<1>1. EditsInit => FileOK /\ PinListOK
  BY FileInit, ContentsAssumption, ValuesAssumption
  DEF EditsInit, Init, PinListOK, PinSurvives, Running, Loaded, Read
<1> QED BY <1>1, PinListStep, Invariance, PTL DEF EditsSpec

\* The list of pins survives one failure of the disk, and a restart finds in it
\* what memory had unless the last write failed (config.py lines 256-274), for
\* any number of requests, failures and restarts.
THEOREM PinsSurvive == EditsSpec => [](SurvivesOneFailure /\ PinSurvives)
<1>1. FileOK /\ PinListOK => SurvivesOneFailure /\ PinSurvives
  BY FileSurvives DEF PinListOK
<1> QED BY <1>1, PinListInvariance, PTL

-----------------------------------------------------------------------------
(* What the user is told of the copy in Proton Drive                       *)

\* What may hold metadata holds at most one.
Single(S) == \A m, n \in S : m = n
SingleOK == Single(sidecar) /\ Single(saving) /\ \A e \in Editors : Single(edits[e].meta)

LEMMA SingleStep ==
  ASSUME IInv, SingleOK, [EditsNext]_all
  PROVE  SingleOK'
<1>1. edits \in [Editors -> EditT] /\ \A e \in Editors : Orphaned(edits)[e].meta = edits[e].meta
                                                      /\ Joined(edits)[e].meta = edits[e].meta
  BY SameEdits DEF IInv, DataOK
<1>2. Single({}) /\ (\A m : Single({m})) /\ Idle.meta = {}
  BY DEF Single, Idle
<1>3. ASSUME NEW e \in Editors, Edit(e) PROVE SingleOK'
  <2>1. sidecar' \in {sidecar, edits[e].meta} /\ saving' = saving
    BY <1>3 DEF Edit, Retain, RetainGoesOn, Note, Rewritten, RewriteFails, remote, locked
  <2>2. ASSUME NEW x, Single(x.meta), edits' \in {edits, [edits EXCEPT ![e] = x]} PROVE SingleOK'
    BY <1>1, <2>1, <2>2 DEF SingleOK
  <2>3. CASE \E f, v : \E i \in item : Send(e, f, v, i.meta)
    <3> PICK f, v : \E i \in item : Send(e, f, v, i.meta)
      BY <2>3
    <3> PICK i \in item : Send(e, f, v, i.meta)
      OBVIOUS
    <3> DEFINE x == [at |-> "sending", field |-> f, value |-> v, meta |-> {[i.meta EXCEPT ![f] = v]},
                     own |-> TRUE, alone |-> Sending = {} /\ op # "read"]
    <3>1. Single(x.meta)
      BY <1>2
    <3>2. edits' \in {[edits EXCEPT ![e] = x], [Joined(edits) EXCEPT ![e] = x]}
      BY DEF Send
    <3>3. Joined(edits) \in [Editors -> EditT]
      BY <1>1, SameEdits
    <3> HIDE DEF x
    <3> QED BY <1>1, <2>1, <3>1, <3>2, <3>3 DEF SingleOK
  <2>4. CASE \E v, w \in BOOLEAN : Retain(e, v, w)
    <3> PICK w \in BOOLEAN : edits' = [edits EXCEPT ![e] = [Idle EXCEPT !.at = "pinning", !.value = w]]
      BY <2>4 DEF Retain
    <3>1. Single([Idle EXCEPT !.at = "pinning", !.value = w].meta)
      BY <1>2 DEF Idle
    <3> QED BY <2>2, <3>1
  <2>5. CASE edits' \in {edits, [edits EXCEPT ![e] = Idle]}
    BY <1>2, <2>2, <2>5
  <2> QED BY <1>3, <2>3, <2>4, <2>5 DEF Edit, RetainGoesOn, Note, Rewritten, RewriteFails
<1>4. CASE File \/ Transfer \/ Deletion \/ Sync
  <2>1. sidecar' \in {{}, sidecar, saving} /\ (saving' \in {{}, saving} \/ \E m : saving' = {m})
    <3>1. CASE File
      BY <3>1 DEF File, WriteGoesOn, WriteFails, DiskFails, remote, locked
    <3>2. CASE Transfer
      BY <3>2 DEF Transfer, Upload, SaveStarts, TarUploaded, SidecarUploaded, TarFails, SidecarFails, Cleaned,
                  Download, Downloaded, DownloadEnds, DownloadFails, remote
    <3>3. CASE Deletion
      BY <3>3 DEF Deletion, Delete, DeletedInHa, TarTrashed, SidecarTrashed, DeleteFails, remote
    <3>4. CASE Sync
      BY <3>4 DEF Sync, SyncReads, SyncTakes, SaveStarts, SyncFails, remote
    <3> QED BY <1>4, <3>1, <3>2, <3>3, <3>4
  <2>2. \/ edits' \in {edits, Orphaned(edits), Joined(edits)}
        \/ edits' = [e \in Editors |-> IF edits[e].at = "pinning" THEN Idle ELSE edits[e]]
    BY <1>4 DEF File, WriteGoesOn, WriteFails, DiskFails, locked,
       Transfer, Upload, TarUploaded, SidecarUploaded, TarFails, SidecarFails, Cleaned,
       Download, Downloaded, DownloadEnds, DownloadFails,
       Deletion, Delete, DeletedInHa, TarTrashed, SidecarTrashed, DeleteFails,
       Sync, SyncReads, SyncTakes, SyncFails
  <2> QED BY <1>1, <1>2, <2>1, <2>2 DEF SingleOK
<1>5. CASE Restart
  <2>1. sidecar' \in {sidecar, saving} \/ \E e \in Editors : sidecar' = edits[e].meta
    BY <1>5 DEF Restart, Sending
  <2> QED BY <1>2, <1>5, <2>1 DEF Restart, SingleOK
<1>6. CASE UNCHANGED all
  BY <1>6 DEF all, remote, locked, SingleOK
<1> QED BY <1>3, <1>4, <1>5, <1>6 DEF EditsNext

LEMMA SingleInvariance == EditsSpec => []SingleOK
<1>1. EditsInit => SingleOK
  BY DEF EditsInit, SingleOK, Single, Idle
<1> QED BY <1>1, SingleStep, Invariance, PTL DEF EditsSpec

\* A rewrite that has met no other one and no sync that was reading, and what
\* it makes of the sidecar.
Lone(e) == edits[e].at = "sending" /\ edits[e].alone
Sent(e) == [told EXCEPT ![edits[e].field] = edits[e].value]

\* While nothing is in doubt: the sidecar, the cache and the view say the same,
\* a copy in the view is whole unless it is being deleted, ...
SameOK ==
  /\ sidecar \subseteq {told} /\ cached \subseteq {told}
  /\ haItem => ha
  /\ \A i \in item : /\ i.meta = told /\ i.pin = told.pin
                     /\ told \in sidecar /\ told \in cached /\ (op # "delSide" => tar)

\* ... so does what a sync has read, and a lone rewrite starts from it.
ReadOK == op = "read" => /\ read \subseteq {told}
                         /\ read # {} => tar /\ told \in sidecar /\ told \in cached
SentOK == \A e \in Editors : Lone(e) => edits[e].meta = {Sent(e)}

\* Lone is lone, and has its object in the view if there is one.
LoneOK ==
  \A e \in Editors : Lone(e) =>
    /\ \A d \in Editors : edits[d].at = "sending" => d = e
    /\ op # "read" /\ (edits[e].own \/ item = {})

\* What an operation relies on while it runs, in doubt or not.
PlaceOK ==
  /\ item # {} /\ cached = {} => ~tar
  /\ op \in {"tar", "side", "clean"} => item = {}
  /\ op = "read" /\ read # {} => cached # {}
  /\ op \in {"side", "loaded"} => ha
  /\ op = "side" => tar
  /\ op \in {"tar", "side"} => \E m \in Metadata : saving = {m}

TellOK ==
  /\ told \in Metadata
  /\ sure => SameOK /\ ReadOK /\ SentOK
  /\ LoneOK /\ PlaceOK

\* A step that starts no rewrite, and leaves the lone one alone.
NoNewRewrite ==
  \A e \in Editors :
    /\ edits'[e].at = "sending" => edits[e].at = "sending"
    /\ Lone(e)' => /\ Lone(e) /\ edits'[e].meta = edits[e].meta /\ edits'[e].own = edits[e].own
                   /\ edits'[e].field = edits[e].field /\ edits'[e].value = edits[e].value

LEMMA StillLone ==
  ASSUME IInv, LoneOK, NoNewRewrite, op' = "read" => op = "read", item = {} => item' = {}
  PROVE  /\ LoneOK'
         /\ told' = told /\ SentOK => SentOK'
BY DEF NoNewRewrite, LoneOK, SentOK, Sent, Lone

LEMMA NoneIsNew ==
  ASSUME IInv, \/ edits' \in {edits, Joined(edits)}
               \/ \E e \in Editors : edits' = [edits EXCEPT ![e] = Idle]
               \/ \E e \in Editors, w \in BOOLEAN : edits' = [edits EXCEPT ![e] = [Idle EXCEPT !.at = "pinning", !.value = w]]
               \/ edits' = [e \in Editors |-> IF edits[e].at = "pinning" THEN Idle ELSE edits[e]]
  PROVE  NoNewRewrite
<1>1. edits \in [Editors -> EditT]
  BY DEF IInv, DataOK
<1>2. CASE edits' \in {edits, Joined(edits)}
  <2>1. ASSUME NEW e \in Editors PROVE Joined(edits)[e].alone = FALSE /\ Joined(edits)[e].at = edits[e].at
    BY <1>1 DEF Joined, EditT
  <2> QED BY <1>2, <2>1 DEF NoNewRewrite, Lone
<1>3. CASE \E e \in Editors : edits' = [edits EXCEPT ![e] = Idle]
  <2> PICK e \in Editors : edits' = [edits EXCEPT ![e] = Idle]
    BY <1>3
  <2>1. /\ \A d \in Editors : d = e \/ edits'[d] = edits[d]
        /\ edits'[e].at # "sending"
    BY <1>1 DEF Idle
  <2> QED BY <2>1 DEF NoNewRewrite, Lone
<1>4. CASE \E e \in Editors, w \in BOOLEAN : edits' = [edits EXCEPT ![e] = [Idle EXCEPT !.at = "pinning", !.value = w]]
  BY <1>1, <1>4 DEF NoNewRewrite, Lone, Idle
<1>5. CASE edits' = [e \in Editors |-> IF edits[e].at = "pinning" THEN Idle ELSE edits[e]]
  BY <1>1, <1>5 DEF NoNewRewrite, Lone, Idle
<1> QED BY <1>2, <1>3, <1>4, <1>5

\* Of joined rewrites none is lone.
LEMMA JoinedNone == ASSUME IInv, edits' = Joined(edits) PROVE \A e \in Editors : ~Lone(e)'
<1>1. ASSUME NEW e \in Editors PROVE Joined(edits)[e].alone = FALSE
  BY DEF Joined, EditT, IInv, DataOK
<1> QED BY <1>1 DEF Lone

\* The new rewrite of e is lone or makes none so; what it sends is the new.
LEMMA SendTells ==
  ASSUME IInv, TellOK, NEW e \in Editors, edits[e].at # "sending", NEW f \in {"pin", "note"}, NEW v \in BOOLEAN,
         NEW i \in item, Send(e, f, v, i.meta), UNCHANGED <<remote, view, ha, op, read, saving, told, sure>>
  PROVE  TellOK'
<1>1. edits \in [Editors -> EditT]
  BY DEF IInv, DataOK
<1> DEFINE alone == Sending = {} /\ op # "read"
           held == IF alone THEN edits ELSE Joined(edits)
           new  == [at |-> "sending", field |-> f, value |-> v, meta |-> {[i.meta EXCEPT ![f] = v]},
                    own |-> TRUE, alone |-> alone]
<1>2. edits' = [held EXCEPT ![e] = new]
  BY DEF Send
<1>3. held \in [Editors -> EditT]
  BY <1>1, SameEdits
<1>4. ASSUME NEW d \in Editors, Lone(d)'
      PROVE  d = e /\ alone
  <2>1. CASE d # e
    <3>1. Joined(edits)[d].alone = FALSE
      BY <1>1 DEF Joined, EditT
    <3> QED BY <1>2, <1>3, <1>4, <2>1, <3>1 DEF Lone, Sending
  <2> HIDE DEF alone, held
  <2> QED BY <1>2, <1>3, <1>4, <2>1 DEF Lone
<1>5. alone => \A d \in Editors : edits[d].at # "sending"
  BY DEF Sending
<1>6. LoneOK'
  BY <1>1, <1>2, <1>4, <1>5 DEF LoneOK
<1>7. ASSUME sure PROVE SentOK'
  <2>1. i.meta = told
    BY <1>7 DEF TellOK, SameOK
  <2>2. Lone(e)' => edits'[e].meta = {Sent(e)'}
    BY <1>1, <1>2, <1>3, <2>1 DEF Sent
  <2> QED BY <1>4, <2>2 DEF SentOK
<1>8. (sure => SameOK' /\ ReadOK') /\ PlaceOK'
  BY DEF TellOK, SameOK, ReadOK, PlaceOK, remote, view
<1> QED BY <1>6, <1>7, <1>8 DEF TellOK

\* Where a step of an operation leads: nowhere, or to a place of which it
\* brings what PlaceOK asks.
Lands ==
  \/ op' = op /\ UNCHANGED <<read, saving, tar, ha>>
  \/ op # "delSide" /\ op' \in {"idle", "delHa", "delBoth", "delTar", "delSide", "load"}
  \/ op # "delSide" /\ op' = "loaded" /\ ha'
  \/ /\ op # "delSide" /\ op' \in {"tar", "side", "clean"} /\ item = {}
     /\ op' = "side" => tar' /\ ha'
     /\ op' # "clean" => \E m \in Metadata : saving' = {m}

\* A step that changes neither the view nor what was told.
LEMMA QuietTells ==
  ASSUME IInv, TellOK, NoNewRewrite, Lands, UNCHANGED <<cached, item, told>>,
         sure' => /\ sure /\ sidecar' = sidecar /\ (haItem' => ha')
                  /\ item # {} => tar' = tar \/ op' = "delSide",
         item # {} /\ tar' => tar
  PROVE  TellOK'
<1>1. LoneOK' /\ (sure => SentOK')
  BY StillLone DEF TellOK, Lands
<1>2. PlaceOK'
  BY DEF TellOK, PlaceOK, Lands
<1>3. ASSUME sure' PROVE SameOK' /\ ReadOK'
  BY <1>3 DEF TellOK, SameOK, ReadOK, Lands
<1> QED BY <1>1, <1>2, <1>3 DEF TellOK

LEMMA EditTells ==
  ASSUME IInv, TellOK, File \/ \E e \in Editors : Edit(e)
  PROVE  TellOK'
<1>1. CASE File
  <2>1. /\ UNCHANGED <<remote, view, local, read, saving, told, sure>>
        /\ op' = op \/ (op' = "idle" /\ op = "loaded")
        /\ NoNewRewrite
    BY <1>1, NoneIsNew DEF File, WriteGoesOn, WriteFails, DiskFails, locked, history
  <2>2. Lands
    BY <2>1 DEF Lands, remote, local
  <2> QED BY <2>1, <2>2, QuietTells DEF remote, view, local, TellOK, SameOK
<1>2. ASSUME NEW e \in Editors, NEW v \in BOOLEAN, NEW w \in BOOLEAN, Retain(e, v, w) PROVE TellOK'
  <2>1. UNCHANGED <<remote, view, local, locked, told, sure>> /\ NoNewRewrite
    BY <1>2, NoneIsNew DEF Retain, history
  <2>2. Lands
    BY <2>1 DEF Lands, remote, local, locked
  <2> QED BY <2>1, <2>2, QuietTells DEF remote, view, local, TellOK, SameOK
<1>3. ASSUME NEW e \in Editors, NEW v \in BOOLEAN, RetainGoesOn(e) \/ Note(e, v) PROVE TellOK'
  <2>1. /\ UNCHANGED <<remote, view, ha, locked, told, sure>> /\ edits[e].at # "sending"
        /\ \/ edits' \in {edits, [edits EXCEPT ![e] = Idle]}
           \/ \E f \in {"pin", "note"}, u \in BOOLEAN : \E i \in item : Send(e, f, u, i.meta)
    <3>1. edits[e].value \in BOOLEAN
      BY DEF IInv, DataOK, EditT
    <3> QED BY <1>3, <3>1 DEF RetainGoesOn, Note, local, history
  <2>2. CASE edits' \in {edits, [edits EXCEPT ![e] = Idle]}
    <3>1. NoNewRewrite
      BY <2>2, NoneIsNew
    <3>2. Lands
      BY <2>1 DEF Lands, remote, locked
    <3> QED BY <2>1, <3>1, <3>2, QuietTells DEF remote, view, TellOK, SameOK
  <2>3. CASE \E f \in {"pin", "note"}, u \in BOOLEAN : \E i \in item : Send(e, f, u, i.meta)
    BY <2>1, <2>3, SendTells DEF locked
  <2> QED BY <2>1, <2>2, <2>3
<1>4. ASSUME NEW e \in Editors, RewriteFails(e) PROVE TellOK'
  <2>1. /\ UNCHANGED <<tar, view, local, locked, told>> /\ edits' = [edits EXCEPT ![e] = Idle]
        /\ sure' => sure /\ sidecar' = sidecar
    BY <1>4 DEF RewriteFails
  <2>2. NoNewRewrite /\ Lands
    BY <2>1, NoneIsNew DEF Lands, local, locked
  <2> QED BY <2>1, <2>2, QuietTells DEF view, local, TellOK, SameOK
<1>5. ASSUME NEW e \in Editors, Rewritten(e) PROVE TellOK'
  <2> DEFINE s == Sent(e)
  <2>1. /\ sidecar' = edits[e].meta /\ cached' = edits[e].meta /\ edits[e].at = "sending"
        /\ item' = IF edits[e].own THEN {Renewed(e, i) : i \in item} ELSE item
        /\ edits' = [edits EXCEPT ![e] = Idle]
        /\ told' = s /\ (sure' => sure /\ edits[e].alone)
        /\ UNCHANGED <<tar, haItem, local, locked>>
    BY <1>5 DEF Rewritten, Promise, Sent
  <2>2. NoNewRewrite /\ edits[e].meta # {} /\ edits[e].meta \subseteq Metadata
    BY <2>1, NoneIsNew DEF IInv, DataOK, EditT
  <2>3. told' \in Metadata /\ (edits[e].field = "pin" => s.pin = edits[e].value)
        /\ (edits[e].field # "pin" => s.pin = told.pin)
    BY <2>1 DEF TellOK, Sent, Metadata, IInv, DataOK, EditT
  <2>4. item = {} => item' = {}
    BY <2>1
  <2>5. LoneOK'
    BY <2>1, <2>2, <2>4, StillLone DEF locked, TellOK
  <2>6. PlaceOK'
    BY <2>1, <2>2, <2>4 DEF TellOK, PlaceOK, local, locked
  <2>7. ASSUME sure' PROVE SameOK' /\ ReadOK' /\ SentOK'
    <3>1. Lone(e) /\ edits[e].meta = {s} /\ op # "read" /\ (edits[e].own \/ item = {})
          /\ \A d \in Editors : edits[d].at = "sending" => d = e
      BY <2>1, <2>7 DEF TellOK, LoneOK, SentOK, Lone
    <3>2. \A i \in item : i.pin = told.pin /\ (op # "delSide" => tar)
      BY <2>1, <2>7 DEF TellOK, SameOK
    <3>3. \A i \in item' : i.meta = s /\ i.pin = s.pin
      <4>1. \A i \in item : Renewed(e, i).meta = s /\ Renewed(e, i).pin = s.pin
        BY <2>3, <3>1, <3>2 DEF Renewed
      <4> QED BY <2>1, <3>1, <4>1
    <3>4. SameOK'
      BY <2>1, <2>4, <2>7, <3>1, <3>2, <3>3 DEF TellOK, SameOK, local, locked
    <3>5. ReadOK'
      BY <2>1, <3>1 DEF ReadOK, locked
    <3>6. SentOK'
      BY <2>1, <3>1 DEF SentOK, Lone, Idle, IInv, DataOK
    <3> QED BY <3>4, <3>5, <3>6
  <2> QED BY <2>3, <2>5, <2>6, <2>7 DEF TellOK
<1> QED BY <1>1, <1>2, <1>3, <1>4, <1>5 DEF Edit

LEMMA TransferTells ==
  ASSUME IInv, TellOK, Transfer
  PROVE  TellOK'
<1>1. CASE SidecarUploaded
  <2>1. /\ op = "side" /\ op' = "idle" /\ sidecar' = saving /\ cached' = saving
        /\ item' = {[meta |-> m, pin |-> m.pin] : m \in saving}
        /\ told' \in saving /\ (sure' => Sending = {}) /\ edits' = Joined(edits)
        /\ UNCHANGED <<tar, haItem, local>>
    BY <1>1 DEF SidecarUploaded
  <2>2. tar /\ ha
    BY <2>1 DEF TellOK, PlaceOK
  <2>3. PICK m \in Metadata : saving = {m}
    BY <2>1 DEF TellOK, PlaceOK
  <2>4. NoNewRewrite
    BY <2>1, NoneIsNew
  <2>5. \A e \in Editors : ~Lone(e)'
    BY <2>1, JoinedNone
  <2>6. told' = m /\ item' = {[meta |-> m, pin |-> m.pin]}
    BY <2>1, <2>3
  <2> QED BY <2>1, <2>2, <2>3, <2>5, <2>6 DEF TellOK, SameOK, ReadOK, SentOK, LoneOK, PlaceOK, local
<1>2. CASE Upload
  <2>1. /\ op = "idle" /\ item = {} /\ op' = "tar" /\ saving' = {[pin |-> TRUE, note |-> haNote]}
        /\ UNCHANGED <<remote, cached, item, haItem, local, edits, told, sure>>
    BY <1>2 DEF Upload, SaveStarts, history
  <2>2. [pin |-> TRUE, note |-> haNote] \in Metadata
    BY DEF IInv, DataOK, Metadata
  <2>3. NoNewRewrite /\ Lands
    BY <2>1, <2>2, NoneIsNew DEF Lands
  <2> QED BY <2>1, <2>3, QuietTells DEF remote, local, TellOK, SameOK
<1>3. CASE TarUploaded \/ TarFails \/ SidecarFails \/ Cleaned
  <2>1. /\ op \in {"tar", "side", "clean"} /\ item = {}
        /\ UNCHANGED <<cached, item, haItem, local, edits, told>>
        /\ sure' => sure /\ sidecar' = sidecar
        /\ \/ op' = "side" /\ op = "tar" /\ tar' /\ ha /\ saving' = saving
           \/ op' \in {"clean", "idle"}
    <3>1. op \in {"tar", "side", "clean"} => item = {}
      BY DEF TellOK, PlaceOK
    <3>2. CASE TarUploaded
      BY <3>1, <3>2 DEF TarUploaded, view, local, history
    <3>3. CASE TarFails
      BY <3>1, <3>3 DEF TarFails, local, history
    <3>4. CASE SidecarFails
      BY <3>1, <3>4 DEF SidecarFails, view, local
    <3>5. CASE Cleaned
      BY <3>1, <3>5 DEF Cleaned, local, history
    <3> QED BY <1>3, <3>2, <3>3, <3>4, <3>5
  <2>2. NoNewRewrite /\ Lands
    BY <2>1, NoneIsNew DEF Lands, local, TellOK, PlaceOK
  <2> QED BY <2>1, <2>2, QuietTells DEF local, TellOK, SameOK
<1>4. CASE Download \/ Downloaded \/ DownloadEnds \/ DownloadFails
  <2>1. /\ op \in {"idle", "load", "loaded"}
        /\ UNCHANGED <<remote, cached, item, edits, told, sure>>
        /\ (ha => ha') /\ (haItem' => haItem \/ ha')
        /\ op' \in {"idle", "load"} \/ (op' = "loaded" /\ ha')
    <3>1. CASE Download
      BY <3>1 DEF Download, view, local, history
    <3>2. CASE Downloaded
      BY <3>2 DEF Downloaded, view, history
    <3>3. CASE DownloadEnds
      <4>1. ha
        BY <3>3 DEF DownloadEnds, TellOK, PlaceOK
      <4> QED BY <3>3, <4>1 DEF DownloadEnds, local, history
    <3>4. CASE DownloadFails
      <4>1. /\ ha' \in {ha, TRUE} /\ op \in {"load", "loaded"} /\ op' = "idle"
            /\ UNCHANGED <<remote, cached, item, haItem, edits, told, sure>>
        BY <3>4 DEF DownloadFails, view, history
      <4>2. ha => ha'
        BY <4>1, Zenon
      <4> QED BY <4>1, <4>2
    <3> QED BY <1>4, <3>1, <3>2, <3>3, <3>4
  <2>2. NoNewRewrite /\ Lands
    BY <2>1, NoneIsNew DEF Lands
  <2> QED BY <2>1, <2>2, QuietTells DEF remote, TellOK, SameOK
<1> QED BY <1>1, <1>2, <1>3, <1>4 DEF Transfer

LEMMA DeletionTells ==
  ASSUME IInv, TellOK, Deletion
  PROVE  TellOK'
<1>1. CASE SidecarTrashed
  <2>1. /\ op = "delSide" /\ op' = "idle" /\ sidecar' \in {{}, sidecar} /\ cached' = {} /\ item' = {}
        /\ edits' = Orphaned(edits) /\ UNCHANGED <<tar, haItem, local, told, sure>>
    BY <1>1 DEF SidecarTrashed, history
  <2>2. \A e \in Editors : /\ Lone(e)' => Lone(e)
                           /\ edits'[e].at = edits[e].at /\ edits'[e].meta = edits[e].meta
                           /\ edits'[e].field = edits[e].field /\ edits'[e].value = edits[e].value
    BY <2>1 DEF Lone, Orphaned, IInv, DataOK, EditT
  <2>3. LoneOK' /\ (sure => SentOK')
    BY <2>1, <2>2 DEF LoneOK, SentOK, Sent, TellOK
  <2> QED BY <2>1, <2>3 DEF TellOK, SameOK, ReadOK, PlaceOK, local
<1>2. ASSUME NEW which \in {"delHa", "delBoth", "delTar"}, Delete(which) PROVE TellOK'
  <2>1. /\ op = "idle" /\ op' = which
        /\ UNCHANGED <<remote, view, local, edits, told, sure>>
    BY <1>2 DEF Delete, history
  <2>2. NoNewRewrite /\ Lands
    BY <2>1, NoneIsNew DEF Lands
  <2> QED BY <2>1, <2>2, QuietTells DEF remote, view, local, TellOK, SameOK
<1>3. CASE DeletedInHa \/ TarTrashed \/ DeleteFails
  <2>1. /\ op \in {"delHa", "delBoth", "delTar"} /\ op' \in {"idle", "delTar", "delSide"}
        /\ UNCHANGED <<sidecar, cached, item, edits, told>> /\ (tar' => tar)
        /\ sure' => sure /\ (tar' = tar \/ op' = "delSide")
        /\ sure' => ~haItem' \/ UNCHANGED <<ha, haItem>>
    <3>1. CASE DeletedInHa
      BY <3>1 DEF DeletedInHa, remote, history
    <3>2. CASE TarTrashed
      BY <3>2 DEF TarTrashed, view, local, history
    <3>3. CASE DeleteFails
      <4>1. sure' => sure /\ UNCHANGED <<tar, ha>>
        BY <3>3 DEF DeleteFails
      <4>2. UNCHANGED <<sidecar, cached, item, haItem, edits, told>> /\ op' = "idle"
        BY <3>3 DEF DeleteFails, view
      <4>3. op \in {"delHa", "delBoth", "delTar"} /\ (tar' => tar)
        <5>1. op \in {"delHa", "delBoth", "delTar"} /\ tar' \in {tar, FALSE}
          BY <3>3 DEF DeleteFails
        <5>2. tar' => tar
          BY <5>1, Zenon
        <5> QED BY <5>1, <5>2
      <4> QED BY <4>1, <4>2, <4>3
    <3> QED BY <1>3, <3>1, <3>2, <3>3
  <2>2. NoNewRewrite /\ Lands
    BY <2>1, NoneIsNew DEF Lands
  <2> QED BY <2>1, <2>2, QuietTells DEF TellOK, SameOK
<1> QED BY <1>1, <1>2, <1>3 DEF Deletion

LEMMA SyncTells ==
  ASSUME IInv, SingleOK, TellOK, Sync
  PROVE  TellOK'
<1>1. CASE SyncReads
  <2> DEFINE pair == tar /\ sidecar # {}
  <2>1. /\ op = "idle" /\ op' = "read" /\ edits' = Joined(edits)
        /\ read' = IF ~pair THEN {} ELSE IF cached # {} THEN cached ELSE sidecar
        /\ tar' = pair /\ sidecar' = IF pair THEN sidecar ELSE {}
        /\ IF pair /\ cached = {} /\ Sending = {} /\ ~sure
           THEN told' \in sidecar /\ sure' = TRUE ELSE UNCHANGED <<told, sure>>
        /\ cached' = read' /\ haItem' = ha /\ UNCHANGED <<item, ha>>
    BY <1>1 DEF SyncReads, local
  <2>2. \A e \in Editors : ~Lone(e)'
    BY <2>1, JoinedNone
  <2>3. LoneOK' /\ SentOK'
    BY <2>2 DEF LoneOK, SentOK
  <2>4. told' \in Metadata
    BY <2>1 DEF TellOK, IInv, DataOK
  <2>5. PlaceOK'
    BY <2>1 DEF TellOK, PlaceOK
  <2>6. CASE sure /\ UNCHANGED <<told, sure>>
    <3>1. SameOK
      BY <2>6 DEF TellOK
    <3>2. item # {} => pair
      BY <2>1, <3>1 DEF SameOK
    <3>3. SameOK' /\ ReadOK'
      BY <2>1, <2>6, <3>1, <3>2 DEF SameOK, ReadOK
    <3> QED BY <2>3, <2>4, <2>5, <3>3 DEF TellOK
  <2>7. CASE pair /\ cached = {} /\ told' \in sidecar
    <3>1. item = {}
      BY <2>7 DEF TellOK, PlaceOK
    <3>2. sidecar \subseteq {told'}
      BY <2>7 DEF SingleOK, Single
    <3>3. SameOK' /\ ReadOK'
      BY <2>1, <2>7, <3>1, <3>2 DEF SameOK, ReadOK
    <3> QED BY <2>3, <2>4, <2>5, <3>3 DEF TellOK
  <2>8. CASE ~sure'
    BY <2>3, <2>4, <2>5, <2>8 DEF TellOK
  <2> QED BY <2>1, <2>6, <2>7, <2>8
<1>2. CASE SyncTakes
  <2>1. /\ op = "read" /\ item' = {[meta |-> m, pin |-> m.pin] : m \in read}
        /\ edits' = Orphaned(edits) /\ UNCHANGED <<remote, cached, haItem, local, told, sure>>
        /\ \/ read = {} /\ op' = "tar" /\ saving' = {[pin |-> option, note |-> haNote]}
           \/ op' = "idle"
    BY <1>2 DEF SyncTakes, SaveStarts, history
  <2>2. [pin |-> option, note |-> haNote] \in Metadata
    BY DEF IInv, DataOK, Metadata
  <2>3. \A e \in Editors : ~Lone(e)'
    BY <2>1 DEF Lone, Orphaned, IInv, DataOK, EditT, TellOK, LoneOK
  <2>4. read = {} => item' = {}
    BY <2>1
  <2>5. PlaceOK'
    BY <2>1, <2>2, <2>4 DEF TellOK, PlaceOK, remote, local
  <2>6. ASSUME sure PROVE SameOK'
    BY <2>1, <2>6 DEF TellOK, SameOK, ReadOK, remote, local
  <2> QED BY <2>1, <2>3, <2>5, <2>6 DEF TellOK, ReadOK, SentOK, LoneOK
<1>3. CASE SyncFails
  <2>1. /\ op = "read" /\ op' = "idle"
        /\ UNCHANGED <<remote, view, local, edits, told, sure>>
    BY <1>3 DEF SyncFails, history
  <2>2. NoNewRewrite /\ Lands
    BY <2>1, NoneIsNew DEF Lands
  <2> QED BY <2>1, <2>2, QuietTells DEF remote, view, local, TellOK, SameOK
<1> QED BY <1>1, <1>2, <1>3 DEF Sync

LEMMA RestartTells ==
  ASSUME IInv, TellOK, Restart
  PROVE  TellOK'
<1>1. /\ cached' = {} /\ item' = {} /\ haItem' = FALSE /\ op' = "idle" /\ told' = told
      /\ edits' = [e \in Editors |-> Idle]
      /\ sure' => sure /\ Sending = {} /\ op = "idle"
  BY DEF Restart
<1>2. sure' => sidecar' = sidecar
  BY <1>1 DEF Restart
<1>3. \A e \in Editors : ~Lone(e)'
  BY <1>1 DEF Lone, Idle
<1> QED BY <1>1, <1>2, <1>3 DEF TellOK, SameOK, ReadOK, SentOK, LoneOK, PlaceOK

LEMMA TellInvariance == EditsSpec => []TellOK
<1>1. EditsInit => TellOK
  BY DEF EditsInit, TellOK, SameOK, ReadOK, SentOK, LoneOK, PlaceOK, Lone, Idle, Metadata
<1>2. ASSUME IInv, SingleOK, TellOK, [EditsNext]_all PROVE TellOK'
  <2>1. CASE UNCHANGED all
    <3>1. UNCHANGED <<tar, sidecar, cached, item, haItem, ha, op, read, saving, edits, told, sure>>
      BY <2>1 DEF all, remote, view, local, locked, history
    <3>2. NoNewRewrite /\ Lands
      BY <1>2, <3>1, NoneIsNew DEF Lands
    <3> QED BY <1>2, <3>1, <3>2, QuietTells DEF TellOK, SameOK
  <2> QED BY <1>2, <2>1, EditTells, TransferTells, DeletionTells, SyncTells, RestartTells DEF EditsNext
<1> QED BY <1>1, <1>2, Invariance, SingleInvariance, PTL DEF EditsSpec

\* What the user was told of the copy in Proton Drive is what its sidecar says,
\* at rest or not, while no failure or overlap puts it in doubt (retain and note
\* lines 699-734): for any requests, uploads, deletions, syncs and restarts.
THEOREM EditsStick == EditsSpec => []EditSticks
<1>1. TellOK => EditSticks
  BY DEF TellOK, SameOK, EditSticks
<1> QED BY <1>1, TellInvariance, PTL

\* At rest the view shows no copy that is gone and nothing that is not in the
\* sidecar, neither after a deletion that failed half-way nor after rewrites
\* that met syncs (_delete lines 377-384, _loadMetadata 405-411).
THEOREM ViewIsTrue == EditsSpec => []ViewMatches
<1>1. TellOK => ViewMatches
  <2> SUFFICES ASSUME TellOK, AtRest, sure PROVE ViewMatches
    BY DEF ViewMatches
  <2>1. SameOK /\ op # "delSide"
    BY DEF TellOK, AtRest
  <2>2. ASSUME NEW i \in item PROVE tar /\ sidecar = {i.meta} /\ i.pin = i.meta.pin /\ cached = sidecar
    BY <2>1 DEF SameOK
  <2> QED BY <2>1, <2>2 DEF SameOK, ViewMatches
<1> QED BY <1>1, TellInvariance, PTL
=============================================================================
