----------------------------- MODULE DurableFile -----------------------------
(***************************************************************************)
(* A file written twice, file/jsonfilesaver.py: first to a recovery copy,  *)
(* then to its own path, so that a reader finds one that is whole.  The    *)
(* data cache, the client id and the list of pinned backups are kept so.   *)
(*                                                                         *)
(* Opening a file to write empties it; a power failure or a full disk may  *)
(* end a write after that.  A file that is not whole is Torn: no JSON.     *)
(***************************************************************************)
EXTENDS Naturals

CONSTANTS
  Values,    \* what is saved
  Missing,   \* there is no such file
  Torn,      \* the file holds no JSON
  MaxHits    \* bound: failures between two saves that succeed

ASSUME ContentsAssumption == Missing \notin Values /\ Torn \notin Values /\ Missing # Torn
ASSUME BoundAssumption == MaxHits \in Nat

Contents == Values \union {Missing, Torn}

VARIABLES
  main, copy,   \* the file and its recovery copy
  pc,           \* where write() or delete() is, or "idle"
  data,         \* what write() saves
  kept,         \* history: what may be read back
  hits          \* history: failures since the last write() that returned

vars == <<main, copy, pc, data, kept, hits>>

TypeOK ==
  /\ main \in Contents /\ copy \in Contents
  /\ pc \in {"idle", "emptyCopy", "emptyMain", "betweenFiles", "deleting"}
  /\ data \in Values /\ kept \subseteq Values /\ hits \in Nat

Init ==
  /\ main = Missing /\ copy = Missing
  /\ pc = "idle" /\ data \in Values /\ kept = {} /\ hits = 0

\* Mutation of StartWrite: both files are opened before the first is written.
StartWriteBoth(v) ==
  /\ pc = "idle" /\ pc' = "emptyCopy"
  /\ data' = v /\ copy' = Torn /\ main' = Torn
  /\ UNCHANGED <<kept, hits>>

\* write(): open the recovery copy, dump the data into it, ...
StartWrite(v) ==
  /\ pc = "idle" /\ pc' = "emptyCopy"
  /\ data' = v /\ copy' = Torn
  /\ UNCHANGED <<main, kept, hits>>

CopyWritten ==
  /\ pc = "emptyCopy" /\ pc' = "betweenFiles"
  /\ copy' = data
  /\ UNCHANGED <<main, data, kept, hits>>

\* ... then the same for the file itself.
OpenMain ==
  /\ pc = "betweenFiles" /\ pc' = "emptyMain"
  /\ main' = Torn
  /\ UNCHANGED <<copy, data, kept, hits>>

MainWritten ==
  /\ pc = "emptyMain" /\ pc' = "idle"
  /\ main' = data /\ kept' = {data} /\ hits' = 0
  /\ UNCHANGED <<copy, data>>

\* delete(): the recovery copy goes first.
StartDelete ==
  /\ pc = "idle" /\ pc' = "deleting"
  /\ copy' = Missing
  /\ UNCHANGED <<main, data, kept, hits>>

MainDeleted ==
  /\ pc = "deleting" /\ pc' = "idle"
  /\ main' = Missing /\ kept' = {} /\ hits' = 0
  /\ UNCHANGED <<copy, data>>

\* A power failure, or an OSError that ends the call, leaves the files as they
\* are.  What write() was saving may be read back from now on.
Interrupted ==
  /\ pc # "idle" /\ pc' = "idle"
  /\ hits < MaxHits /\ hits' = hits + 1
  /\ kept' = IF pc = "deleting" THEN kept ELSE kept \union {data}
  /\ UNCHANGED <<main, copy, data>>

\* The disk loses one of the files while nothing is written.
Damaged ==
  /\ pc = "idle"
  /\ hits < MaxHits /\ hits' = hits + 1
  /\ \/ main # Missing /\ main' = Torn /\ copy' = copy
     \/ copy # Missing /\ copy' = Torn /\ main' = main
  /\ UNCHANGED <<pc, data, kept>>

Next ==
  \/ \E v \in Values : StartWrite(v)
  \/ CopyWritten \/ OpenMain \/ MainWritten
  \/ StartDelete \/ MainDeleted
  \/ Interrupted \/ Damaged

Spec == Init /\ [][Next]_vars

-----------------------------------------------------------------------------
(* read()                                                                  *)

\* What read() returns: the copy counts only if the file is not whole.
Read == IF main \in Values THEN main ELSE copy

\* The data survives one failure after a save that returned: read() then finds
\* what was saved last, or what was being saved (write lines 50-53).  A file
\* never saved, or being deleted, promises nothing.
Saved == kept # {} /\ main # Missing
SurvivesOneFailure == pc = "idle" /\ hits <= 1 /\ Saved => Read \in kept
=============================================================================
